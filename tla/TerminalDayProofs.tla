--------------------------- MODULE TerminalDayProofs ---------------------------
(***************************************************************************)
(* Proofs about TerminalDay, for any number of workers, batches, codes,    *)
(* units, keys, items, places, requests and decode loops.                  *)
(*                                                                         *)
(* The first half is about Batch: every reachable state is well typed, and *)
(* the counters of a batch are its items.                                  *)
(*                                                                         *)
(* The second is about the pages of the terminal and the scanner on top of *)
(* them.  A page waits for one answer at a time (OneAtATime), so what it   *)
(* holds is what it took last (HandIsLast), which is what it commits.  A   *)
(* unit is counted only for a scan that was accepted: where an item has    *)
(* one unit, a commit follows an acceptance (HandledOnce); in temporary    *)
(* storage every operation that may still place a unit stands for one      *)
(* (StoredOnce).  A loop that nobody wants any more has no votes           *)
(* (CameraInv).                                                            *)
(*                                                                         *)
(* The third is about the report page, for a worker who does not hurry: a  *)
(* report is loaded while nothing else goes on, an operation that is under *)
(* way is of the report displayed, and a request carries findings of its   *)
(* own session only (Alone, Apart).                                        *)
(***************************************************************************)
EXTENDS TerminalDay, WellFoundedInduction, FiniteSetTheorems, TLAPS

-----------------------------------------------------------------------------
(* The codes of the day                                                    *)

(* Max picks a member of a set of codes.                                   *)
LEMMA MaxIsMember ==
    ASSUME NEW S \in SUBSET (0 .. MaxCode), S # {}
    PROVE  Max(S) \in S
  <1>0. MaxCode \in Nat
    BY BatchAssumption
  <1> DEFINE Above(j) == {k \in S : k > j}
             Aboves == {Above(j) : j \in S}
  <1>1. IsFiniteSet(S)
    <2>1. IsFiniteSet(0 .. MaxCode)
      BY <1>0, FS_Interval
    <2> QED
      BY <2>1, FS_Subset
  <1>2. IsWellFoundedOn(StrictSubsetOrdering(S), FiniteSubsetsOf(S))
    BY FS_StrictSubsetOrderingWellFounded
  <1>3. Aboves \subseteq FiniteSubsetsOf(S) /\ Aboves # {}
    <2>1. \A j \in S : Above(j) \subseteq S
      OBVIOUS
    <2>2. \A j \in S : IsFiniteSet(Above(j))
      BY <1>1, <2>1, FS_Subset
    <2> QED
      BY <2>1, <2>2 DEF FiniteSubsetsOf
  <1>4. PICK t \in Aboves : \A u \in Aboves : ~(<<u, t>> \in StrictSubsetOrdering(S))
    <2> HIDE DEF Aboves
    <2> QED
      BY <1>2, <1>3, WFMin
  <1>5. PICK j \in S : t = Above(j)
    BY <1>4
  <1>6. \A k \in S : k \in Int
    BY <1>0
  <1>7. ASSUME NEW k \in S, k > j
        PROVE  FALSE
    <2>1. Above(k) \subseteq Above(j)
      <3>1. ASSUME NEW i \in S, i > k PROVE i > j
        <4>1. i \in Int /\ k \in Int /\ j \in Int
          BY <1>6
        <4> QED
          BY <1>7, <3>1, <4>1
      <3> QED
        BY <3>1
    <2>2. k \in Above(j) /\ k \notin Above(k)
      BY <1>6, <1>7
    <2>3. Above(k) \in SUBSET S /\ Above(j) \in SUBSET S /\ Above(k) \in Aboves
      OBVIOUS
    <2>4. <<Above(k), t>> \in StrictSubsetOrdering(S)
      BY <1>5, <2>1, <2>2, <2>3 DEF StrictSubsetOrdering
    <2> QED
      BY <1>4, <2>3, <2>4
  <1>8. \A k \in S : j >= k
    BY <1>6, <1>7
  <1> QED
    BY <1>8 DEF Max

(* What the steps use of the constants.                                    *)
LEMMA Constants ==
    MaxCode \in Nat /\ MaxUnit \in Nat /\ None \notin Batches \cup Keys \cup {"auto"}
  BY BatchAssumption

USE Constants

LEMMA LastCodeType ==
    ASSUME TypeOK
    PROVE  LastCode \in 0 .. MaxCode
  <1> DEFINE S == {batch[b].code : b \in {c \in Batches : Exists(c)}} \cup {0}
  <1>1. \A b \in Batches : batch[b].code \in 0 .. MaxCode
    BY DEF TypeOK, BatchRow
  <1>2. S \in SUBSET (0 .. MaxCode) /\ S # {}
    BY <1>1
  <1>3. LastCode = Max(S)
    BY DEF LastCode
  <1> HIDE DEF S
  <1> QED
    BY <1>2, <1>3, MaxIsMember

-----------------------------------------------------------------------------
(* The invariant                                                           *)

(* What the counters rest on: a unit that was given out belongs to a batch *)
(* that exists, or to none, and nobody owns a unit that was not given out. *)
OwnedItems == \A u \in Units : item[u].batch # None => Exists(item[u].batch) /\ u <= units
CodedBatches == \A b \in Batches : Exists(b) => batch[b].code \in Codes
BatchInv == TypeOK /\ OwnedItems /\ CodedBatches /\ CountsMatchItems

LEMMA MovesAre ==
    Moves = {"submit", "accept", "send", "startReceiving", "completeReceiving", "void",
             "counting"}
  BY DEF Moves, NextStatus

(* The fields a call has in each of its stages.                            *)
LEMMA CreateFields ==
    ASSUME NEW c \in Call, c.stage = "creating"
    PROVE  /\ c.key \in Keys /\ c.first \in BOOLEAN /\ c.code \in Codes
           /\ c.unit \in Int /\ (c.first => c.unit \in Units) /\ c.depth \in 0 .. 1
  BY MovesAre DEF Call, Idle, Units

LEMMA UnitFields ==
    ASSUME NEW c \in Call
    PROVE  /\ c.stage \in {"numbering", "adding"} =>
                 c.batch \in Batches /\ c.key \in Keys /\ c.seen \in Nat
           /\ c.stage = "adding" => c.unit \in Units
           /\ c.stage = "receiving" =>
                 /\ c.batch \in Batches /\ c.unit \in Units /\ c.seen \in Nat
                 /\ c.expected \in Nat /\ c.home \in BOOLEAN
  BY MovesAre DEF Call, Idle

LEMMA MoveFields ==
    ASSUME NEW c \in Call, c.stage \in Moves
    PROVE  /\ c.batch \in Batches /\ c.key \in Keys \cup {None, "auto"} /\ c.from \in Status
           /\ Decided(c)
  BY MovesAre DEF Call, Idle

LEMMA HomeFields ==
    ASSUME NEW c \in Call
    PROVE  /\ c.stage = "complete" => c.batch \in Batches /\ c.key \in Keys \cup {"auto"}
           /\ c.stage \in {"homeStart", "homeArrival"} => c.batch \in Batches /\ c.unit \in Units
           /\ c.stage \in {"homeLine", "homeWrite", "homeReceive"} =>
                 c.batch \in Batches /\ c.unit \in Units /\ c.code \in Codes
  BY MovesAre DEF Call, Idle

LEMMA IdleType == Idle \in Call
  BY DEF Call

(* A step that changes nothing the invariant speaks of.                    *)
LEMMA RowsKeep ==
    ASSUME BatchInv, TypeOK', UNCHANGED <<batch, item, units>>
    PROVE  BatchInv'
  BY DEF BatchInv, OwnedItems, CodedBatches, CountsMatchItems, Exists, ItemsOf, ReceivedOf

(* A step of a call that writes no row.                                    *)
LEMMA ReadKeeps ==
    ASSUME BatchInv, NEW w \in Workers, NEW c \in Call, Read(w, c)
    PROVE  BatchInv'
  <1>1. call' \in [Workers -> Call]
    BY DEF Read, Goto, BatchInv, TypeOK
  <1>2. UNCHANGED <<batch, item, units, arrival, line>>
    BY DEF Read, rows
  <1>3. TypeOK'
    BY <1>1, <1>2 DEF BatchInv, TypeOK
  <1> QED
    BY <1>2, <1>3, RowsKeep

(* A batch moves to another of its states and keeps its counters.          *)
LEMMA MoveKeeps ==
    ASSUME BatchInv, NEW b \in Batches, Exists(b), NEW row \in BatchRow,
           row.status \notin {"none", "DELETED"}, row.code = batch[b].code,
           row.expected = batch[b].expected, row.scanned = batch[b].scanned,
           batch' = [batch EXCEPT ![b] = row],
           call' \in [Workers -> Call], UNCHANGED <<item, units, arrival, line>>
    PROVE  BatchInv'
  <1>1. TypeOK'
    BY DEF BatchInv, TypeOK
  <1>2. \A x \in Batches : batch'[x] = IF x = b THEN row ELSE batch[x]
    BY DEF BatchInv, TypeOK
  <1>3. \A x \in Batches : Exists(x)' <=> Exists(x)
    BY <1>2 DEF Exists
  <1>4. \A x \in Batches : /\ batch'[x].code = batch[x].code
                           /\ batch'[x].expected = batch[x].expected
                           /\ batch'[x].scanned = batch[x].scanned
    BY <1>2
  <1>5. \A x \in Batches : ItemsOf(x)' = ItemsOf(x) /\ ReceivedOf(x)' = ReceivedOf(x)
    BY DEF ItemsOf, ReceivedOf
  <1>6. OwnedItems'
    BY <1>3 DEF BatchInv, OwnedItems, TypeOK, ItemRow
  <1>7. CodedBatches'
    BY <1>3, <1>4 DEF BatchInv, CodedBatches
  <1>8. CountsMatchItems'
    BY <1>3, <1>4, <1>5 DEF BatchInv, CountsMatchItems
  <1> QED
    BY <1>1, <1>6, <1>7, <1>8 DEF BatchInv

(* The units of a batch are finitely many.                                 *)
LEMMA ItemsFinite ==
    ASSUME NEW b
    PROVE  IsFiniteSet(ItemsOf(b)) /\ IsFiniteSet(ReceivedOf(b))
  <1>1. IsFiniteSet(Units)
    BY FS_Interval DEF Units
  <1>2. ItemsOf(b) \in SUBSET Units /\ ReceivedOf(b) \in SUBSET Units
    BY DEF ItemsOf, ReceivedOf
  <1> QED
    BY <1>1, <1>2, FS_Subset

-----------------------------------------------------------------------------
(* The steps                                                               *)

(* create.                                                                 *)
LEMMA CreateReads ==
    ASSUME BatchInv, NEW w \in Workers, NEW k \in Keys, NEW first \in BOOLEAN,
           NEW depth \in 0 .. 1, LastCode < MaxCode, first => units < MaxUnit,
           ReadForCreate(w, k, first, depth)
    PROVE  BatchInv'
  <1> DEFINE c == [stage |-> "creating", key |-> k, first |-> first,
                   code |-> LastCode + 1, unit |-> units + 1, depth |-> depth]
  <1>1. LastCode + 1 \in Codes
    BY LastCodeType DEF BatchInv, Codes
  <1>2. units + 1 \in 1 .. (MaxUnit + 1) /\ (first => units + 1 \in Units)
    BY DEF BatchInv, TypeOK, Units
  <1>3. c \in Call
    BY <1>1, <1>2 DEF Call
  <1>4. Read(w, c)
    BY DEF ReadForCreate
  <1> HIDE DEF c
  <1> QED
    BY <1>3, <1>4, ReadKeeps

LEMMA CommitCreateKeeps ==
    ASSUME BatchInv, NEW w \in Workers, NEW b \in Batches, CommitCreate(w, b)
    PROVE  BatchInv'
  <1> DEFINE c == call[w]
             row == [NoBatch EXCEPT !.status = "CREATED", !.code = c.code, !.key = c.key,
                                    !.expected = IF c.first THEN 1 ELSE 0]
  <1>0. TypeOK /\ c \in Call /\ c.stage = "creating"
    BY DEF BatchInv, TypeOK, CommitCreate, At
  <1>1. /\ c.key \in Keys /\ c.first \in BOOLEAN /\ c.code \in Codes
        /\ c.unit \in Int /\ (c.first => c.unit \in Units)
    BY <1>0, CreateFields
  <1>2. /\ row \in BatchRow /\ row.status = "CREATED" /\ row.code = c.code
        /\ row.expected = (IF c.first THEN 1 ELSE 0) /\ row.scanned = 0
    <2>1. PICK n \in Nat : n = IF c.first THEN 1 ELSE 0
      OBVIOUS
    <2>2. row = [NoBatch EXCEPT !.status = "CREATED", !.code = c.code, !.key = c.key,
                                !.expected = n]
      BY <2>1
    <2> HIDE DEF row, c
    <2>3. c.key \in Keys /\ c.code \in 0 .. MaxCode /\ "CREATED" \in Status
      BY <1>1 DEF Codes, Status
    <2>4. row = [status |-> "CREATED", code |-> c.code, key |-> c.key, expected |-> n,
                 scanned |-> 0, submitKey |-> None, sendKey |-> None, completeKey |-> None]
      BY <2>2 DEF NoBatch
    <2>5. row \in BatchRow
      BY <2>3, <2>4 DEF BatchRow
    <2> QED
      BY <2>1, <2>4, <2>5
  <1>3. \A x \in Batches : batch'[x] = IF x = b THEN row ELSE batch[x]
    BY <1>0 DEF CommitCreate, TypeOK
  <1>4. batch' \in [Batches -> BatchRow]
    BY <1>0, <1>2 DEF CommitCreate, TypeOK
  <1>5. ~Exists(b) /\ ItemsOf(b) = {} /\ ReceivedOf(b) = {}
    BY DEF CommitCreate, NoBatch, Exists, BatchInv, OwnedItems, ItemsOf, ReceivedOf
  <1>6. call' \in [Workers -> Call] /\ UNCHANGED <<arrival, line>>
    BY <1>0, IdleType DEF CommitCreate, Goto, TypeOK
  <1> HIDE DEF c, row
  <1>7. Exists(b)' /\ \A x \in Batches \ {b} : Exists(x)' <=> Exists(x)
    BY <1>2, <1>3 DEF Exists
  <1>8. CodedBatches'
    BY <1>1, <1>2, <1>3, <1>7 DEF CodedBatches, BatchInv
  <1>9. CASE c.first
    <2>1. /\ c.unit \in Units /\ units < c.unit
          /\ item' = [item EXCEPT ![c.unit] = [batch |-> b, key |-> c.key,
                                              status |-> "REGISTERED"]]
          /\ units' = c.unit
      BY <1>1, <1>9 DEF CommitCreate, Register, c
    <2>2. item[c.unit].batch = None
      BY <1>0, <2>1 DEF BatchInv, OwnedItems, TypeOK, Units
    <2>3. \A u \in Units : item'[u] = IF u = c.unit
                          THEN [batch |-> b, key |-> c.key, status |-> "REGISTERED"]
                          ELSE item[u]
      BY <1>0, <2>1 DEF TypeOK
    <2>4. [batch |-> b, key |-> c.key, status |-> "REGISTERED"] \in ItemRow
      BY <1>1 DEF ItemRow
    <2>5. TypeOK'
      BY <1>0, <1>4, <1>6, <2>1, <2>4 DEF TypeOK, Units
    <2>6. OwnedItems'
      BY <1>0, <1>5, <1>7, <2>1, <2>3 DEF BatchInv, OwnedItems, TypeOK, ItemRow, Units
    <2>7. /\ ItemsOf(b)' = {c.unit} /\ ReceivedOf(b)' = {}
          /\ \A x \in Batches \ {b} : ItemsOf(x)' = ItemsOf(x) /\ ReceivedOf(x)' = ReceivedOf(x)
      BY <1>5, <2>1, <2>2, <2>3 DEF ItemsOf, ReceivedOf
    <2>8. Cardinality({c.unit}) = 1 /\ Cardinality({}) = 0
      BY FS_Singleton, FS_EmptySet
    <2>9. CountsMatchItems'
      <3>1. batch'[b].expected = 1 /\ batch'[b].scanned = 0
        BY <1>2, <1>3, <1>9
      <3>2. \A x \in Batches \ {b} : batch'[x] = batch[x]
        BY <1>3
      <3> QED
        BY ZenonT(60), <1>7, <2>7, <2>8, <3>1, <3>2 DEF CountsMatchItems, BatchInv
    <2> QED
      BY <1>8, <2>5, <2>6, <2>9 DEF BatchInv
  <1>10. CASE ~c.first
    <2>1. UNCHANGED <<item, units>>
      BY <1>10 DEF CommitCreate, c
    <2>2. TypeOK'
      BY <1>0, <1>4, <1>6, <2>1 DEF TypeOK
    <2>3. OwnedItems'
      BY <1>0, <1>7, <2>1 DEF BatchInv, OwnedItems, TypeOK, ItemRow
    <2>4. \A x \in Batches : ItemsOf(x)' = ItemsOf(x) /\ ReceivedOf(x)' = ReceivedOf(x)
      BY <2>1 DEF ItemsOf, ReceivedOf
    <2>5. Cardinality({}) = 0
      BY FS_EmptySet
    <2>6. CountsMatchItems'
      BY <1>2, <1>3, <1>5, <1>7, <1>10, <2>4, <2>5 DEF CountsMatchItems, BatchInv
    <2> QED
      BY <1>8, <2>2, <2>3, <2>6 DEF BatchInv
  <1> QED
    BY <1>9, <1>10

LEMMA RacedKeeps ==
    ASSUME BatchInv, NEW w \in Workers, CreateRaced(w)
    PROVE  BatchInv'
  <1>1. call[w] \in Call /\ call[w].stage = "creating"
    BY DEF BatchInv, TypeOK, CreateRaced, At
  <1>2. call[w].key \in Keys /\ call[w].first \in BOOLEAN
    BY <1>1, CreateFields
  <1>3. \/ Read(w, Idle)
        \/ /\ LastCode < MaxCode /\ (call[w].first => units < MaxUnit)
           /\ ReadForCreate(w, call[w].key, call[w].first, 1)
    BY DEF CreateRaced
  <1> QED
    BY <1>2, <1>3, ReadKeeps, IdleType, CreateReads

(* addUnit.                                                                *)
LEMMA AddReads ==
    ASSUME BatchInv, NEW w \in Workers, NEW b \in Batches, NEW k \in Keys,
           AddUnit(w, b, k) \/ NumberUnit(w)
    PROVE  BatchInv'
  <1>1. CASE AddUnit(w, b, k)
    <2>1. batch[b].expected \in Nat
      BY DEF BatchInv, TypeOK, BatchRow
    <2>2. [stage |-> "numbering", batch |-> b, key |-> k, seen |-> batch[b].expected] \in Call
      BY <2>1 DEF Call
    <2> QED
      BY <1>1, <2>2, ReadKeeps DEF AddUnit
  <1>2. CASE NumberUnit(w)
    <2>1. call[w] \in Call /\ call[w].stage = "numbering"
      BY <1>2 DEF BatchInv, TypeOK, NumberUnit, At
    <2>2. call[w].batch \in Batches /\ call[w].key \in Keys /\ call[w].seen \in Nat
      BY <2>1, UnitFields
    <2>3. units + 1 \in Units
      BY <1>2 DEF NumberUnit, BatchInv, TypeOK, Units
    <2>4. [stage |-> "adding", batch |-> call[w].batch, key |-> call[w].key,
           seen |-> call[w].seen, unit |-> units + 1] \in Call
      BY <2>2, <2>3 DEF Call
    <2> QED
      BY <1>2, <2>4, ReadKeeps DEF NumberUnit
  <1> QED
    BY <1>1, <1>2

LEMMA CommitAddKeeps ==
    ASSUME BatchInv, NEW w \in Workers, CommitAdd(w)
    PROVE  BatchInv'
  <1> DEFINE c == call[w]
             row == [batch[c.batch] EXCEPT !.expected = @ + 1]
             new == [batch |-> c.batch, key |-> c.key, status |-> "REGISTERED"]
  <1>0. TypeOK /\ c \in Call /\ c.stage = "adding"
    BY DEF BatchInv, TypeOK, CommitAdd, At
  <1>1. c.batch \in Batches /\ c.key \in Keys /\ c.unit \in Units
    BY <1>0, UnitFields
  <1>2. call' \in [Workers -> Call] /\ UNCHANGED <<arrival, line>>
    BY <1>0, IdleType DEF CommitAdd, Goto, TypeOK
  <1>3. CASE UNCHANGED <<batch, item, units>>
    <2>1. TypeOK'
      BY <1>0, <1>2, <1>3 DEF TypeOK
    <2> QED
      BY <1>3, <2>1, RowsKeep
  <1>4. CASE /\ Exists(c.batch) /\ units < c.unit
             /\ batch' = [batch EXCEPT ![c.batch].expected = @ + 1]
             /\ Register(c.unit, c.batch, c.key)
    <2>1. batch[c.batch] \in BatchRow
      BY <1>0, <1>1 DEF TypeOK
    <2>2. /\ row \in BatchRow /\ row.status = batch[c.batch].status
          /\ row.code = batch[c.batch].code /\ row.scanned = batch[c.batch].scanned
          /\ row.expected = batch[c.batch].expected + 1
      BY <2>1 DEF BatchRow
    <2>3. batch' = [batch EXCEPT ![c.batch] = row]
      BY <1>4
    <2>4. new \in ItemRow /\ item' = [item EXCEPT ![c.unit] = new] /\ units' = c.unit
      BY <1>1, <1>4 DEF Register, ItemRow
    <2> HIDE DEF row
    <2>5. \A x \in Batches : batch'[x] = IF x = c.batch THEN row ELSE batch[x]
      BY <1>0, <1>1, <2>3 DEF TypeOK
    <2>6. \A u \in Units : item'[u] = IF u = c.unit THEN new ELSE item[u]
      BY <1>0, <1>1, <2>4 DEF TypeOK
    <2>7. TypeOK'
      BY <1>0, <1>1, <1>2, <2>2, <2>3, <2>4 DEF TypeOK, Units
    <2>8. item[c.unit].batch = None
      BY <1>0, <1>1, <1>4 DEF BatchInv, OwnedItems, TypeOK, Units
    <2>9. \A x \in Batches : Exists(x)' <=> Exists(x)
      BY <2>2, <2>5 DEF Exists
    <2>10. OwnedItems'
      BY <1>0, <1>1, <1>4, <2>4, <2>6, <2>9 DEF BatchInv, OwnedItems, TypeOK, ItemRow, Units
    <2>11. CodedBatches'
      BY <2>2, <2>5, <2>9 DEF BatchInv, CodedBatches
    <2>12. PICK b \in Batches, u \in Units : b = c.batch /\ u = c.unit /\ b # None
      BY <1>1
    <2>13. new.batch = b /\ new.status = "REGISTERED"
      BY <2>12
    <2>14. /\ \A x \in Batches : batch'[x] = IF x = b THEN row ELSE batch[x]
           /\ \A v \in Units : item'[v] = IF v = u THEN new ELSE item[v]
           /\ item[u].batch = None /\ row.scanned = batch[b].scanned
           /\ row.expected = batch[b].expected + 1 /\ Exists(b)
      BY <1>4, <2>2, <2>5, <2>6, <2>8, <2>12
    <2> HIDE DEF new, c
    <2>15. ItemsOf(b)' = ItemsOf(b) \cup {u} /\ u \notin ItemsOf(b) /\ ReceivedOf(b)' = ReceivedOf(b)
      BY <2>12, <2>13, <2>14 DEF ItemsOf, ReceivedOf
    <2>16. \A x \in Batches \ {b} : ItemsOf(x)' = ItemsOf(x) /\ ReceivedOf(x)' = ReceivedOf(x)
      BY <2>13, <2>14 DEF ItemsOf, ReceivedOf
    <2>17. Cardinality(ItemsOf(b) \cup {u}) = Cardinality(ItemsOf(b)) + 1
      BY <2>15, ItemsFinite, FS_AddElement
    <2>18. CountsMatchItems'
      <3> SUFFICES ASSUME NEW x \in Batches, Exists(x)'
                   PROVE  /\ batch'[x].expected = Cardinality(ItemsOf(x)')
                          /\ batch'[x].scanned = Cardinality(ReceivedOf(x)')
        BY DEF CountsMatchItems
      <3>1. /\ Exists(x) /\ batch[x].expected = Cardinality(ItemsOf(x))
            /\ batch[x].scanned = Cardinality(ReceivedOf(x))
        BY <2>9 DEF BatchInv, CountsMatchItems
      <3>2. CASE x = b
        BY <2>14, <2>15, <2>17, <3>1, <3>2
      <3>3. CASE x # b
        BY <2>14, <2>16, <3>1, <3>3
      <3> QED
        BY <3>2, <3>3
    <2> QED
      BY <2>7, <2>10, <2>11, <2>18 DEF BatchInv
  <1> QED
    BY <1>3, <1>4 DEF CommitAdd

(* submit, accept, send, startReceiving, void, completeReceiving.          *)
LEMMA MoveReads ==
    ASSUME BatchInv, NEW w \in Workers, NEW b \in Batches, NEW k \in Keys,
           \/ Submit(w, b, k) \/ Accept(w, b) \/ Send(w, b, k) \/ StartReceiving(w, b)
           \/ VoidBatch(w, b)
    PROVE  BatchInv'
  <1>0. batch[b].status \in Status
    BY DEF BatchInv, TypeOK, BatchRow
  <1>1. PICK a \in {"submit", "accept", "send", "startReceiving", "void"},
             q \in Keys \cup {None} :
           /\ Read(w, MoveCall(a, b, q))
           /\ IF a = "void" THEN batch[b].status \in Voidable ELSE Allowed(batch[b].status, a)
           /\ a \in {"submit", "send"} => q \in Keys
    BY DEF Submit, Accept, Send, StartReceiving, VoidBatch
  <1>2. MoveCall(a, b, q) \in Call
    <2>1. Decided(MoveCall(a, b, q))
      BY <1>1 DEF MoveCall, Decided, NextStatus
    <2> QED
      BY <1>0, <2>1, MovesAre DEF MoveCall, Call
  <1> QED
    BY <1>1, <1>2, ReadKeeps

LEMMA CommitMoveKeeps ==
    ASSUME BatchInv, NEW w \in Workers,
           CommitSubmit(w) \/ CommitAccept(w) \/ CommitSend(w) \/ CommitStart(w)
           \/ CommitVoid(w) \/ CommitComplete(w)
    PROVE  BatchInv'
  <1>0. TypeOK /\ call[w] \in Call
    BY DEF BatchInv, TypeOK
  <1>1. call[w].stage \in Moves \ {"counting"}
    BY MovesAre DEF CommitSubmit, CommitAccept, CommitSend, CommitStart, CommitVoid,
                    CommitComplete, CommitMove, At
  <1>2. PICK b \in Batches : b = call[w].batch
    BY <1>0, <1>1, MoveFields
  <1>3. Decided(call[w])
    BY <1>0, <1>1, MoveFields
  <1>4. batch[b] \in BatchRow
    BY <1>0 DEF TypeOK
  <1>5. call' \in [Workers -> Call] /\ UNCHANGED <<item, units, arrival, line>>
    BY <1>0, IdleType DEF CommitSubmit, CommitAccept, CommitSend, CommitStart, CommitVoid,
                          CommitComplete, CommitMove, Goto, TypeOK
  <1>6. CASE batch' = batch
    <2>1. TypeOK'
      BY <1>0, <1>5, <1>6 DEF TypeOK
    <2> QED
      BY <1>5, <1>6, <2>1, RowsKeep
  <1>7. CASE batch' # batch
    <2>1. batch[b].status = call[w].from
      BY <1>2, <1>7 DEF CommitSubmit, CommitAccept, CommitSend, CommitStart, CommitVoid,
                        CommitComplete, CommitMove
    <2>2. call[w].from \notin {"none", "DELETED"}
      BY <1>1, <1>3, MovesAre DEF Decided, Allowed, NextStatus, Voidable
    <2>3. Exists(b)
      BY <2>1, <2>2 DEF Exists
    <2>4. PICK row : /\ row \in BatchRow /\ row.status \notin {"none", "DELETED"}
                     /\ row.code = batch[b].code /\ row.expected = batch[b].expected
                     /\ row.scanned = batch[b].scanned /\ batch' = [batch EXCEPT ![b] = row]
      <3>1. CASE CommitSubmit(w)
        <4>1. call[w].key \in Keys
          BY <1>3, <3>1 DEF CommitSubmit, CommitMove, At, Decided
        <4> DEFINE row == [batch[b] EXCEPT !.status = "SENT_TO_RECEIVING",
                                           !.submitKey = call[w].key, !.sendKey = "auto"]
        <4>2. batch' = [batch EXCEPT ![b] = row]
          BY <1>2, <1>7, <3>1 DEF CommitSubmit, CommitMove, Row
        <4>3. /\ row \in BatchRow /\ row.status = "SENT_TO_RECEIVING"
              /\ row.code = batch[b].code /\ row.expected = batch[b].expected
              /\ row.scanned = batch[b].scanned
          BY <1>4, <4>1 DEF BatchRow, Status
        <4> HIDE DEF row
        <4> QED
          BY <4>2, <4>3
      <3>2. CASE CommitAccept(w)
        <4> DEFINE row == [batch[b] EXCEPT !.status = "SENT_TO_RECEIVING", !.sendKey = "auto"]
        <4>1. batch' = [batch EXCEPT ![b] = row]
          BY <1>2, <1>7, <3>2 DEF CommitAccept, CommitMove, Row
        <4>2. /\ row \in BatchRow /\ row.status = "SENT_TO_RECEIVING"
              /\ row.code = batch[b].code /\ row.expected = batch[b].expected
              /\ row.scanned = batch[b].scanned
          BY <1>4 DEF BatchRow, Status
        <4> HIDE DEF row
        <4> QED
          BY <4>1, <4>2
      <3>3. CASE CommitSend(w)
        <4>1. call[w].key \in Keys
          BY <1>3, <3>3 DEF CommitSend, CommitMove, At, Decided
        <4> DEFINE row == [batch[b] EXCEPT !.status = "SENT_TO_RECEIVING",
                                           !.sendKey = call[w].key]
        <4>2. batch' = [batch EXCEPT ![b] = row]
          BY <1>2, <1>7, <3>3 DEF CommitSend, CommitMove, Row
        <4>3. /\ row \in BatchRow /\ row.status = "SENT_TO_RECEIVING"
              /\ row.code = batch[b].code /\ row.expected = batch[b].expected
              /\ row.scanned = batch[b].scanned
          BY <1>4, <4>1 DEF BatchRow, Status
        <4> HIDE DEF row
        <4> QED
          BY <4>2, <4>3
      <3>4. CASE CommitStart(w) \/ CommitVoid(w)
        <4>1. PICK s \in {"RECEIVING_IN_PROGRESS", "VOIDED"} :
                 batch' = [batch EXCEPT ![b] = [batch[b] EXCEPT !.status = s]]
          BY <1>2, <1>7, <3>4 DEF CommitStart, CommitVoid, CommitMove, Row
        <4> DEFINE row == [batch[b] EXCEPT !.status = s]
        <4>2. /\ row \in BatchRow /\ row.status = s
              /\ row.code = batch[b].code /\ row.expected = batch[b].expected
              /\ row.scanned = batch[b].scanned
          BY <1>4 DEF BatchRow, Status
        <4>3. batch' = [batch EXCEPT ![b] = row]
          BY <4>1
        <4> HIDE DEF row
        <4> QED
          BY <4>2, <4>3
      <3>5. CASE CommitComplete(w)
        <4>1. call[w].key \in Keys \cup {"auto"}
          BY <1>3, <3>5 DEF CommitComplete, CommitMove, At, Decided
        <4> DEFINE row == [batch[b] EXCEPT !.status = "RECEIVING_COMPLETED",
                                           !.completeKey = call[w].key]
        <4>2. batch' = [batch EXCEPT ![b] = row]
          BY <1>2, <1>7, <3>5 DEF CommitComplete, CommitMove, Row
        <4>3. /\ row \in BatchRow /\ row.status = "RECEIVING_COMPLETED"
              /\ row.code = batch[b].code /\ row.expected = batch[b].expected
              /\ row.scanned = batch[b].scanned
          BY <1>4, <4>1 DEF BatchRow, Status
        <4> HIDE DEF row
        <4> QED
          BY <4>2, <4>3
      <3> QED
        BY <3>1, <3>2, <3>3, <3>4, <3>5
    <2> QED
      BY <1>5, <2>3, <2>4, MoveKeeps
  <1> QED
    BY <1>6, <1>7

(* hardDelete: the units of the batch go with it.                          *)
LEMMA HardDeleteKeeps ==
    ASSUME BatchInv, NEW w \in Workers, NEW b \in Batches, HardDelete(w, b)
    PROVE  BatchInv'
  <1>0. TypeOK /\ batch[b] \in BatchRow
    BY DEF BatchInv, TypeOK
  <1> DEFINE row == [batch[b] EXCEPT !.status = "DELETED"]
  <1>1. /\ row \in BatchRow /\ row.status = "DELETED"
        /\ batch' = [batch EXCEPT ![b] = row]
    BY <1>0 DEF BatchRow, Status, HardDelete
  <1> HIDE DEF row
  <1>2. \A x \in Batches : batch'[x] = IF x = b THEN row ELSE batch[x]
    BY <1>0, <1>1 DEF TypeOK
  <1>3. /\ \A u \in Units : item'[u] = IF item[u].batch = b THEN NoItem ELSE item[u]
        /\ UNCHANGED <<units, arrival, line, call>>
    BY DEF HardDelete
  <1>4. NoItem \in ItemRow /\ NoItem.batch = None
    BY DEF NoItem, ItemRow
  <1>5. item' \in [Units -> ItemRow]
    BY <1>0, <1>4 DEF HardDelete, TypeOK
  <1>6. TypeOK'
    BY <1>0, <1>1, <1>3, <1>5 DEF TypeOK
  <1>7. ~Exists(b)' /\ \A x \in Batches \ {b} : Exists(x)' <=> Exists(x)
    BY <1>1, <1>2 DEF Exists
  <1>8. OwnedItems'
    <2>1. \A u \in Units : \/ item'[u].batch = None
                           \/ item'[u].batch = item[u].batch /\ item[u].batch # b
      BY <1>3, <1>4
    <2>2. \A u \in Units : item[u].batch \in Batches \cup {None}
      BY <1>0 DEF TypeOK, ItemRow
    <2> QED
      BY <1>3, <1>7, <2>1, <2>2 DEF BatchInv, OwnedItems
  <1>9. CodedBatches'
    BY <1>2, <1>7 DEF BatchInv, CodedBatches
  <1>10. \A x \in Batches \ {b} : ItemsOf(x)' = ItemsOf(x) /\ ReceivedOf(x)' = ReceivedOf(x)
    BY <1>3, <1>4 DEF ItemsOf, ReceivedOf
  <1>11. CountsMatchItems'
    BY <1>2, <1>7, <1>10 DEF BatchInv, CountsMatchItems
  <1> QED
    BY <1>6, <1>8, <1>9, <1>11 DEF BatchInv

(* receiveUnit, and the receiving home.                                    *)
LEMMA ReceiveReads ==
    ASSUME BatchInv, NEW w \in Workers, NEW b \in Batches, NEW u \in Units,
           NEW home \in BOOLEAN, ReadForReceive(w, b, u, home)
    PROVE  BatchInv'
  <1>1. batch[b].scanned \in Nat /\ batch[b].expected \in Nat
    BY DEF BatchInv, TypeOK, BatchRow
  <1>2. [stage |-> "receiving", batch |-> b, unit |-> u, seen |-> batch[b].scanned,
         expected |-> batch[b].expected, home |-> home] \in Call
    BY <1>1 DEF Call
  <1> QED
    BY <1>2, ReadKeeps, IdleType DEF ReadForReceive

LEMMA CommitReceiveKeeps ==
    ASSUME BatchInv, NEW w \in Workers, CommitReceive(w)
    PROVE  BatchInv'
  <1>0. TypeOK /\ call[w] \in Call /\ call[w].stage = "receiving"
    BY DEF BatchInv, TypeOK, CommitReceive, At
  <1>1. PICK b \in Batches, v \in Units : b = call[w].batch /\ v = call[w].unit
    BY <1>0, UnitFields
  <1>2. [stage |-> "complete", batch |-> b, key |-> "auto"] \in Call
    BY DEF Call
  <1>3. call' \in [Workers -> Call] /\ UNCHANGED <<units, arrival, line>>
    BY <1>0, <1>1, <1>2, IdleType DEF CommitReceive, Goto, TypeOK
  <1>4. CASE UNCHANGED <<batch, item>>
    <2>1. TypeOK'
      BY <1>0, <1>3, <1>4 DEF TypeOK
    <2> QED
      BY <1>3, <1>4, <2>1, RowsKeep
  <1>5. CASE /\ item[v].batch = b /\ item[v].status = "REGISTERED"
             /\ item' = [item EXCEPT ![v].status = "RECEIVED"]
             /\ batch' = [batch EXCEPT ![b].scanned = @ + 1]
    <2> DEFINE row == [batch[b] EXCEPT !.scanned = @ + 1]
               new == [item[v] EXCEPT !.status = "RECEIVED"]
    <2>1. batch[b] \in BatchRow /\ item[v] \in ItemRow
      BY <1>0 DEF TypeOK
    <2>2. /\ row \in BatchRow /\ row.status = batch[b].status /\ row.code = batch[b].code
          /\ row.expected = batch[b].expected /\ row.scanned = batch[b].scanned + 1
      BY <2>1 DEF BatchRow
    <2>3. new \in ItemRow /\ new.batch = b /\ new.status = "RECEIVED"
      BY <1>5, <2>1 DEF ItemRow
    <2>4. batch' = [batch EXCEPT ![b] = row] /\ item' = [item EXCEPT ![v] = new]
      BY <1>5
    <2> HIDE DEF row, new
    <2>5. /\ \A x \in Batches : batch'[x] = IF x = b THEN row ELSE batch[x]
          /\ \A u \in Units : item'[u] = IF u = v THEN new ELSE item[u]
      BY <1>0, <2>4 DEF TypeOK
    <2>6. TypeOK'
      BY <1>0, <1>3, <2>2, <2>3, <2>4 DEF TypeOK
    <2>7. \A x \in Batches : Exists(x)' <=> Exists(x)
      BY <2>2, <2>5 DEF Exists
    <2>8. \A u \in Units : item'[u].batch = item[u].batch
      BY <1>5, <2>3, <2>5
    <2>9. OwnedItems'
      BY <1>0, <1>3, <2>7, <2>8 DEF BatchInv, OwnedItems, TypeOK, ItemRow
    <2>10. CodedBatches'
      BY <2>2, <2>5, <2>7 DEF BatchInv, CodedBatches
    <2>11. \A x \in Batches : ItemsOf(x)' = ItemsOf(x)
      BY <2>8 DEF ItemsOf
    <2>12. ReceivedOf(b)' = ReceivedOf(b) \cup {v} /\ v \notin ReceivedOf(b)
      BY <1>5, <2>3, <2>5, <2>11 DEF ReceivedOf, ItemsOf
    <2>13. \A x \in Batches \ {b} : ReceivedOf(x)' = ReceivedOf(x)
      BY <1>5, <2>3, <2>5, <2>11 DEF ReceivedOf, ItemsOf
    <2>14. Cardinality(ReceivedOf(b) \cup {v}) = Cardinality(ReceivedOf(b)) + 1
      BY <2>12, ItemsFinite, FS_AddElement
    <2>15. CountsMatchItems'
      <3> SUFFICES ASSUME NEW x \in Batches, Exists(x)'
                   PROVE  /\ batch'[x].expected = Cardinality(ItemsOf(x)')
                          /\ batch'[x].scanned = Cardinality(ReceivedOf(x)')
        BY DEF CountsMatchItems
      <3>1. /\ Exists(x) /\ batch[x].expected = Cardinality(ItemsOf(x))
            /\ batch[x].scanned = Cardinality(ReceivedOf(x))
        BY <2>7 DEF BatchInv, CountsMatchItems
      <3>2. CASE x = b
        BY <2>2, <2>5, <2>11, <2>12, <2>14, <3>1, <3>2
      <3>3. CASE x # b
        BY <2>5, <2>11, <2>13, <3>1, <3>3
      <3> QED
        BY <3>2, <3>3
    <2> QED
      BY <2>6, <2>9, <2>10, <2>15 DEF BatchInv
  <1> QED
    BY <1>1, <1>4, <1>5 DEF CommitReceive

(* completeReceiving.                                                      *)
LEMMA CompleteReads ==
    ASSUME BatchInv, NEW w \in Workers,
           \/ \E b \in Batches, k \in Keys : CompleteReceiving(w, b, k)
           \/ ReadForComplete(w) \/ CountMissing(w)
    PROVE  BatchInv'
  <1>0. call[w] \in Call
    BY DEF BatchInv, TypeOK
  <1>1. ASSUME NEW b \in Batches, NEW k \in Keys, CompleteReceiving(w, b, k)
        PROVE  BatchInv'
    <2>1. [stage |-> "complete", batch |-> b, key |-> k] \in Call
      BY DEF Call
    <2> QED
      BY <1>1, <2>1, ReadKeeps DEF CompleteReceiving
  <1>2. CASE ReadForComplete(w)
    <2>1. call[w].batch \in Batches /\ call[w].key \in Keys \cup {"auto"}
      BY <1>0, <1>2, HomeFields DEF ReadForComplete, At
    <2>2. \/ Read(w, Idle)
          \/ /\ Allowed(batch[call[w].batch].status, "completeReceiving")
             /\ Read(w, [stage |-> "counting", batch |-> call[w].batch, key |-> call[w].key,
                         from |-> batch[call[w].batch].status])
      BY <1>2 DEF ReadForComplete
    <2>3. CASE Read(w, Idle)
      BY <2>3, ReadKeeps, IdleType
    <2>4. CASE /\ Allowed(batch[call[w].batch].status, "completeReceiving")
               /\ Read(w, [stage |-> "counting", batch |-> call[w].batch, key |-> call[w].key,
                           from |-> batch[call[w].batch].status])
      <3> DEFINE c == [stage |-> "counting", batch |-> call[w].batch, key |-> call[w].key,
                       from |-> batch[call[w].batch].status]
      <3>1. batch[call[w].batch].status = "RECEIVING_IN_PROGRESS"
        BY <2>4 DEF Allowed, NextStatus
      <3>2. Decided(c)
        BY <2>1, <3>1 DEF Decided, NextStatus
      <3>3. c \in Call
        BY <2>1, <3>1, <3>2, MovesAre DEF Call, Status
      <3> HIDE DEF c
      <3> QED
        BY <2>4, <3>3, ReadKeeps DEF c
    <2> QED
      BY <2>2, <2>3, <2>4
  <1>3. CASE CountMissing(w)
    <2>1. call[w].stage = "counting"
      BY <1>3 DEF CountMissing, At
    <2>2. /\ call[w].batch \in Batches /\ call[w].key \in Keys \cup {"auto"}
          /\ call[w].from = "RECEIVING_IN_PROGRESS"
      BY <1>0, <2>1, MoveFields, MovesAre DEF Decided
    <2> DEFINE c == [call[w] EXCEPT !.stage = "completeReceiving"]
    <2>3. c = [stage |-> "completeReceiving", batch |-> call[w].batch, key |-> call[w].key,
               from |-> call[w].from]
      BY <1>0, <2>1, MovesAre DEF Call, Idle
    <2>4. Decided(c)
      BY <2>2, <2>3 DEF Decided, Allowed, NextStatus
    <2>5. c \in Call
      BY <2>2, <2>3, <2>4, MovesAre DEF Call, Status
    <2>6. Read(w, c) \/ Read(w, Idle)
      BY <1>3 DEF CountMissing
    <2> HIDE DEF c
    <2> QED
      BY <2>5, <2>6, ReadKeeps, IdleType
  <1> QED
    BY <1>1, <1>2, <1>3

(* confirmBatchUnit.                                                       *)
LEMMA HomeReads ==
    ASSUME BatchInv, NEW w \in Workers, NEW u \in Units,
           HomeScan(w, u) \/ HomeLine(w) \/ HomeReceive(w)
    PROVE  BatchInv'
  <1>0. call[w] \in Call /\ TypeOK
    BY DEF BatchInv, TypeOK
  <1>1. CASE HomeScan(w, u)
    <2>1. PICK b \in Batches, s \in {"homeStart", "homeArrival"} :
             Read(w, [stage |-> s, batch |-> b, unit |-> u])
      BY <1>0, <1>1 DEF HomeScan, TypeOK, ItemRow
    <2>2. [stage |-> s, batch |-> b, unit |-> u] \in Call
      BY DEF Call
    <2> QED
      BY <2>1, <2>2, ReadKeeps
  <1>2. CASE HomeLine(w)
    <2>1. call[w].stage = "homeLine"
      BY <1>2 DEF HomeLine, At
    <2>2. PICK s \in {"homeReceive", "homeWrite"} : Read(w, [call[w] EXCEPT !.stage = s])
      BY <1>2 DEF HomeLine
    <2>3. [call[w] EXCEPT !.stage = s] \in Call
      BY <1>0, <2>1, MovesAre DEF Call, Idle
    <2> QED
      BY <2>2, <2>3, ReadKeeps
  <1>3. CASE HomeReceive(w)
    <2>1. call[w].batch \in Batches /\ call[w].unit \in Units
      BY <1>0, <1>3, HomeFields DEF HomeReceive, At
    <2> QED
      BY <1>3, <2>1, ReceiveReads DEF HomeReceive
  <1> QED
    BY <1>1, <1>2, <1>3

LEMMA HomeStartKeeps ==
    ASSUME BatchInv, NEW w \in Workers, HomeStart(w)
    PROVE  BatchInv'
  <1>0. call[w] \in Call /\ TypeOK /\ call[w].stage = "homeStart"
    BY DEF BatchInv, TypeOK, HomeStart, At
  <1>1. PICK b \in Batches : b = call[w].batch
    BY <1>0, HomeFields
  <1>2. [call[w] EXCEPT !.stage = "homeArrival"] \in Call
    BY <1>0, MovesAre DEF Call, Idle
  <1>3. call' \in [Workers -> Call] /\ UNCHANGED <<item, units, arrival, line>>
    BY ZenonT(60), <1>0, <1>2, IdleType DEF HomeStart, Goto, TypeOK
  <1>4. CASE UNCHANGED batch
    <2>1. TypeOK'
      BY <1>0, <1>3, <1>4 DEF TypeOK
    <2> QED
      BY <1>3, <1>4, <2>1, RowsKeep
  <1>5. CASE /\ batch[b].status = "SENT_TO_RECEIVING"
             /\ batch' = [batch EXCEPT ![b].status = "RECEIVING_IN_PROGRESS"]
    <2> DEFINE row == [batch[b] EXCEPT !.status = "RECEIVING_IN_PROGRESS"]
    <2>1. batch[b] \in BatchRow
      BY <1>0 DEF TypeOK
    <2>2. /\ row \in BatchRow /\ row.status = "RECEIVING_IN_PROGRESS"
          /\ row.code = batch[b].code /\ row.expected = batch[b].expected
          /\ row.scanned = batch[b].scanned
      BY <2>1 DEF BatchRow, Status
    <2>3. batch' = [batch EXCEPT ![b] = row]
      BY <1>5
    <2> HIDE DEF row
    <2>4. Exists(b)
      BY <1>5 DEF Exists
    <2> QED
      BY <1>3, <2>2, <2>3, <2>4, MoveKeeps
  <1> QED
    BY <1>1, <1>4, <1>5 DEF HomeStart

LEMMA HomeWritesKeep ==
    ASSUME BatchInv, NEW w \in Workers, HomeArrival(w) \/ HomeWrite(w)
    PROVE  BatchInv'
  <1>0. call[w] \in Call /\ TypeOK
    BY DEF BatchInv, TypeOK
  <1>1. CASE HomeArrival(w)
    <2>1. PICK b \in Batches, u \in Units : b = call[w].batch /\ u = call[w].unit
      BY <1>0, <1>1, HomeFields DEF HomeArrival, At
    <2>2. CASE Goto(w, Idle) /\ UNCHANGED arrival
      <3>1. TypeOK'
        BY <1>0, <1>1, <2>2, IdleType DEF HomeArrival, Goto, TypeOK
      <3> QED
        BY <1>1, <3>1, RowsKeep DEF HomeArrival
    <2>3. CASE Exists(b)
      <3>1. batch[b].code \in Codes
        BY <2>3 DEF BatchInv, CodedBatches
      <3>2. arrival' \in [Codes -> Batches \cup {None}]
        BY <1>0, <1>1, <2>1, <3>1 DEF HomeArrival, TypeOK
      <3>3. [stage |-> "homeLine", batch |-> b, unit |-> u, code |-> batch[b].code] \in Call
        BY <3>1 DEF Call
      <3>4. call' \in [Workers -> Call]
        BY <1>0, <1>1, <2>1, <2>3, <3>3 DEF HomeArrival, Goto, TypeOK
      <3>5. TypeOK'
        BY <1>0, <1>1, <3>2, <3>4 DEF HomeArrival, TypeOK
      <3> QED
        BY <1>1, <3>5, RowsKeep DEF HomeArrival
    <2> QED
      BY <1>1, <2>1, <2>2, <2>3 DEF HomeArrival
  <1>2. CASE HomeWrite(w)
    <2>1. call[w].stage = "homeWrite"
      BY <1>2 DEF HomeWrite, At
    <2>2. PICK u \in Units, n \in Codes : u = call[w].unit /\ n = call[w].code
      BY <1>0, <2>1, HomeFields
    <2>3. [call[w] EXCEPT !.stage = "homeReceive"] \in Call
      BY <1>0, <2>1, MovesAre DEF Call, Idle
    <2>4. call' \in [Workers -> Call]
      BY <1>0, <1>2, <2>3 DEF HomeWrite, Goto, TypeOK
    <2>5. line' \in [Codes -> [Units -> Nat]]
      <3>1. line[n] \in [Units -> Nat] /\ line[n][u] \in Nat
        BY <1>0 DEF TypeOK
      <3>2. line' = [line EXCEPT ![n] = [line[n] EXCEPT ![u] = line[n][u] + 1]]
        BY <1>2, <2>2 DEF HomeWrite
      <3>3. [line[n] EXCEPT ![u] = line[n][u] + 1] \in [Units -> Nat]
        BY <3>1
      <3> QED
        BY <1>0, <3>2, <3>3 DEF TypeOK
    <2>6. TypeOK'
      BY <1>0, <1>2, <2>4, <2>5 DEF HomeWrite, TypeOK
    <2> QED
      BY <1>2, <2>6, RowsKeep DEF HomeWrite
  <1> QED
    BY <1>1, <1>2

-----------------------------------------------------------------------------
(* The theorems                                                            *)

LEMMA InitCounts == Init => BatchInv
  <1> SUFFICES ASSUME NEW old \in Inherited,
                      NEW code \in [DOMAIN old -> Codes],
                      NEW owner \in [1 .. Cardinality(DOMAIN old) * InheritedSize -> DOMAIN old],
                      Inheriting(old, code, owner)
               PROVE  BatchInv
    BY DEF Init
  <1>1. /\ units = Cardinality(DOMAIN old) * InheritedSize
        /\ arrival = [c \in Codes |-> None]
        /\ line = [c \in Codes |-> [u \in Units |-> 0]]
        /\ call = [w \in Workers |-> Idle]
    BY DEF Inheriting
  <1>2. /\ DOMAIN old \subseteq Batches /\ InheritedSize \in Nat
        /\ \A b \in DOMAIN old :
              old[b] \in {"CREATED", "SUBMITTED", "ACCEPTED", "SENT_TO_RECEIVING"}
        /\ Cardinality(DOMAIN old) * InheritedSize <= MaxUnit
        /\ IsFiniteSet(DOMAIN old)
    <2>1. IsFiniteSet(Batches) /\ DOMAIN old \subseteq Batches
      BY BatchAssumption
    <2>2. IsFiniteSet(DOMAIN old)
      BY <2>1, FS_Subset
    <2>3. InheritedSize \in Nat
      BY BatchAssumption
    <2>4. /\ \A b \in DOMAIN old :
                old[b] \in {"CREATED", "SUBMITTED", "ACCEPTED", "SENT_TO_RECEIVING"}
          /\ Cardinality(DOMAIN old) * InheritedSize <= MaxUnit
      BY BatchAssumption
    <2> QED
      BY <2>1, <2>2, <2>3, <2>4
  <1>3. Cardinality(DOMAIN old) * InheritedSize \in Nat
    <2>1. Cardinality(DOMAIN old) \in Nat
      BY <1>2, FS_CardinalityType
    <2>2. \A m, n \in Nat : m * n \in Nat
      OBVIOUS
    <2> QED
      BY <1>2, <2>1, <2>2
  <1>4. PICK top \in 0 .. MaxUnit : top = Cardinality(DOMAIN old) * InheritedSize
    BY <1>2, <1>3
  <1>5. /\ DOMAIN owner = 1 .. top /\ 1 .. top \subseteq Units
        /\ \A u \in 1 .. top : owner[u] \in Batches
    <2>1. 1 .. top \subseteq Units
      BY DEF Units
    <2>2. DOMAIN owner = 1 .. top
      BY <1>4
    <2>3. \A u \in DOMAIN owner : owner[u] \in DOMAIN old
      OBVIOUS
    <2> QED
      BY <1>2, <2>1, <2>2, <2>3
  <1>6. /\ NoBatch \in BatchRow /\ ~(NoBatch.status \notin {"none", "DELETED"})
        /\ NoItem \in ItemRow /\ NoItem.batch = None
    <2>1. NoBatch \in BatchRow /\ NoBatch.status = "none"
      BY DEF NoBatch, BatchRow, Status
    <2>2. NoItem \in ItemRow /\ NoItem.batch = None
      BY DEF NoItem, ItemRow
    <2> QED
      BY <2>1, <2>2
  <1>7. ASSUME NEW b \in DOMAIN old
        PROVE  /\ batch[b] \in BatchRow /\ batch[b].code = code[b] /\ batch[b].status = old[b]
               /\ batch[b].expected = InheritedSize /\ batch[b].scanned = 0
    <2>1. PICK k \in {None, "auto"} : k = IF old[b] = "SENT_TO_RECEIVING" THEN "auto" ELSE None
      OBVIOUS
    <2>2. batch[b] = [status |-> old[b], code |-> code[b], key |-> None,
                      expected |-> InheritedSize, scanned |-> 0, submitKey |-> None,
                      sendKey |-> k, completeKey |-> None]
      BY <1>2, <2>1 DEF NoBatch, Inheriting
    <2>3. code[b] \in 0 .. MaxCode
      <3>1. code[b] \in Codes
        OBVIOUS
      <3> QED
        BY <3>1 DEF Codes
    <2>4. old[b] \in Status
      BY <1>2 DEF Status
    <2>5. InheritedSize \in Nat
      BY <1>2
    <2>6. batch[b] \in BatchRow
      BY <2>1, <2>2, <2>3, <2>4, <2>5 DEF BatchRow
    <2> QED
      BY <2>2, <2>6
  <1>8. \A b \in Batches \ DOMAIN old : batch[b] = NoBatch
    BY DEF Inheriting
  <1>9. \A u \in Units : /\ item[u] \in ItemRow
                         /\ item[u].status # "RECEIVED"
                         /\ item[u].batch = IF u \in 1 .. top THEN owner[u] ELSE None
    <2>1. \A u \in Units : item[u] = IF u \notin 1 .. top THEN NoItem
             ELSE [batch |-> owner[u], key |-> None, status |-> "REGISTERED"]
      BY <1>5 DEF Inheriting
    <2>2. ASSUME NEW u \in 1 .. top
          PROVE  item[u] \in ItemRow /\ item[u].status # "RECEIVED" /\ item[u].batch = owner[u]
      <3>1. item[u] = [batch |-> owner[u], key |-> None, status |-> "REGISTERED"]
        BY <1>5, <2>1
      <3>2. owner[u] \in Batches
        BY <1>5
      <3> QED
        BY <3>1, <3>2 DEF ItemRow
    <2>3. \A u \in Units \ (1 .. top) : item[u] = NoItem
      BY <2>1
    <2>4. NoItem.status # "RECEIVED"
      BY DEF NoItem
    <2>5. \A u \in 1 .. top : /\ item[u] \in ItemRow /\ item[u].status # "RECEIVED"
                              /\ item[u].batch = owner[u]
      BY <2>2
    <2>6. \A u \in Units \ (1 .. top) : /\ item[u] \in ItemRow /\ item[u].status # "RECEIVED"
                                         /\ item[u].batch = None
      BY <1>6, <2>3, <2>4
    <2> QED
      BY <2>5, <2>6
  <1>10. TypeOK
    <2>1. batch \in [Batches -> BatchRow]
      BY <1>6, <1>7, <1>8 DEF Inheriting
    <2>2. item \in [Units -> ItemRow]
      BY <1>9 DEF Inheriting
    <2>3. arrival \in [Codes -> Batches \cup {None}] /\ line \in [Codes -> [Units -> Nat]]
      BY <1>1
    <2>4. call \in [Workers -> Call]
      BY <1>1, IdleType
    <2> QED
      BY <1>1, <1>4, <2>1, <2>2, <2>3, <2>4 DEF TypeOK
  <1>11. \A b \in Batches : Exists(b) <=> b \in DOMAIN old
    <2>1. \A b \in DOMAIN old : batch[b].status = old[b]
      BY <1>7
    <2> QED
      BY <1>2, <1>6, <1>8, <2>1 DEF Exists
  <1>12. OwnedItems
    <2>1. ASSUME NEW u \in Units, item[u].batch # None
          PROVE  Exists(item[u].batch) /\ u <= units
      <3>1. u \in 1 .. top /\ item[u].batch = owner[u]
        BY <1>9, <2>1
      <3>2. owner[u] \in DOMAIN old /\ owner[u] \in Batches
        BY <1>4, <1>5, <3>1
      <3> QED
        BY <1>1, <1>4, <1>11, <3>1, <3>2
    <2> QED
      BY <2>1 DEF OwnedItems
  <1>13. CodedBatches
    BY <1>7, <1>11 DEF CodedBatches
  <1>14. CountsMatchItems
    <2> SUFFICES ASSUME NEW b \in Batches, Exists(b)
                 PROVE  /\ batch[b].expected = Cardinality(ItemsOf(b))
                        /\ batch[b].scanned = Cardinality(ReceivedOf(b))
      BY DEF CountsMatchItems
    <2>1. b \in DOMAIN old /\ b # None
      BY <1>11
    <2>2. ItemsOf(b) = {u \in DOMAIN owner : owner[u] = b}
      BY <1>5, <1>9, <2>1 DEF ItemsOf
    <2>3. ReceivedOf(b) = {} /\ Cardinality({}) = 0
      BY <1>9, FS_EmptySet DEF ReceivedOf, ItemsOf
    <2>4. Cardinality({u \in DOMAIN owner : owner[u] = b}) = InheritedSize
      BY <2>1 DEF Inheriting
    <2> QED
      BY <1>7, <2>1, <2>2, <2>3, <2>4
  <1> QED
    BY <1>10, <1>12, <1>13, <1>14 DEF BatchInv

LEMMA NextKeeps ==
    ASSUME BatchInv, [Next]_vars
    PROVE  BatchInv'
  <1>1. CASE UNCHANGED vars
    <2>1. TypeOK'
      BY <1>1 DEF vars, BatchInv, TypeOK
    <2> QED
      BY <1>1, <2>1, RowsKeep DEF vars
  <1>2. ASSUME NEW w \in Workers, Invoke(w) PROVE BatchInv'
    <2>1. ASSUME NEW k \in Keys, NEW first \in BOOLEAN, Create(w, k, first) PROVE BatchInv'
      BY <2>1, CreateReads DEF Create
    <2>2. ASSUME NEW k \in Keys, NEW b \in Batches,
                 AddUnit(w, b, k) \/ Submit(w, b, k) \/ Send(w, b, k)
                 \/ CompleteReceiving(w, b, k)
          PROVE  BatchInv'
      BY <2>2, AddReads, MoveReads, CompleteReads
    <2>3. ASSUME NEW b \in Batches, Accept(w, b) \/ StartReceiving(w, b) \/ VoidBatch(w, b)
          PROVE  BatchInv'
      <3>0. batch[b].status \in Status
        BY DEF BatchInv, TypeOK, BatchRow
      <3>1. PICK a \in {"accept", "startReceiving", "void"} :
               /\ Read(w, MoveCall(a, b, None))
               /\ IF a = "void" THEN batch[b].status \in Voidable
                  ELSE Allowed(batch[b].status, a)
        BY <2>3 DEF Accept, StartReceiving, VoidBatch
      <3>2. Decided(MoveCall(a, b, None))
        BY <3>1 DEF MoveCall, Decided, NextStatus
      <3>3. MoveCall(a, b, None) \in Call
        BY <3>0, <3>2, MovesAre DEF MoveCall, Call
      <3> QED
        BY <3>1, <3>3, ReadKeeps
    <2>4. ASSUME NEW b \in Batches, HardDelete(w, b) PROVE BatchInv'
      BY <2>4, HardDeleteKeeps
    <2>5. ASSUME NEW b \in Batches, NEW u \in Units, ReceiveUnit(w, b, u) PROVE BatchInv'
      BY <2>5, ReceiveReads DEF ReceiveUnit
    <2>6. ASSUME NEW u \in Units, HomeScan(w, u) PROVE BatchInv'
      BY <2>6, HomeReads
    <2> QED
      BY <1>2, <2>1, <2>2, <2>3, <2>4, <2>5, <2>6 DEF Invoke
  <1>3. ASSUME NEW w \in Workers, Continue(w) PROVE BatchInv'
    <2>0. call[w] \in Call
      BY DEF BatchInv, TypeOK
    <2>1. ASSUME NEW b \in Batches, CommitCreate(w, b) PROVE BatchInv'
      BY <2>1, CommitCreateKeeps
    <2>2. CASE CreateRaced(w) \/ CommitAdd(w) \/ CommitReceive(w) \/ HomeStart(w)
               \/ HomeArrival(w) \/ HomeWrite(w)
      BY <2>2, RacedKeeps, CommitAddKeeps, CommitReceiveKeeps, HomeStartKeeps, HomeWritesKeep
    <2>3. CASE CommitSubmit(w) \/ CommitAccept(w) \/ CommitSend(w) \/ CommitStart(w)
               \/ CommitVoid(w) \/ CommitComplete(w)
      BY <2>3, CommitMoveKeeps
    <2>4. CASE NumberUnit(w)
      BY <2>0, <2>4, UnitFields, AddReads DEF NumberUnit, At
    <2>5. CASE ReadForComplete(w) \/ CountMissing(w)
      BY <2>5, CompleteReads
    <2>6. CASE HomeLine(w) \/ HomeReceive(w)
      BY <2>0, <2>6, HomeFields, HomeReads DEF HomeLine, HomeReceive, At
    <2> QED
      BY <1>3, <2>1, <2>2, <2>3, <2>4, <2>5, <2>6 DEF Continue
  <1>4. ASSUME NEW w \in Workers, Fail(w) PROVE BatchInv'
    BY <1>4, ReadKeeps, IdleType DEF Fail
  <1> QED
    BY <1>1, <1>2, <1>3, <1>4 DEF Next

LEMMA BatchInvariant == Spec => []BatchInv
  BY InitCounts, NextKeeps, PTL DEF Spec

(* Every reachable state of the batches has its types, the calls in flight *)
(* with them: a call decides a transition only from the status the table   *)
(* of batch-status.ts lets it leave.                                       *)
THEOREM BatchTypeCorrect == Spec => []TypeOK
  BY BatchInvariant, PTL DEF BatchInv

(* totalExpected and totalScanned of a batch are its units and its         *)
(* received units, for any number of workers that add, scan, void, delete  *)
(* and fail at once (batches.service.ts, addUnit and receiveUnit).         *)
THEOREM CountersAreItems == Spec => []CountsMatchItems
  BY BatchInvariant, PTL DEF BatchInv

-----------------------------------------------------------------------------
(* The pages of the terminal: types                                        *)

(* The requests that a page waits for.                                     *)
Asked == {"scan", "commit", "bin", "start", "finish", "review", "report", "refresh"}
Awaited(c) == c.mine /\ c.kind \in Asked

PagesTyped == T!TasksTypeOK /\ left.tries <= day.bounds.tries

LEMMA DayFields ==
    ASSUME day \in Days
    PROVE  /\ T!task \in {"sorting", "orders", "putaway", "storage", "packing", "shipping", "receiving"}
           /\ T!Labels \subseteq Items \cup Places /\ None \notin T!Labels
           /\ day.bounds \in T!Bounds /\ day.bounds.tries \in Nat
           /\ T!Units \in Nat \ {0}
           /\ T!Ops \subseteq Nat /\ 0 \in T!Ops /\ IsFiniteSet(T!Ops)
  <1>1. day \in T!Day
    BY TerminalAssumption DEF T!TasksAssumption
  <1>2. day.bounds \in T!Bounds /\ day.bounds.tries \in Nat
    BY <1>1 DEF T!Day, T!Bounds
  <1>3. IsFiniteSet(T!Ops)
    BY <1>2, FS_Interval DEF T!Ops
  <1> QED
    BY <1>1, <1>2, <1>3, TerminalAssumption
    DEF T!Day, T!task, T!Labels, T!Units, T!Ops, T!TasksAssumption, T!TwoScans, T!OneScan

LEMMA InitTyped == T!TasksInit => PagesTyped
  <1> SUFFICES ASSUME T!TasksInit PROVE PagesTyped
    OBVIOUS
  <1>1. day \in Days /\ day.bounds \in T!Bounds /\ day.bounds.tries \in Nat /\ left = day.bounds
    BY DayFields DEF T!TasksInit
  <1>2. screen \in T!Screen
    BY DEF T!TasksInit, T!Screen, T!Mounted
  <1>3. server \in [count : [Items -> Nat], gone : SUBSET Items, ops : SUBSET T!Ops,
                    bins : BOOLEAN, session : BOOLEAN, reviews : Nat, reports : Nat]
    <2>1. PICK b \in BOOLEAN : server = [count |-> [i \in Items |-> 0], gone |-> {}, ops |-> {},
                                        bins |-> b, session |-> FALSE, reviews |-> 0, reports |-> 0]
      BY DEF T!TasksInit
    <2>2. [i \in Items |-> 0] \in [Items -> Nat]
      OBVIOUS
    <2> QED
      BY <2>1, <2>2
  <1> QED
    BY <1>1, <1>2, <1>3 DEF T!TasksInit, PagesTyped, T!TasksTypeOK

(* What a page offers only when it waits for nothing, and what else holds  *)
(* then.                                                                   *)
LEMMA ControlsWait ==
    ASSUME day \in Days, screen \in T!Screen
    PROVE  /\ \A o \in {"bin", "start", "finish", "review", "report", "pack", "dispatch", "confirm"} :
                 o \in T!Offers => ~screen.busy
           /\ "pack" \in T!Offers => T!task = "packing" /\ screen.hand.open
           /\ "dispatch" \in T!Offers => T!task = "shipping" /\ screen.hand.open
           /\ "confirm" \in T!Offers => T!task = "receiving" /\ screen.hand # T!NoHand
           /\ "review" \in T!Offers => T!task = "storage"
  <1>1. T!task \in {"sorting", "orders", "putaway", "storage", "packing", "shipping", "receiving"}
    BY DayFields
  <1>2. screen.phase \in {"away", "loading", "error", "closed", "open", "done"}
    BY DEF T!Screen
  <1>3. CASE screen.phase = "away"
    BY <1>3 DEF T!Offers
  <1>4. CASE screen.phase # "away" /\ T!task \in {"sorting", "orders", "packing", "shipping"}
    BY <1>4 DEF T!Offers, T!SortingOffers, T!OrderOffers, T!PackingOffers, T!ShippingOffers, T!Free, T!Holding
  <1>5. CASE screen.phase # "away" /\ T!task = "storage"
    BY <1>5 DEF T!Offers, T!BoardOffers, T!StorageOffers, T!Free, T!Holding
  <1>6. CASE screen.phase # "away" /\ T!task = "receiving"
    BY <1>6 DEF T!Offers, T!ReceivingOffers, T!Free
  <1>7. CASE screen.phase # "away" /\ T!task = "putaway"
    <2>1. CASE screen.phase \in {"loading", "error", "closed"}
      BY <1>7, <2>1 DEF T!Offers, T!StartOffers, T!Free
    <2>2. CASE screen.phase \in {"open", "done"}
      BY <1>7, <2>2 DEF T!Offers, T!PutawayOffers, T!Free, T!Holding
    <2> QED
      BY <1>2, <1>7, <2>1, <2>2
  <1> QED
    BY <1>1, <1>3, <1>4, <1>5, <1>6, <1>7

(* A call and what becomes of it.                                          *)
New(kind, code, place, op) ==
    [kind |-> kind, item |-> code, place |-> place, op |-> op,
     mine |-> TRUE, answer |-> "none", cards |-> {}]

LEMMA NewCall ==
    ASSUME day \in Days, NEW kind, NEW code \in T!Labels \cup {None},
           NEW place \in T!Labels \cup {None}, NEW op \in T!Ops,
           kind \in {"scan", "commit", "bin", "start", "resume", "finish", "review", "report",
                     "refresh", "cards"},
           T!Ask(kind, code, place, op), NEW r, r = New(kind, code, place, op)
    PROVE  /\ r \in T!Call /\ calls' = calls \cup {r}
           /\ r.kind = kind /\ r.item = code /\ r.place = place /\ r.op = op
           /\ r.mine /\ r.answer = "none"
  BY DEF T!Call, T!Ask, New

Answer == {"good", "ok", "bad", "info", "missing", "failed"}

Given(c, answer, cards) == [c EXCEPT !.answer = answer, !.cards = cards]

LEMMA AnsweredCall ==
    ASSUME NEW c \in T!Call, NEW answer \in Answer, NEW cards \in SUBSET Items,
           NEW r, r = Given(c, answer, cards)
    PROVE  /\ r \in T!Call
           /\ r.kind = c.kind /\ r.item = c.item /\ r.place = c.place /\ r.op = c.op
           /\ (r.mine <=> c.mine) /\ r.answer = answer
  BY DEF T!Call, Answer, Given

LEMMA DisownedCall ==
    ASSUME NEW c \in T!Call
    PROVE  LET r == [c EXCEPT !.mine = FALSE]
           IN  /\ r \in T!Call
               /\ r.kind = c.kind /\ r.item = c.item /\ r.place = c.place /\ r.op = c.op
               /\ ~r.mine /\ r.answer = c.answer
  BY DEF T!Call

(* What a page holds.                                                      *)
LEMMA HandFields ==
    ASSUME screen \in T!Screen
    PROVE  /\ screen.busy \in BOOLEAN
           /\ screen.hand # T!NoHand => /\ screen.hand \in T!Hand /\ screen.hand.item \in Items
                                        /\ screen.hand.op \in T!Ops
           /\ screen.hand.open => screen.hand # T!NoHand
  BY DEF T!Screen, T!Hand, T!NoHand

LEMMA TakenHand ==
    ASSUME NEW c \in T!Call, c.item \in Items
    PROVE  /\ T!Taken(c) \in T!Hand /\ T!Taken(c) # T!NoHand
           /\ T!Taken(c).item = c.item /\ T!Taken(c).open = TRUE /\ T!Taken(c).op = c.op
           /\ [T!Taken(c) EXCEPT !.open = FALSE] \in T!Hand
           /\ [T!Taken(c) EXCEPT !.open = FALSE].item = c.item
           /\ [T!Taken(c) EXCEPT !.open = FALSE].open = FALSE
           /\ [T!Taken(c) EXCEPT !.open = FALSE] # T!NoHand
  BY TerminalAssumption DEF T!Call, T!Taken, T!Hand, T!NoHand, T!TasksAssumption

(* A screen that changes in one of its fields.                             *)
LEMMA ScreenFields ==
    ASSUME screen \in T!Screen,
           NEW phase \in {"away", "loading", "error", "closed", "open", "done"},
           NEW hand \in T!Hand \cup {T!NoHand}, NEW busy \in BOOLEAN,
           NEW missing \in T!Labels \cup {None}, NEW reported \in BOOLEAN, NEW cards \in SUBSET Items,
           NEW s, s = [phase |-> phase, hand |-> hand, busy |-> busy, missing |-> missing,
                       reported |-> reported, cards |-> cards]
    PROVE  s \in T!Screen /\ s.phase = phase /\ s.hand = hand /\ s.busy = busy
           /\ s.missing = missing /\ s.reported = reported /\ s.cards = cards
  BY DEF T!Screen

LEMMA SamePage ==
    ASSUME UNCHANGED day
    PROVE  /\ T!task' = T!task /\ T!Labels' = T!Labels /\ T!Ops' = T!Ops /\ T!Units' = T!Units
           /\ T!Hand' = T!Hand /\ T!Screen' = T!Screen /\ T!Call' = T!Call
  BY DEF T!task, T!Labels, T!Ops, T!Units, T!Hand, T!Screen, T!Call

-----------------------------------------------------------------------------
(* The pages of the terminal: the invariant                                *)

(* A page waits for one answer, and is busy until it has it.               *)
OneAtATime ==
    /\ \A c, d \in calls : Awaited(c) /\ Awaited(d) => c = d
    /\ (\E c \in calls : Awaited(c)) => screen.busy

(* Only things are accepted, the one that is looked up is the last one,    *)
(* and the pages with two scans hold nothing meanwhile.                    *)
ScansAsTaken ==
    \A c \in calls : c.kind = "scan" =>
        /\ T!task # "receiving"
        /\ c.answer = "good" \/ (c.answer = "bad" /\ T!task \in T!OneScan) => c.item \in Items
        /\ c.mine /\ c.item \in Items => c.item = last
        /\ c.mine /\ T!task \in T!TwoScans => screen.hand = T!NoHand

(* What is held is what was taken last, unless the next one is looked up.  *)
HandIsLast ==
    screen.hand # T!NoHand => \/ screen.hand.item = last
                              \/ \E c \in calls : c.kind = "scan" /\ c.mine

HandIsOpen ==
    screen.hand # T!NoHand => screen.hand.item \in T!Labels /\ (T!task \notin T!OneScan => screen.hand.open)

CommitsItems == \A c \in calls : c.kind = "commit" => c.item \in Items

(* Where an item has one unit: it is handled after it was accepted.        *)
HandledOnce ==
    T!task \notin {"storage", "receiving"} =>
        /\ \A i \in Items : server.count[i] \in {0, 1} /\ server.count[i] <= accepted[i]
        /\ screen.hand.open => accepted[screen.hand.item] >= 1
        /\ \A c \in calls : c.kind = "commit" /\ c.answer = "none" => accepted[c.item] >= 1

(* Temporary storage: the operations that may still place a unit of an     *)
(* item.                                                                   *)
OpenCommit(c, i) == c.kind = "commit" /\ c.answer = "none" /\ c.item = i
Pending(i) ==
    {op \in T!Ops \ server.ops :
        \/ screen.hand # T!NoHand /\ screen.hand.item = i /\ screen.hand.op = op
        \/ \E c \in calls : OpenCommit(c, i) /\ c.op = op}
StoredOnce ==
    T!task = "storage" => \A i \in Items : server.count[i] + Cardinality(Pending(i)) <= accepted[i]

PageInv ==
    /\ PagesTyped /\ OneAtATime /\ ScansAsTaken /\ HandIsLast /\ HandIsOpen /\ CommitsItems
    /\ HandledOnce /\ StoredOnce

(* The commits that a step makes are of what was taken last.               *)
CommitsLast ==
    \A c \in calls' \ calls : (c.kind = "commit" /\ c.mine /\ c.answer = "none") => c.item = last

LEMMA PendingFinite ==
    ASSUME day \in Days, NEW i
    PROVE  /\ Pending(i) \subseteq T!Ops /\ IsFiniteSet(Pending(i))
           /\ Cardinality(Pending(i)) \in Nat
  <1>1. Pending(i) \subseteq T!Ops
    BY DEF Pending
  <1> QED
    BY <1>1, DayFields, FS_Subset, FS_CardinalityType

LEMMA InitPages == T!TasksInit => PageInv
  <1> SUFFICES ASSUME T!TasksInit PROVE PageInv
    OBVIOUS
  <1>1. PagesTyped /\ day \in Days
    BY InitTyped DEF T!TasksInit
  <1>2. /\ calls = {} /\ screen.hand = T!NoHand /\ accepted = [i \in Items |-> 0]
        /\ screen.hand.open = FALSE /\ server.count = [i \in Items |-> 0] /\ server.ops = {}
    BY DEF T!TasksInit, T!Mounted, T!NoHand
  <1>3. \A i : Pending(i) = {}
    BY <1>2 DEF Pending
  <1>4. Cardinality({}) = 0
    BY FS_EmptySet
  <1>5. OneAtATime /\ ScansAsTaken /\ HandIsLast /\ HandIsOpen /\ CommitsItems
    BY <1>2 DEF OneAtATime, ScansAsTaken, HandIsLast, HandIsOpen, CommitsItems
  <1>6. HandledOnce
    BY <1>2 DEF HandledOnce
  <1>7. StoredOnce
    <2>1. \A i \in Items : server.count[i] = 0 /\ accepted[i] = 0
      BY <1>2
    <2> QED
      BY <1>3, <1>4, <2>1 DEF StoredOnce
  <1> QED
    BY <1>1, <1>5, <1>6, <1>7 DEF PageInv

(* A step that only takes operations away from those that may place.       *)
LEMMA PendingShrinks ==
    ASSUME PageInv, UNCHANGED <<day, accepted>>, server'.count = server.count,
           \A i \in Items : Pending(i)' \subseteq Pending(i)
    PROVE  StoredOnce'
  <1> SUFFICES ASSUME T!task = "storage", NEW i \in Items
               PROVE  server.count[i] + Cardinality(Pending(i)') <= accepted[i]
    BY SamePage DEF StoredOnce
  <1>0. day \in Days /\ server.count[i] \in Nat /\ accepted[i] \in Nat
    BY DEF PageInv, PagesTyped, T!TasksTypeOK
  <1>1. Cardinality(Pending(i)') <= Cardinality(Pending(i)) /\ Cardinality(Pending(i)') \in Nat
    BY <1>0, PendingFinite, FS_Subset, FS_CardinalityType
  <1>2. server.count[i] + Cardinality(Pending(i)) <= accepted[i]
    BY DEF PageInv, StoredOnce
  <1>3. Cardinality(Pending(i)) \in Nat
    BY <1>0, PendingFinite
  <1> QED
    BY <1>0, <1>1, <1>2, <1>3

-----------------------------------------------------------------------------
(* The pages of the terminal: what a step may do to the invariant          *)

Outcomes == [kind : {"none", "ok", "bad", "info"}, token : BOOLEAN]

LEMMA PageTypes ==
    ASSUME PageInv
    PROVE  /\ day \in Days /\ screen \in T!Screen /\ calls \subseteq T!Call /\ outcome \in Outcomes
           /\ last \in Items \cup {None} /\ accepted \in [Items -> Nat] /\ left \in T!Bounds
           /\ left.tries \in Nat /\ left.tries \in T!Ops
           /\ server \in [count : [Items -> Nat], gone : SUBSET Items, ops : SUBSET T!Ops,
                          bins : BOOLEAN, session : BOOLEAN, reviews : Nat, reports : Nat]
  <1>1. left \in T!Bounds /\ left.tries \in Nat /\ left.tries <= day.bounds.tries /\ day \in Days
    BY DEF PageInv, PagesTyped, T!TasksTypeOK, T!Bounds
  <1>2. left.tries \in T!Ops
    BY <1>1, DayFields DEF T!Ops
  <1> QED
    BY <1>1, <1>2 DEF PageInv, PagesTyped, T!TasksTypeOK, Outcomes

(* A step of the page alone: nothing is asked, nothing is taken.           *)
LEMMA ScreenKeeps ==
    ASSUME PageInv, UNCHANGED <<day, calls, server, last, accepted>>,
           screen' \in T!Screen, screen'.busy = screen.busy,
           screen'.hand = screen.hand \/ screen'.hand = T!NoHand,
           outcome' \in Outcomes, left' \in T!Bounds, left'.tries = left.tries
    PROVE  PageInv'
  <1>1. PagesTyped'
    BY SamePage, PageTypes DEF PageInv, PagesTyped, T!TasksTypeOK, Outcomes
  <1>2. OneAtATime' /\ CommitsItems'
    BY DEF PageInv, OneAtATime, CommitsItems, Awaited
  <1>3. ScansAsTaken' /\ HandIsLast' /\ HandIsOpen'
    BY SamePage DEF PageInv, ScansAsTaken, HandIsLast, HandIsOpen
  <1>4. HandledOnce'
    BY SamePage DEF PageInv, HandledOnce, T!NoHand
  <1>5. StoredOnce'
    <2>1. \A i \in Items : Pending(i)' \subseteq Pending(i)
      BY SamePage DEF Pending, OpenCommit
    <2> QED
      BY <2>1, PendingShrinks
  <1> QED
    BY <1>1, <1>2, <1>3, <1>4, <1>5 DEF PageInv

(* A page that waits for nothing asks for something.                       *)
LEMMA AskKeeps ==
    ASSUME PageInv, ~screen.busy, T!Quietly, T!Waits, NEW r \in T!Call, calls' = calls \cup {r},
           r.mine, r.answer = "none",
           r.kind \in {"commit", "bin", "start", "finish", "review", "report"},
           r.kind = "commit" => /\ screen.hand # T!NoHand /\ screen.hand.open
                                /\ r.item = screen.hand.item
                                /\ T!task = "storage" => r.op = screen.hand.op,
           left' \in T!Bounds, left'.tries <= day.bounds.tries
    PROVE  PageInv'
  <1>0. /\ screen' \in T!Screen /\ screen'.busy = TRUE /\ screen'.hand = screen.hand
        /\ UNCHANGED <<day, outcome, server, last, accepted>>
    BY PageTypes DEF T!Waits, T!Screen, T!Quietly
  <1>1. PagesTyped'
    BY <1>0, SamePage, PageTypes DEF PageInv, PagesTyped, T!TasksTypeOK
  <1>2. OneAtATime'
    BY <1>0 DEF PageInv, OneAtATime, Awaited, Asked
  <1>3. ScansAsTaken' /\ HandIsLast' /\ HandIsOpen'
    BY <1>0, SamePage DEF PageInv, ScansAsTaken, HandIsLast, HandIsOpen
  <1>4. CommitsItems'
    BY PageTypes, HandFields DEF PageInv, CommitsItems
  <1>5. HandledOnce'
    BY <1>0, SamePage DEF PageInv, HandledOnce
  <1>6. StoredOnce'
    <2>1. CASE T!task = "storage"
      <3>1. \A i \in Items : Pending(i)' \subseteq Pending(i)
        BY <1>0, <2>1, SamePage DEF Pending, OpenCommit
      <3> QED
        BY <1>0, <3>1, PendingShrinks
    <2>2. CASE T!task # "storage"
      BY <1>0, <2>2, SamePage DEF StoredOnce
    <2> QED
      BY <2>1, <2>2
  <1> QED
    BY <1>1, <1>2, <1>3, <1>4, <1>5, <1>6 DEF PageInv

(* It asks what to do with something.                                      *)
LEMMA ScanKeeps ==
    ASSUME PageInv, ~screen.busy, T!Waits, UNCHANGED <<day, outcome, server, accepted>>,
           NEW r \in T!Call, calls' = calls \cup {r},
           r.mine, r.answer = "none", r.kind = "scan", T!Noted(r.item),
           T!task # "receiving", T!task \in T!TwoScans => screen.hand = T!NoHand,
           left' \in T!Bounds, left'.tries <= day.bounds.tries
    PROVE  PageInv'
  <1>0. /\ screen' \in T!Screen /\ screen'.busy = TRUE /\ screen'.hand = screen.hand
        /\ last' \in Items \cup {None} /\ (r.item \in Items => last' = r.item)
    BY PageTypes DEF T!Waits, T!Screen, T!Noted
  <1>1. PagesTyped'
    BY <1>0, SamePage, PageTypes DEF PageInv, PagesTyped, T!TasksTypeOK
  <1>2. OneAtATime' /\ \A c \in calls : c.kind = "scan" => ~c.mine
    BY <1>0 DEF PageInv, OneAtATime, Awaited, Asked
  <1>3. ScansAsTaken' /\ HandIsLast' /\ HandIsOpen'
    <2>1. ScansAsTaken'
      <3> SUFFICES ASSUME NEW c \in calls', c.kind = "scan"
                   PROVE /\ T!task # "receiving"
                         /\ c.answer = "good" \/ (c.answer = "bad" /\ T!task \in T!OneScan) => c.item \in Items
                         /\ c.mine /\ c.item \in Items => c.item = last'
                         /\ c.mine /\ T!task \in T!TwoScans => screen'.hand = T!NoHand
        BY SamePage DEF ScansAsTaken
      <3>1. CASE c \in calls
        BY <1>2, <3>1 DEF PageInv, ScansAsTaken
      <3>2. CASE c = r
        BY <1>0, <3>2
      <3> QED
        BY <3>1, <3>2
    <2>2. HandIsLast'
      BY DEF HandIsLast
    <2> QED
      BY <1>0, <2>1, <2>2, SamePage DEF PageInv, HandIsOpen
  <1>4. CommitsItems'
    BY DEF PageInv, CommitsItems
  <1>5. HandledOnce'
    BY <1>0, SamePage DEF PageInv, HandledOnce
  <1>6. StoredOnce'
    <2>1. \A i \in Items : Pending(i)' \subseteq Pending(i)
      BY <1>0, SamePage DEF Pending, OpenCommit
    <2> QED
      BY <1>0, <2>1, PendingShrinks
  <1> QED
    BY <1>1, <1>2, <1>3, <1>4, <1>5, <1>6 DEF PageInv

(* A request that no page waits for, of a page whose hand stays or goes.   *)
LEMMA BackgroundKeeps ==
    ASSUME PageInv, UNCHANGED <<day, outcome, server, accepted>>,
           NEW r \in T!Call, calls' = calls \cup {r}, r.answer = "none",
           r.kind \in {"resume", "cards"},
           screen' \in T!Screen, screen'.busy = screen.busy, screen'.hand = screen.hand,
           UNCHANGED last,
           left' \in T!Bounds, left'.tries <= day.bounds.tries
    PROVE  PageInv'
  <1>1. PagesTyped'
    BY SamePage, PageTypes DEF PageInv, PagesTyped, T!TasksTypeOK
  <1>2. OneAtATime' /\ CommitsItems'
    BY DEF PageInv, OneAtATime, CommitsItems, Awaited, Asked
  <1>3. ScansAsTaken' /\ HandIsLast' /\ HandIsOpen'
    BY SamePage DEF PageInv, ScansAsTaken, HandIsLast, HandIsOpen
  <1>4. HandledOnce'
    BY SamePage DEF PageInv, HandledOnce
  <1>5. StoredOnce'
    <2>1. \A i \in Items : Pending(i)' \subseteq Pending(i)
      BY SamePage DEF Pending, OpenCommit
    <2> QED
      BY <2>1, PendingShrinks
  <1> QED
    BY <1>1, <1>2, <1>3, <1>4, <1>5 DEF PageInv

LEMMA RequestLeft ==
    ASSUME PageInv, NEW kind, NEW code, NEW place, NEW op, T!Request(kind, code, place, op)
    PROVE  /\ left' \in T!Bounds /\ left'.tries <= day.bounds.tries
           /\ T!Ask(kind, code, place, op)
  <1>1. /\ left \in T!Bounds /\ left.tries <= day.bounds.tries /\ day.bounds.tries \in Nat
        /\ left.tries > 0
    BY DayFields DEF PageInv, PagesTyped, T!TasksTypeOK, T!Request
  <1>2. left' = [left EXCEPT !.tries = @ - 1] /\ T!Ask(kind, code, place, op)
    BY DEF T!Request
  <1> QED
    BY <1>1, <1>2 DEF T!Bounds

(* A card is matched on the device.                                        *)
LEMMA MatchKeeps ==
    ASSUME PageInv, T!task = "receiving", NEW l \in T!Labels, NEW cards \in SUBSET Items,
           T!MatchCard(l, cards)
    PROVE  PageInv'
  <1>0. UNCHANGED <<day, outcome, server, accepted>>
    BY DEF T!MatchCard
  <1>1. CASE /\ l \in cards /\ last' = l
             /\ screen' = [screen EXCEPT !.hand = [item |-> l, open |-> TRUE, op |-> 0]]
             /\ UNCHANGED <<calls, left>>
    <2> DEFINE h == [item |-> l, open |-> TRUE, op |-> 0]
    <2>1. h \in T!Hand /\ h.item = l /\ h.open = TRUE
      BY <1>1, PageTypes, DayFields DEF T!Hand
    <2>2. /\ screen' \in T!Screen /\ screen'.hand = h /\ screen'.busy = screen.busy
      BY <1>1, <2>1, PageTypes DEF T!Screen
    <2>3. PagesTyped'
      BY <1>0, <1>1, <2>2, SamePage, PageTypes DEF PageInv, PagesTyped, T!TasksTypeOK
    <2>4. OneAtATime' /\ CommitsItems'
      BY <1>1, <2>2 DEF PageInv, OneAtATime, CommitsItems, Awaited
    <2>5. ScansAsTaken' /\ HandIsLast' /\ HandIsOpen'
      BY <1>0, <1>1, <2>1, <2>2, SamePage DEF PageInv, ScansAsTaken, HandIsLast, HandIsOpen
    <2>6. HandledOnce' /\ StoredOnce'
      BY <1>0, SamePage DEF HandledOnce, StoredOnce
    <2> QED
      BY <2>3, <2>4, <2>5, <2>6 DEF PageInv
  <1>2. CASE UNCHANGED <<screen, calls, left, last>>
    BY <1>0, <1>2, ScreenKeeps, PageTypes
  <1>3. CASE T!Request("cards", None, None, 0) /\ UNCHANGED <<screen, last>>
    <2>0. T!Ask("cards", None, None, 0) /\ day \in Days /\ 0 \in T!Ops
      BY <1>3, RequestLeft, PageTypes, DayFields
    <2>1. PICK r : r = New("cards", None, None, 0)
      OBVIOUS
    <2>2. r \in T!Call /\ calls' = calls \cup {r} /\ r.kind = "cards" /\ r.answer = "none"
      BY <2>0, <2>1, NewCall
    <2> QED
      BY <1>0, <1>3, <2>2, RequestLeft, BackgroundKeeps, PageTypes
  <1> QED
    BY <1>1, <1>2, <1>3 DEF T!MatchCard

(* The page is left.                                                       *)
LEMMA LeaveKeeps ==
    ASSUME PageInv, T!Leave
    PROVE  PageInv'
  <1>0. /\ screen' = T!Mounted /\ outcome' = [kind |-> "none", token |-> FALSE]
        /\ UNCHANGED <<day, server, last, accepted>>
        /\ left' = [left EXCEPT !.leaves = @ - 1] /\ left.leaves > 0
        /\ calls' = {[c EXCEPT !.mine = FALSE] : c \in {d \in calls : d.answer = "none"}}
    BY DEF T!Leave
  <1>1. \A r \in calls' : \E c \in calls :
           /\ r \in T!Call /\ r.kind = c.kind /\ r.item = c.item /\ r.op = c.op
           /\ ~r.mine /\ r.answer = c.answer /\ r.answer = "none"
    <2> SUFFICES ASSUME NEW r \in calls'
                 PROVE  \E c \in calls :
                           /\ r \in T!Call /\ r.kind = c.kind /\ r.item = c.item /\ r.op = c.op
                           /\ ~r.mine /\ r.answer = c.answer /\ r.answer = "none"
      OBVIOUS
    <2>1. PICK c \in calls : c.answer = "none" /\ r = [c EXCEPT !.mine = FALSE]
      BY <1>0
    <2>2. c \in T!Call
      BY PageTypes
    <2> QED
      BY <2>1, <2>2, DisownedCall
  <1>2. T!Mounted \in T!Screen /\ T!Mounted.hand = T!NoHand /\ T!Mounted.hand.open = FALSE
    BY DEF T!Mounted, T!Screen, T!NoHand
  <1>3. left' \in T!Bounds /\ left'.tries = left.tries
    BY <1>0, PageTypes DEF T!Bounds
  <1>4. PagesTyped'
    BY <1>0, <1>1, <1>2, <1>3, SamePage, PageTypes DEF PageInv, PagesTyped, T!TasksTypeOK, Outcomes
  <1>5. OneAtATime' /\ CommitsItems'
    BY <1>1 DEF PageInv, OneAtATime, CommitsItems, Awaited
  <1>6. ScansAsTaken'
    <2>1. \A r \in calls' : r.kind = "scan" => T!task # "receiving" /\ r.answer = "none" /\ ~r.mine
      BY <1>1 DEF PageInv, ScansAsTaken
    <2> QED
      BY <1>0, <2>1, SamePage DEF ScansAsTaken
  <1>7. HandIsLast' /\ HandIsOpen'
    BY <1>0, <1>2 DEF HandIsLast, HandIsOpen
  <1>8. HandledOnce'
    BY <1>0, <1>1, <1>2, SamePage DEF PageInv, HandledOnce
  <1>9. StoredOnce'
    <2>1. \A i \in Items : Pending(i)' \subseteq Pending(i)
      <3> SUFFICES ASSUME NEW i \in Items, NEW op \in Pending(i)' PROVE op \in Pending(i)
        OBVIOUS
      <3>1. op \in T!Ops \ server.ops
        BY <1>0, SamePage DEF Pending
      <3>2. PICK r \in calls' : OpenCommit(r, i) /\ r.op = op
        BY <1>0, <1>2 DEF Pending
      <3>3. PICK c \in calls : OpenCommit(c, i) /\ c.op = op
        BY <1>1, <3>2 DEF OpenCommit
      <3> QED
        BY <3>1, <3>3 DEF Pending
    <2> QED
      BY <1>0, <2>1, PendingShrinks
  <1> QED
    BY <1>4, <1>5, <1>6, <1>7, <1>8, <1>9 DEF PageInv

-----------------------------------------------------------------------------
(* The pages of the terminal: the server answers                           *)

Servers == [count : [Items -> Nat], gone : SUBSET Items, ops : SUBSET T!Ops,
            bins : BOOLEAN, session : BOOLEAN, reviews : Nat, reports : Nat]

(* A call is answered, or its answer is lost: all but the counts.          *)
LEMMA AnswerKeeps ==
    ASSUME PageInv, UNCHANGED <<day, screen, outcome, last, accepted>>,
           server' \in Servers, left' \in T!Bounds, left'.tries = left.tries,
           NEW c \in calls, NEW answer \in Answer, NEW cards \in SUBSET Items,
           T!Answers(c, answer, cards),
           (c.kind = "scan" /\ (answer = "good" \/ (answer = "bad" /\ T!task \in T!OneScan))) => c.item \in Items
    PROVE  /\ PagesTyped' /\ OneAtATime' /\ ScansAsTaken' /\ HandIsLast' /\ HandIsOpen'
           /\ CommitsItems'
  <1>1. PICK r : r = Given(c, answer, cards)
    OBVIOUS
  <1>2. /\ r \in T!Call /\ r.kind = c.kind /\ r.item = c.item /\ r.op = c.op /\ (r.mine <=> c.mine)
        /\ r.answer = answer
    <2>1. c \in T!Call
      BY PageTypes
    <2> QED
      BY <1>1, <2>1, AnsweredCall
  <1>3. calls' = (calls \ {c}) \cup {r}
    BY <1>1 DEF T!Answers, Given
  <1>4. PagesTyped'
    BY <1>2, <1>3, SamePage, PageTypes DEF PageInv, PagesTyped, T!TasksTypeOK, Servers
  <1>5. OneAtATime' /\ CommitsItems'
    BY <1>2, <1>3 DEF PageInv, OneAtATime, CommitsItems, Awaited
  <1>6. ScansAsTaken'
    <2>1. ScansAsTaken
      BY DEF PageInv
    <2> SUFFICES ASSUME NEW d \in calls', d.kind = "scan"
                 PROVE /\ T!task # "receiving"
                       /\ d.answer = "good" \/ (d.answer = "bad" /\ T!task \in T!OneScan) => d.item \in Items
                       /\ d.mine /\ d.item \in Items => d.item = last
                       /\ d.mine /\ T!task \in T!TwoScans => screen.hand = T!NoHand
      BY SamePage DEF ScansAsTaken
    <2>2. CASE d \in calls
      BY <2>1, <2>2 DEF ScansAsTaken
    <2>3. CASE d = r
      BY <1>2, <2>1, <2>3 DEF ScansAsTaken
    <2> QED
      BY <1>3, <2>2, <2>3
  <1>7. HandIsLast' /\ HandIsOpen'
    BY <1>2, <1>3, SamePage DEF PageInv, HandIsLast, HandIsOpen
  <1> QED
    BY <1>4, <1>5, <1>6, <1>7

(* Answers that count nothing.                                             *)
LEMMA AnswerCounts ==
    ASSUME PageInv, UNCHANGED <<day, screen, outcome, last, accepted>>,
           server'.count = server.count, server.ops \subseteq server'.ops,
           NEW c \in calls, NEW answer \in Answer, NEW cards \in SUBSET Items,
           T!Answers(c, answer, cards)
    PROVE  HandledOnce' /\ StoredOnce'
  <1>1. PICK r : r = Given(c, answer, cards)
    OBVIOUS
  <1>2. r.answer = answer /\ answer # "none"
    <2>1. c \in T!Call
      BY PageTypes
    <2> QED
      BY <1>1, <2>1, AnsweredCall DEF Answer
  <1>3. calls' = (calls \ {c}) \cup {r}
    BY <1>1 DEF T!Answers, Given
  <1>4. HandledOnce'
    BY <1>2, <1>3, SamePage DEF PageInv, HandledOnce
  <1>5. \A i \in Items : Pending(i)' \subseteq Pending(i)
    BY <1>2, <1>3, SamePage DEF Pending, OpenCommit
  <1> QED
    BY <1>4, <1>5, PendingShrinks

(* What a commit does, by the pages.                                       *)
LEMMA CommittedAs ==
    ASSUME PageInv, NEW c \in calls, c.kind = "commit", c.answer = "none", NEW d \in T!Committed(c)
    PROVE  /\ d.answer \in Answer
           /\ d.units \in Int /\ server.count[c.item] + d.units \in Nat
           /\ server.ops \subseteq d.ops /\ d.ops \subseteq T!Ops
           /\ T!task \notin {"storage", "receiving"} => server.count[c.item] + d.units \in {0, 1}
           /\ T!task = "storage" => \/ d.units = 0
                                    \/ d.units = 1 /\ c.op \notin server.ops /\ c.op \in d.ops
  <1>0. /\ c \in T!Call /\ c.item \in Items /\ c.op \in T!Ops /\ server.ops \subseteq T!Ops
        /\ server.count[c.item] \in Nat /\ day \in Days
    BY PageTypes DEF PageInv, CommitsItems, T!Call
  <1>1. CASE T!task = "storage"
    <2>1. d \in T!ProductCommit(c)
      BY <1>1 DEF T!Committed
    <2> QED
      BY <1>0, <1>1, <2>1 DEF T!ProductCommit, T!Does, Answer
  <1>2. CASE T!task = "receiving"
    <2>1. d = T!CardCommit(c)
      BY <1>2 DEF T!Committed
    <2> QED
      BY <1>0, <1>2, <2>1 DEF T!CardCommit, T!Does, Answer
  <1>3. CASE T!task \notin {"storage", "receiving"}
    <2>1. server.count[c.item] \in {0, 1}
      BY <1>0, <1>3 DEF PageInv, HandledOnce
    <2>2. CASE T!task = "putaway"
      <3>1. d = T!CartonCommit(c)
        BY <2>2 DEF T!Committed
      <3>2. \/ d = T!Does("failed", 0, {}) \/ d = T!Does("bad", 0, {})
            \/ d = T!Does("ok", 1 - server.count[c.item], {})
        BY <3>1 DEF T!CartonCommit
      <3> QED
        BY <1>0, <1>3, <2>1, <3>2 DEF T!Does, Answer
    <2>3. CASE T!task # "putaway"
      <3>1. d = T!FlowCommit(c)
        BY <1>3, <2>3 DEF T!Committed
      <3>2. T!Units = 1
        BY <1>3 DEF T!Units
      <3> QED
        BY <1>0, <1>3, <2>1, <2>3, <3>1, <3>2 DEF T!FlowCommit, T!Does, Answer, T!Waiting
    <2> QED
      BY <2>2, <2>3
  <1> QED
    BY <1>1, <1>2, <1>3

LEMMA CommitKeeps ==
    ASSUME PageInv, NEW c \in calls, c.answer = "none", T!ServeCommit(c),
           UNCHANGED <<day, screen, outcome, last, accepted, left>>
    PROVE  PageInv' /\ CommitsLast
  <1>0. /\ c.kind = "commit" /\ c.item \in Items /\ c \in T!Call /\ c.op \in T!Ops
        /\ day \in Days /\ server \in Servers /\ left \in T!Bounds
        /\ server.ops \subseteq T!Ops /\ server.count \in [Items -> Nat] /\ accepted \in [Items -> Nat]
    BY PageTypes DEF T!ServeCommit, PageInv, CommitsItems, Servers, T!Call
  <1>1. PICK d \in T!Committed(c) :
           /\ server' = [server EXCEPT !.count = [server.count EXCEPT ![c.item] = @ + d.units],
                                       !.ops = d.ops]
           /\ T!Answers(c, d.answer, T!WorkerHome([server.count EXCEPT ![c.item] = @ + d.units]))
    BY DEF T!ServeCommit
  <1> DEFINE n == server.count[c.item] + d.units
             cards == T!WorkerHome([server.count EXCEPT ![c.item] = @ + d.units])
  <1>2. /\ d.answer \in Answer /\ n \in Nat /\ d.units \in Int
        /\ server.ops \subseteq d.ops /\ d.ops \subseteq T!Ops
        /\ T!task \notin {"storage", "receiving"} => n \in {0, 1}
        /\ T!task = "storage" => \/ d.units = 0
                                 \/ d.units = 1 /\ c.op \notin server.ops /\ c.op \in d.ops
    BY <1>0, <1>1, CommittedAs
  <1>3. /\ server' \in Servers /\ server'.ops = d.ops
        /\ server'.count = [server.count EXCEPT ![c.item] = n]
    BY <1>0, <1>1, <1>2 DEF Servers
  <1>4. cards \in SUBSET Items
    BY DEF T!WorkerHome
  <1>5. /\ PagesTyped' /\ OneAtATime' /\ ScansAsTaken' /\ HandIsLast' /\ HandIsOpen' /\ CommitsItems'
    <2> HIDE DEF cards
    <2>1. T!Answers(c, d.answer, cards)
      BY <1>1 DEF cards
    <2> QED
      BY <1>0, <1>2, <1>3, <1>4, <2>1, AnswerKeeps
  <1>6. PICK r : /\ calls' = (calls \ {c}) \cup {r}
                 /\ r.answer = d.answer
    <2>1. PICK r : r = Given(c, d.answer, cards)
      OBVIOUS
    <2>2. r.answer = d.answer
      BY <1>0, <1>2, <1>4, <2>1, AnsweredCall
    <2> QED
      BY <1>1, <2>1, <2>2 DEF T!Answers, Given
  <1>7. r.answer # "none"
    BY <1>2, <1>6 DEF Answer
  <1> HIDE DEF n, cards
  <1>8. HandledOnce'
    <2> SUFFICES ASSUME T!task \notin {"storage", "receiving"}
                 PROVE  /\ \A i \in Items : server'.count[i] \in {0, 1} /\ server'.count[i] <= accepted[i]
                        /\ screen.hand.open => accepted[screen.hand.item] >= 1
                        /\ \A e \in calls' : e.kind = "commit" /\ e.answer = "none" => accepted[e.item] >= 1
      BY SamePage DEF HandledOnce
    <2>1. /\ \A i \in Items : server.count[i] \in {0, 1} /\ server.count[i] <= accepted[i]
          /\ screen.hand.open => accepted[screen.hand.item] >= 1
          /\ \A e \in calls : e.kind = "commit" /\ e.answer = "none" => accepted[e.item] >= 1
      BY DEF PageInv, HandledOnce
    <2>2. accepted[c.item] >= 1 /\ n \in {0, 1}
      BY <1>0, <1>2, <2>1
    <2>3. \A i \in Items : server'.count[i] \in {0, 1} /\ server'.count[i] <= accepted[i]
      BY <1>0, <1>3, <2>1, <2>2
    <2> QED
      BY <1>6, <1>7, <2>1, <2>3
  <1>9. StoredOnce'
    <2> SUFFICES ASSUME T!task = "storage", NEW i \in Items
                 PROVE  server'.count[i] + Cardinality(Pending(i)') <= accepted[i]
      BY SamePage DEF StoredOnce
    <2>1. server.count[i] + Cardinality(Pending(i)) <= accepted[i]
      BY DEF PageInv, StoredOnce
    <2>2. Pending(i)' \subseteq Pending(i) \ d.ops
      BY <1>2, <1>3, <1>6, <1>7, SamePage DEF Pending, OpenCommit
    <2>3. IsFiniteSet(Pending(i)) /\ Cardinality(Pending(i)) \in Nat
      BY <1>0, PendingFinite
    <2>4. /\ server.count[i] \in Nat /\ accepted[i] \in Nat
      BY <1>0
    <2>5. CASE i = c.item /\ d.units = 1
      <3>1. c.op \notin server.ops /\ c.op \in d.ops
        BY <1>2, <2>5
      <3>2. c.op \in Pending(i)
        BY <1>0, <2>5, <3>1 DEF Pending, OpenCommit
      <3>3. Pending(i)' \subseteq Pending(i) \ {c.op}
        BY <2>2, <3>1
      <3>4. /\ IsFiniteSet(Pending(i) \ {c.op})
            /\ Cardinality(Pending(i) \ {c.op}) = Cardinality(Pending(i)) - 1
        BY <2>3, <3>2, FS_RemoveElement
      <3>5. Cardinality(Pending(i)') <= Cardinality(Pending(i)) - 1 /\ Cardinality(Pending(i)') \in Nat
        BY <3>3, <3>4, FS_Subset, FS_CardinalityType
      <3>6. server'.count[i] = server.count[i] + 1
        BY <1>0, <1>3, <2>5 DEF n
      <3> QED
        BY <2>1, <2>3, <2>4, <3>5, <3>6
    <2>6. CASE ~(i = c.item /\ d.units = 1)
      <3>1. server'.count[i] = server.count[i]
        BY <1>0, <1>2, <1>3, <2>6 DEF n
      <3>2. Cardinality(Pending(i)') <= Cardinality(Pending(i)) /\ Cardinality(Pending(i)') \in Nat
        BY <2>2, <2>3, FS_Subset, FS_CardinalityType
      <3> QED
        BY <2>1, <2>3, <2>4, <3>1, <3>2
    <2> QED
      BY <2>5, <2>6
  <1> QED
    BY <1>5, <1>6, <1>7, <1>8, <1>9 DEF PageInv, CommitsLast

(* Every other answer.                                                     *)
LEMMA OtherAnswerKeeps ==
    ASSUME PageInv, UNCHANGED <<day, screen, outcome, last, accepted>>,
           server' \in Servers, server'.count = server.count, server.ops \subseteq server'.ops,
           left' \in T!Bounds, left'.tries = left.tries,
           NEW c \in calls, NEW answer \in Answer, NEW cards \in SUBSET Items,
           T!Answers(c, answer, cards),
           (c.kind = "scan" /\ (answer = "good" \/ (answer = "bad" /\ T!task \in T!OneScan))) => c.item \in Items
    PROVE  PageInv' /\ CommitsLast
  <1>1. PageInv'
    BY AnswerKeeps, AnswerCounts DEF PageInv
  <1>2. PICK r : r = Given(c, answer, cards)
    OBVIOUS
  <1>3. r.answer # "none" /\ calls' = (calls \ {c}) \cup {r}
    <2>1. c \in T!Call
      BY PageTypes
    <2>2. r.answer = answer
      BY <1>2, <2>1, AnsweredCall
    <2> QED
      BY <1>2, <2>2 DEF T!Answers, Given, Answer
  <1> QED
    BY <1>1, <1>3 DEF CommitsLast

LEMMA ServeKeeps ==
    ASSUME PageInv, NEW c \in calls, T!Serve(c)
    PROVE  PageInv' /\ CommitsLast
  <1>0. /\ c \in T!Call /\ c.op \in T!Ops /\ day \in Days /\ server \in Servers /\ left \in T!Bounds
        /\ c.answer = "none" /\ UNCHANGED <<day, screen, outcome, last, accepted, left>>
        /\ server.ops \subseteq T!Ops
    BY PageTypes DEF T!Serve, T!Call, Servers
  <1>1. CASE T!ServeScan(c)
    <2>1. /\ c.kind = "scan" /\ T!Answers(c, T!Decision(c.item), {}) /\ UNCHANGED server
      BY <1>1 DEF T!ServeScan
    <2>2. T!task # "receiving"
      BY <2>1 DEF PageInv, ScansAsTaken
    <2>3. /\ T!Decision(c.item) \in Answer
          /\ T!Decision(c.item) = "good" \/ (T!Decision(c.item) = "bad" /\ T!task \in T!OneScan) => c.item \in Items
      BY <1>0, <2>2, DayFields
      DEF T!Decision, T!ItemDecision, T!ArticleDestination, T!ArticleAssignment, T!BinContents, T!ShipmentCard,
          T!CartonReady, T!ProductTarget, Answer, T!OneScan
    <2> QED
      BY <1>0, <2>1, <2>3, OtherAnswerKeeps
  <1>2. CASE T!ServeCommit(c)
    BY <1>0, <1>2, CommitKeeps
  <1>3. CASE T!ServeBin(c) \/ T!ServeSession(c) \/ T!ServeReview(c) \/ T!ServeRapport(c) \/ T!ServeLists(c)
    <2>1. server' \in Servers /\ server'.count = server.count /\ server.ops \subseteq server'.ops
      <3>1. \/ UNCHANGED server
            \/ server' = [server EXCEPT !.bins = TRUE]
            \/ server' = [server EXCEPT !.session = TRUE]
            \/ server' = [server EXCEPT !.session = FALSE]
            \/ server' = [server EXCEPT !.reviews = @ + 1, !.ops = @ \cup {c.op}]
            \/ server' = [server EXCEPT !.reports = @ + 1]
        BY <1>3 DEF T!ServeBin, T!ServeSession, T!ServeReview, T!ServeRapport, T!ServeLists
      <3>2. CASE UNCHANGED server
        BY <1>0, <3>2
      <3>3. CASE server' = [server EXCEPT !.bins = TRUE]
        BY <1>0, <3>3 DEF Servers
      <3>4. CASE server' = [server EXCEPT !.session = TRUE]
        BY <1>0, <3>4 DEF Servers
      <3>5. CASE server' = [server EXCEPT !.session = FALSE]
        BY <1>0, <3>5 DEF Servers
      <3>6. CASE server' = [server EXCEPT !.reviews = @ + 1, !.ops = @ \cup {c.op}]
        <4>1. PICK o, n : o = server.ops \cup {c.op} /\ n = server.reviews + 1
          OBVIOUS
        <4>2. o \in SUBSET T!Ops /\ n \in Nat /\ server.ops \subseteq o
          BY <1>0, <4>1 DEF Servers
        <4>3. server' = [server EXCEPT !.reviews = n, !.ops = o]
          BY <3>6, <4>1
        <4> QED
          BY <1>0, <4>2, <4>3 DEF Servers
      <3>7. CASE server' = [server EXCEPT !.reports = @ + 1]
        BY <1>0, <3>7 DEF Servers
      <3> QED
        BY <3>1, <3>2, <3>3, <3>4, <3>5, <3>6, <3>7
    <2>2. c.kind # "scan"
      BY <1>3 DEF T!ServeBin, T!ServeSession, T!ServeReview, T!ServeRapport, T!ServeLists
    <2>3. T!WorkerHome(server.count) \in SUBSET Items
      BY DEF T!WorkerHome
    <2>4. PICK answer \in Answer, cards \in SUBSET Items : T!Answers(c, answer, cards)
      BY <1>3, <2>3 DEF T!ServeBin, T!ServeSession, T!ServeReview, T!ServeRapport, T!ServeLists, Answer
    <2> QED
      BY <1>0, <2>1, <2>2, <2>4, OtherAnswerKeeps
  <1> QED
    BY <1>1, <1>2, <1>3 DEF T!Serve

LEMMA LoseKeeps ==
    ASSUME PageInv, NEW c \in calls, T!Lose(c)
    PROVE  PageInv' /\ CommitsLast
  <1>1. left' \in T!Bounds /\ left'.tries = left.tries
    BY PageTypes DEF T!Lose, T!Bounds
  <1>2. "failed" \in Answer /\ {} \in SUBSET Items /\ server \in Servers
    BY PageTypes DEF Answer, Servers
  <1> QED
    BY <1>1, <1>2, OtherAnswerKeeps DEF T!Lose

LEMMA ElsewhereKeeps ==
    ASSUME PageInv, NEW i \in Items, T!Elsewhere(i)
    PROVE  PageInv' /\ CommitsLast
  <1>1. /\ UNCHANGED <<day, screen, calls, outcome, last, accepted, left>>
        /\ server' = [server EXCEPT !.gone = @ \cup {i}]
    BY DEF T!Elsewhere
  <1>2. server' \in Servers /\ server'.count = server.count /\ server'.ops = server.ops
    BY <1>1, PageTypes DEF Servers
  <1>3. PagesTyped'
    BY <1>1, <1>2, SamePage, PageTypes DEF PageInv, PagesTyped, T!TasksTypeOK, Servers
  <1>4. OneAtATime' /\ CommitsItems' /\ ScansAsTaken' /\ HandIsLast' /\ HandIsOpen'
    BY <1>1, SamePage
    DEF PageInv, OneAtATime, CommitsItems, Awaited, ScansAsTaken, HandIsLast, HandIsOpen
  <1>5. HandledOnce'
    BY <1>1, <1>2, SamePage DEF PageInv, HandledOnce
  <1>6. StoredOnce'
    <2>1. \A j \in Items : Pending(j)' \subseteq Pending(j)
      BY <1>1, <1>2, SamePage DEF Pending, OpenCommit
    <2> QED
      BY <1>1, <1>2, <2>1, PendingShrinks
  <1> QED
    BY <1>1, <1>3, <1>4, <1>5, <1>6 DEF PageInv, CommitsLast

-----------------------------------------------------------------------------
(* The pages of the terminal: the answers                                  *)

Refresh(c) == [c EXCEPT !.kind = "refresh", !.item = None, !.place = None,
                        !.op = 0, !.answer = "none", !.cards = {}]

LEMMA RefreshCall ==
    ASSUME day \in Days, NEW c \in T!Call, NEW r, r = Refresh(c)
    PROVE  r \in T!Call /\ r.kind = "refresh" /\ (r.mine <=> c.mine) /\ r.answer = "none"
  BY DayFields DEF T!Call, Refresh

LEMMA SaysOutcome ==
    ASSUME PageInv, NEW kind \in {"none", "ok", "bad", "info"}, T!Says(kind)
    PROVE  outcome' \in Outcomes
  BY PageTypes DEF T!Says, Outcomes

LEMMA ReactsTo ==
    ASSUME PageInv, NEW c \in calls, NEW hand \in T!Hand \cup {T!NoHand},
           NEW missing \in T!Labels \cup {None}, NEW again \in BOOLEAN, T!Reacts(c, hand, missing, again)
    PROVE  /\ screen' \in T!Screen /\ screen'.hand = hand
           /\ \/ calls' = calls \ {c}
              \/ calls' = (calls \ {c}) \cup {Refresh(c)} /\ screen'.busy
  <1>1. screen' = [screen EXCEPT !.busy = again, !.hand = hand, !.missing = missing]
    BY DEF T!Reacts
  <1>2. screen' \in T!Screen /\ screen'.hand = hand /\ (screen'.busy <=> again)
    BY <1>1, PageTypes DEF T!Screen
  <1>3. CASE again
    BY <1>2, <1>3 DEF T!Reacts, Refresh
  <1>4. CASE ~again
    BY <1>2, <1>4 DEF T!Reacts, Refresh
  <1> QED
    BY <1>2, <1>3, <1>4

LEMMA EndsSo ==
    ASSUME PageInv, NEW c \in calls,
           NEW phase \in {"away", "loading", "error", "closed", "open", "done"}, T!Ends(c, phase)
    PROVE  /\ screen' \in T!Screen /\ screen'.hand = screen.hand
           /\ calls' = calls \ {c} /\ outcome' \in Outcomes
  BY PageTypes DEF T!Ends, T!Screen

(* What an answer may change.                                              *)
Heeded(c) ==
    /\ screen' \in T!Screen /\ outcome' \in Outcomes
    /\ \/ calls' = calls \ {c}
       \/ calls' = (calls \ {c}) \cup {Refresh(c)} /\ screen'.busy /\ c.kind \in Asked
    /\ c.kind \in Asked \/ (screen'.busy = screen.busy /\ calls' = calls \ {c})
    /\ c.kind # "scan" => screen'.hand = screen.hand \/ screen'.hand = T!NoHand
    /\ c.kind = "scan" /\ c.answer = "good" => screen'.hand = T!Taken(c)
    /\ c.kind = "scan" /\ c.answer # "good" =>
          \/ T!task \in T!TwoScans /\ screen'.hand = screen.hand
          \/ T!task \in T!OneScan /\ screen'.hand = T!NoHand
          \/ /\ T!task \in T!OneScan /\ c.answer = "bad"
             /\ screen'.hand = [T!Taken(c) EXCEPT !.open = FALSE]

LEMMA HandsTaken ==
    ASSUME PageInv, NEW c \in calls
    PROVE  /\ T!AfterCommit(c) \in T!Hand \cup {T!NoHand}
           /\ T!AfterCommit(c) = screen.hand \/ T!AfterCommit(c) = T!NoHand
           /\ c.kind = "scan" => /\ T!AfterScan(c) \in T!Hand \cup {T!NoHand}
                                 /\ T!task \in T!OneScan => T!View(c) \in T!Hand \cup {T!NoHand}
           /\ screen.hand \in T!Hand \cup {T!NoHand} /\ screen.missing \in T!Labels \cup {None}
           /\ c.item \in T!Labels \cup {None} /\ None \in T!Labels \cup {None}
           /\ T!Tone(c) \in {"none", "ok", "bad", "info"}
  <1>1. c \in T!Call /\ screen.hand \in T!Hand \cup {T!NoHand} /\ screen.missing \in T!Labels \cup {None}
    BY PageTypes DEF T!Screen
  <1>2. c.kind = "scan" => (c.answer = "good" \/ (c.answer = "bad" /\ T!task \in T!OneScan) => c.item \in Items)
    BY DEF PageInv, ScansAsTaken
  <1>3. c.item \in Items => T!Taken(c) \in T!Hand /\ [T!Taken(c) EXCEPT !.open = FALSE] \in T!Hand
    BY <1>1, TakenHand
  <1>4. T!AfterCommit(c) = screen.hand \/ T!AfterCommit(c) = T!NoHand
    BY DEF T!AfterCommit
  <1>5. c.kind = "scan" => T!AfterScan(c) \in T!Hand \cup {T!NoHand}
    BY <1>1, <1>2, <1>3 DEF T!AfterScan
  <1>6. c.kind = "scan" /\ T!task \in T!OneScan => T!View(c) \in T!Hand \cup {T!NoHand}
    BY <1>2, <1>3 DEF T!View
  <1>7. T!Tone(c) \in {"none", "ok", "bad", "info"}
    BY DEF T!Tone
  <1> QED
    BY <1>1, <1>4, <1>5, <1>6, <1>7 DEF T!Call

LEMMA TwoStepsHeeded ==
    ASSUME PageInv, NEW c \in calls, T!task \in T!TwoScans, NEW again \in BOOLEAN,
           T!TwoStepsAnswered(c, again)
    PROVE  Heeded(c)
  <1>1. outcome' \in Outcomes
    BY HandsTaken, SaysOutcome DEF T!TwoStepsAnswered
  <1>2. CASE c.kind = "scan" /\ T!Reacts(c, T!AfterScan(c), None, FALSE)
    <2>1. /\ screen' \in T!Screen /\ screen'.hand = T!AfterScan(c)
          /\ \/ calls' = calls \ {c}
             \/ calls' = (calls \ {c}) \cup {Refresh(c)} /\ screen'.busy
      BY <1>2, HandsTaken, ReactsTo
    <2> QED
      BY <1>1, <1>2, <2>1 DEF Heeded, T!AfterScan, Asked
  <1>3. CASE c.kind = "commit" /\ T!Reacts(c, T!AfterCommit(c), None, again /\ c.answer = "ok")
    <2>1. /\ screen' \in T!Screen /\ screen'.hand = T!AfterCommit(c)
          /\ \/ calls' = calls \ {c}
             \/ calls' = (calls \ {c}) \cup {Refresh(c)} /\ screen'.busy
      BY <1>3, HandsTaken, ReactsTo
    <2> QED
      BY <1>1, <1>3, <2>1, HandsTaken DEF Heeded, Asked
  <1> QED
    BY <1>2, <1>3 DEF T!TwoStepsAnswered

LEMMA OneScanHeeded ==
    ASSUME PageInv, NEW c \in calls, T!PackingAnswered(c) \/ T!ShippingAnswered(c)
    PROVE  Heeded(c)
  <1>1. outcome' \in Outcomes /\ T!task \in T!OneScan
    BY HandsTaken, SaysOutcome DEF T!PackingAnswered, T!ShippingAnswered, T!OneScan
  <1>2. CASE c.kind = "scan" /\ T!Reacts(c, T!View(c), None, FALSE)
    <2>1. /\ screen' \in T!Screen /\ screen'.hand = T!View(c)
          /\ \/ calls' = calls \ {c}
             \/ calls' = (calls \ {c}) \cup {Refresh(c)} /\ screen'.busy
      BY <1>1, <1>2, HandsTaken, ReactsTo
    <2> QED
      BY <1>1, <1>2, <2>1 DEF Heeded, T!View, Asked
  <1>3. CASE c.kind = "commit" /\ T!Reacts(c, T!AfterCommit(c), None, FALSE)
    <2>1. /\ screen' \in T!Screen /\ screen'.hand = T!AfterCommit(c)
          /\ \/ calls' = calls \ {c}
             \/ calls' = (calls \ {c}) \cup {Refresh(c)} /\ screen'.busy
      BY <1>3, HandsTaken, ReactsTo
    <2> QED
      BY <1>1, <1>3, <2>1, HandsTaken DEF Heeded, Asked
  <1> QED
    BY <1>2, <1>3 DEF T!PackingAnswered, T!ShippingAnswered

LEMMA StorageHeeded ==
    ASSUME PageInv, NEW c \in calls, T!ProductAnswered(c) \/ T!ContainerAnswered(c)
    PROVE  Heeded(c)
  <1>1. outcome' \in Outcomes /\ T!task \in T!TwoScans
    BY HandsTaken, SaysOutcome DEF T!ProductAnswered, T!ContainerAnswered, T!TwoScans
  <1>2. CASE T!ProductAnswered(c)
    <2>1. PICK missing : /\ missing = CASE c.answer = "good" -> None
                                        [] c.answer = "missing" -> c.item
                                        [] OTHER -> screen.missing
                         /\ T!Reacts(c, T!AfterScan(c), missing, FALSE)
      BY <1>2 DEF T!ProductAnswered
    <2>2. missing \in T!Labels \cup {None} /\ c.kind = "scan"
      BY <1>2, <2>1, HandsTaken DEF T!ProductAnswered
    <2>3. /\ screen' \in T!Screen /\ screen'.hand = T!AfterScan(c)
          /\ \/ calls' = calls \ {c}
             \/ calls' = (calls \ {c}) \cup {Refresh(c)} /\ screen'.busy
      BY <2>1, <2>2, HandsTaken, ReactsTo
    <2> QED
      BY <1>1, <2>2, <2>3 DEF Heeded, T!AfterScan, Asked
  <1>3. CASE T!ContainerAnswered(c)
    <2>1. c.kind = "commit" /\ T!Reacts(c, T!AfterCommit(c), screen.missing, TRUE)
      BY <1>3 DEF T!ContainerAnswered
    <2>2. /\ screen' \in T!Screen /\ screen'.hand = T!AfterCommit(c)
          /\ \/ calls' = calls \ {c}
             \/ calls' = (calls \ {c}) \cup {Refresh(c)} /\ screen'.busy
      BY <2>1, HandsTaken, ReactsTo
    <2> QED
      BY <1>1, <2>1, <2>2, HandsTaken DEF Heeded, Asked
  <1> QED
    BY <1>2, <1>3

LEMMA ButtonsHeeded ==
    ASSUME PageInv, NEW c \in calls, T!BinAnswered(c) \/ T!ReviewAnswered(c) \/ T!RapportAnswered(c)
    PROVE  Heeded(c)
  <1>1. outcome' \in Outcomes
    BY HandsTaken, SaysOutcome DEF T!BinAnswered, T!ReviewAnswered, T!RapportAnswered
  <1>2. c.kind \in {"bin", "review", "report"}
    BY DEF T!BinAnswered, T!ReviewAnswered, T!RapportAnswered
  <1>3. CASE T!BinAnswered(c) \/ T!ReviewAnswered(c)
    <2>1. PICK again \in BOOLEAN, missing \in {None, screen.missing} :
             T!Reacts(c, screen.hand, missing, again)
      BY <1>3 DEF T!BinAnswered, T!ReviewAnswered
    <2>2. /\ screen' \in T!Screen /\ screen'.hand = screen.hand
          /\ \/ calls' = calls \ {c}
             \/ calls' = (calls \ {c}) \cup {Refresh(c)} /\ screen'.busy
      BY <2>1, HandsTaken, ReactsTo
    <2> QED
      BY <1>1, <1>2, <2>2 DEF Heeded, Asked
  <1>4. CASE T!RapportAnswered(c)
    <2>1. /\ screen' = [screen EXCEPT !.busy = FALSE, !.reported = @ \/ c.answer = "ok"]
          /\ calls' = calls \ {c}
      BY <1>4 DEF T!RapportAnswered
    <2>2. PICK b \in BOOLEAN : b = (screen.reported \/ c.answer = "ok")
      OBVIOUS
    <2>3. screen' = [screen EXCEPT !.busy = FALSE, !.reported = b]
      BY <2>1, <2>2
    <2>4. screen' \in T!Screen /\ screen'.hand = screen.hand
      BY <2>3, PageTypes DEF T!Screen
    <2> QED
      BY <1>1, <1>2, <2>1, <2>4 DEF Heeded, Asked
  <1> QED
    BY <1>3, <1>4

LEMMA ListsHeeded ==
    ASSUME PageInv, NEW c \in calls,
           T!SessionAnswered(c) \/ T!CardAnswered(c) \/ T!CardsAnswered(c) \/ T!ListsAnswered(c)
    PROVE  Heeded(c)
  <1>0. /\ screen \in T!Screen /\ outcome \in Outcomes /\ c \in T!Call
        /\ screen.phase \in {"away", "loading", "error", "closed", "open", "done"}
        /\ T!SessionPhase(c) \in {"away", "loading", "error", "closed", "open", "done"}
    BY PageTypes DEF T!Screen, T!SessionPhase
  <1>1. CASE T!SessionAnswered(c)
    <2>1. CASE c.kind \in {"start", "finish"}
      <3>1. PICK phase \in {"away", "loading", "error", "closed", "open", "done"} : T!Ends(c, phase)
        BY <1>0, <1>1, <2>1 DEF T!SessionAnswered
      <3> QED
        BY <2>1, <3>1, EndsSo DEF Heeded, Asked
    <2>2. CASE c.kind = "resume"
      <3>1. /\ screen' = [screen EXCEPT !.phase = T!SessionPhase(c)]
            /\ calls' = calls \ {c} /\ UNCHANGED outcome
        BY <1>1, <2>2 DEF T!SessionAnswered
      <3>2. screen' \in T!Screen /\ screen'.hand = screen.hand /\ screen'.busy = screen.busy
        BY <1>0, <3>1 DEF T!Screen
      <3> QED
        BY <1>0, <2>2, <3>1, <3>2 DEF Heeded
    <2> QED
      BY <1>1, <2>1, <2>2 DEF T!SessionAnswered
  <1>2. CASE T!CardAnswered(c)
    <2>1. /\ c.kind = "commit" /\ calls' = calls \ {c} /\ UNCHANGED outcome
      BY <1>2 DEF T!CardAnswered
    <2>2. /\ screen' \in T!Screen
          /\ screen'.hand = screen.hand \/ screen'.hand = T!NoHand
      BY <1>0, <1>2 DEF T!CardAnswered, T!Screen, T!Call
    <2> QED
      BY <1>0, <2>1, <2>2 DEF Heeded, Asked
  <1>3. CASE T!CardsAnswered(c)
    <2>1. /\ c.kind = "cards" /\ calls' = calls \ {c} /\ UNCHANGED outcome
      BY <1>3 DEF T!CardsAnswered
    <2>2. screen' \in T!Screen /\ screen'.hand = screen.hand /\ screen'.busy = screen.busy
      BY <1>0, <1>3 DEF T!CardsAnswered, T!Screen, T!Call
    <2> QED
      BY <1>0, <2>1, <2>2 DEF Heeded
  <1>4. CASE T!ListsAnswered(c)
    <2>1. c.kind = "refresh" /\ T!Ends(c, screen.phase)
      BY <1>4 DEF T!ListsAnswered
    <2> QED
      BY <1>0, <2>1, EndsSo DEF Heeded, Asked
  <1> QED
    BY <1>1, <1>2, <1>3, <1>4

LEMMA HeardHeeded ==
    ASSUME PageInv, NEW c \in calls, T!Heard(c)
    PROVE  Heeded(c)
  <1>1. CASE T!SortingAnswered(c) \/ T!OrderAnswered(c) \/ T!PutawayAnswered(c)
    BY <1>1, TwoStepsHeeded DEF T!SortingAnswered, T!OrderAnswered, T!PutawayAnswered, T!TwoScans
  <1> QED
    BY <1>1, OneScanHeeded, StorageHeeded, ButtonsHeeded, ListsHeeded DEF T!Heard

LEMMA HeardKeeps ==
    ASSUME PageInv, NEW c \in calls, c.mine, c.answer # "none", T!Heard(c),
           UNCHANGED <<day, server, last, left>>
    PROVE  PageInv'
  <1>1. Heeded(c)
    BY HeardHeeded
  <1>2. /\ c \in T!Call /\ day \in Days /\ screen \in T!Screen /\ accepted \in [Items -> Nat]
        /\ last \in Items \cup {None} /\ calls \subseteq T!Call
        /\ c.item \in Items => c.item \in T!Labels
    BY PageTypes, TerminalAssumption DEF T!Call, T!TasksAssumption
  <1>3. PICK r : r = Refresh(c)
    OBVIOUS
  <1>4. r \in T!Call /\ r.kind = "refresh" /\ r.mine /\ r.answer = "none"
    BY <1>2, <1>3, RefreshCall
  <1>5. /\ screen' \in T!Screen /\ outcome' \in Outcomes
        /\ \/ calls' = calls \ {c}
           \/ calls' = (calls \ {c}) \cup {r} /\ screen'.busy /\ c.kind \in Asked
    BY <1>1, <1>3 DEF Heeded
  <1>6. /\ c.kind = "scan" /\ c.answer = "good" => /\ c.item \in Items
                                                   /\ accepted' = [accepted EXCEPT ![c.item] = @ + 1]
        /\ ~(c.kind = "scan" /\ c.answer = "good") => accepted' = accepted
    BY DEF PageInv, ScansAsTaken, T!Heard
  <1>7. accepted' \in [Items -> Nat] /\ \A i \in Items : accepted[i] <= accepted'[i]
    BY <1>2, <1>6
  <1>8. PagesTyped'
    BY <1>2, <1>4, <1>5, <1>7, SamePage, PageTypes DEF PageInv, PagesTyped, T!TasksTypeOK, Outcomes
  <1>9. OneAtATime'
    <2>1. /\ \A d, e \in calls : Awaited(d) /\ Awaited(e) => d = e
          /\ (\E d \in calls : Awaited(d)) => screen.busy
      BY DEF PageInv, OneAtATime
    <2>2. CASE c.kind \in Asked
      <3>1. Awaited(c)
        BY <2>2 DEF Awaited
      <3>2. \A d \in calls \ {c} : ~Awaited(d)
        BY <2>1, <3>1
      <3> QED
        BY <1>5, <3>2 DEF OneAtATime, Awaited
    <2>3. CASE c.kind \notin Asked
      <3>1. screen'.busy = screen.busy /\ calls' = calls \ {c}
        BY <1>1, <2>3 DEF Heeded
      <3> QED
        BY <2>1, <3>1 DEF OneAtATime, Awaited
    <2> QED
      BY <2>2, <2>3
  <1>10. CommitsItems'
    BY <1>4, <1>5 DEF PageInv, CommitsItems
  <1>11. c.kind = "scan" => \A d \in calls' : ~(d.kind = "scan" /\ d.mine)
    <2>1. \A d, e \in calls : Awaited(d) /\ Awaited(e) => d = e
      BY DEF PageInv, OneAtATime
    <2> QED
      BY <1>4, <1>5, <2>1 DEF Awaited, Asked
  <1>12. /\ ScansAsTaken
         /\ c.kind = "scan" /\ c.answer = "good" => /\ screen'.hand = T!Taken(c) /\ T!Taken(c).item = last
                                                    /\ T!Taken(c).item \in T!Labels
                                                    /\ T!Taken(c).open = TRUE /\ T!Taken(c) # T!NoHand
                                                    /\ T!Taken(c).op = c.op
    BY <1>1, <1>2, <1>6, TakenHand DEF PageInv, ScansAsTaken, Heeded
  <1>13. ScansAsTaken'
    <2> SUFFICES ASSUME NEW d \in calls', d.kind = "scan"
                 PROVE /\ T!task # "receiving"
                       /\ d.answer = "good" \/ (d.answer = "bad" /\ T!task \in T!OneScan) => d.item \in Items
                       /\ d.mine /\ d.item \in Items => d.item = last
                       /\ d.mine /\ T!task \in T!TwoScans => screen'.hand = T!NoHand
      BY SamePage DEF ScansAsTaken
    <2>1. d \in calls
      BY <1>4, <1>5
    <2>2. d.mine /\ T!task \in T!TwoScans => screen'.hand = T!NoHand
      BY <1>1, <1>11, <1>12, <2>1 DEF ScansAsTaken, Heeded
    <2> QED
      BY <1>12, <2>1, <2>2 DEF ScansAsTaken
  <1>14. HandIsLast' /\ HandIsOpen'
    <2>1. CASE c.kind = "scan" /\ c.answer = "good"
      BY <1>12, <2>1, SamePage DEF HandIsLast, HandIsOpen
    <2>2. CASE c.kind = "scan" /\ c.answer # "good"
      <3>1. CASE screen'.hand = T!NoHand
        BY <3>1 DEF HandIsLast, HandIsOpen
      <3>2. CASE T!task \in T!TwoScans /\ screen'.hand = screen.hand
        BY <1>12, <2>2, <3>2 DEF ScansAsTaken, HandIsLast, HandIsOpen
      <3>3. CASE /\ T!task \in T!OneScan /\ c.answer = "bad"
                 /\ screen'.hand = [T!Taken(c) EXCEPT !.open = FALSE]
        <4>1. c.item \in Items /\ c.item = last
          BY <1>12, <2>2, <3>3 DEF ScansAsTaken
        <4>2. screen'.hand.item = c.item
          BY <3>3 DEF T!Taken
        <4> QED
          BY <1>2, <3>3, <4>1, <4>2, SamePage DEF HandIsLast, HandIsOpen
      <3> QED
        BY <1>1, <2>2, <3>1, <3>2, <3>3 DEF Heeded
    <2>3. CASE c.kind # "scan"
      <3>1. screen'.hand = screen.hand \/ screen'.hand = T!NoHand
        BY <1>1, <2>3 DEF Heeded
      <3> QED
        BY <1>5, <2>3, <3>1, SamePage DEF PageInv, HandIsLast, HandIsOpen
    <2> QED
      BY <2>1, <2>2, <2>3
  <1>15. HandledOnce'
    <2> SUFFICES ASSUME T!task \notin {"storage", "receiving"}
                 PROVE  /\ \A i \in Items : server.count[i] \in {0, 1} /\ server.count[i] <= accepted'[i]
                        /\ screen'.hand.open => accepted'[screen'.hand.item] >= 1
                        /\ \A d \in calls' : d.kind = "commit" /\ d.answer = "none" => accepted'[d.item] >= 1
      BY SamePage DEF HandledOnce
    <2>1. /\ \A i \in Items : server.count[i] \in {0, 1} /\ server.count[i] <= accepted[i]
          /\ screen.hand.open => accepted[screen.hand.item] >= 1
          /\ \A d \in calls : d.kind = "commit" /\ d.answer = "none" => accepted[d.item] >= 1
      BY DEF PageInv, HandledOnce
    <2>2. \A i \in Items : accepted[i] \in Nat /\ accepted'[i] \in Nat /\ server.count[i] \in Nat
      BY <1>2, <1>7, <2>1
    <2>3. \A i \in Items : server.count[i] \in {0, 1} /\ server.count[i] <= accepted'[i]
      BY <1>7, <2>1, <2>2
    <2>4. \A d \in calls' : d.kind = "commit" /\ d.answer = "none" => accepted'[d.item] >= 1
      <3> SUFFICES ASSUME NEW d \in calls', d.kind = "commit", d.answer = "none"
                   PROVE  accepted'[d.item] >= 1
        OBVIOUS
      <3>1. d \in calls /\ d.item \in Items
        BY <1>4, <1>5 DEF PageInv, CommitsItems
      <3>2. accepted[d.item] >= 1
        BY <2>1, <3>1
      <3> QED
        BY <1>7, <2>2, <3>1, <3>2
    <2>5. screen'.hand.open => accepted'[screen'.hand.item] >= 1
      <3>1. CASE screen'.hand = screen.hand
        <4>1. screen.hand.open => screen.hand.item \in Items
          BY <1>2, HandFields
        <4> QED
          BY <1>7, <2>1, <2>2, <3>1, <4>1
      <3>2. CASE screen'.hand = T!NoHand \/ screen'.hand = [T!Taken(c) EXCEPT !.open = FALSE]
        BY <3>2 DEF T!NoHand, T!Taken
      <3>3. CASE c.kind = "scan" /\ c.answer = "good"
        <4>1. screen'.hand.item = c.item /\ c.item \in Items
          BY <1>6, <1>12, <3>3 DEF T!Taken
        <4> QED
          BY <1>2, <1>6, <2>2, <3>3, <4>1
      <3> QED
        BY <1>1, <3>1, <3>2, <3>3 DEF Heeded
    <2> QED
      BY <2>3, <2>4, <2>5
  <1>16. StoredOnce'
    <2> SUFFICES ASSUME T!task = "storage", NEW i \in Items
                 PROVE  server.count[i] + Cardinality(Pending(i)') <= accepted'[i]
      BY SamePage DEF StoredOnce
    <2>1. server.count[i] + Cardinality(Pending(i)) <= accepted[i]
      BY DEF PageInv, StoredOnce
    <2>2. IsFiniteSet(Pending(i)) /\ Cardinality(Pending(i)) \in Nat
      BY <1>2, PendingFinite
    <2>3. /\ accepted[i] \in Nat /\ accepted'[i] \in Nat /\ accepted[i] <= accepted'[i]
          /\ server.count[i] \in Nat
      BY <1>2, <1>7, PageTypes
    <2>4. CASE c.kind = "scan" /\ c.answer = "good" /\ c.item = i
      <3>1. Pending(i)' \subseteq Pending(i) \cup {c.op}
        BY <1>4, <1>5, <1>12, <2>4, SamePage DEF Pending, OpenCommit
      <3>2. /\ IsFiniteSet(Pending(i) \cup {c.op})
            /\ Cardinality(Pending(i) \cup {c.op}) <= Cardinality(Pending(i)) + 1
            /\ Cardinality(Pending(i) \cup {c.op}) \in Nat
        <4>1. /\ IsFiniteSet(Pending(i) \cup {c.op})
              /\ Cardinality(Pending(i) \cup {c.op}) = IF c.op \in Pending(i) THEN Cardinality(Pending(i))
                                                       ELSE Cardinality(Pending(i)) + 1
          BY <2>2, FS_AddElement
        <4> QED
          BY <2>2, <4>1
      <3>3. Cardinality(Pending(i)') <= Cardinality(Pending(i)) + 1 /\ Cardinality(Pending(i)') \in Nat
        <4>1. /\ IsFiniteSet(Pending(i)')
              /\ Cardinality(Pending(i)') <= Cardinality(Pending(i) \cup {c.op})
          BY <3>1, <3>2, FS_Subset
        <4> QED
          BY <2>2, <3>2, <4>1, FS_CardinalityType
      <3>4. accepted'[i] = accepted[i] + 1
        BY <1>2, <1>6, <2>4
      <3> QED
        BY <2>1, <2>2, <2>3, <3>3, <3>4
    <2>5. CASE ~(c.kind = "scan" /\ c.answer = "good" /\ c.item = i)
      <3>1. Pending(i)' \subseteq Pending(i)
        <4> SUFFICES ASSUME NEW op \in Pending(i)' PROVE op \in Pending(i)
          OBVIOUS
        <4>1. op \in T!Ops \ server.ops
          BY SamePage DEF Pending
        <4>2. CASE screen'.hand # T!NoHand /\ screen'.hand.item = i /\ screen'.hand.op = op
          <5>1. screen'.hand = screen.hand
            <6>1. ~(c.kind = "scan" /\ c.answer = "good")
              BY <1>12, <2>5, <4>2 DEF T!Taken
            <6>2. T!task \notin T!OneScan
              BY DEF T!OneScan
            <6> QED
              BY <1>1, <4>2, <6>1, <6>2 DEF Heeded
          <5> QED
            BY <4>1, <4>2, <5>1 DEF Pending
        <4>3. CASE \E d \in calls' : OpenCommit(d, i) /\ d.op = op
          BY <1>4, <1>5, <4>1, <4>3 DEF Pending, OpenCommit
        <4> QED
          BY <4>2, <4>3 DEF Pending
      <3>2. Cardinality(Pending(i)') <= Cardinality(Pending(i)) /\ Cardinality(Pending(i)') \in Nat
        BY <2>2, <3>1, FS_Subset, FS_CardinalityType
      <3> QED
        BY <2>1, <2>2, <2>3, <3>2
    <2> QED
      BY <2>4, <2>5
  <1> QED
    BY <1>8, <1>9, <1>10, <1>13, <1>14, <1>15, <1>16 DEF PageInv

-----------------------------------------------------------------------------
(* The pages of the terminal: every step                                   *)

LEMMA AskDecisionKeeps ==
    ASSUME PageInv, ~screen.busy, NEW l \in T!Labels, T!AskDecision(l), T!task # "receiving",
           T!task \in T!TwoScans => screen.hand = T!NoHand
    PROVE  PageInv' /\ CommitsLast
  <1>1. /\ T!Request("scan", l, None, T!Fresh) /\ T!Waits /\ T!Noted(l)
        /\ UNCHANGED <<day, outcome, server, accepted>>
    BY DEF T!AskDecision
  <1>2. /\ left' \in T!Bounds /\ left'.tries <= day.bounds.tries /\ T!Ask("scan", l, None, T!Fresh)
        /\ T!Fresh \in T!Ops /\ day \in Days /\ None \in T!Labels \cup {None} /\ l \in T!Labels \cup {None}
    BY <1>1, RequestLeft, PageTypes DEF T!Fresh
  <1>3. PICK r : r = New("scan", l, None, T!Fresh)
    OBVIOUS
  <1>4. /\ r \in T!Call /\ calls' = calls \cup {r} /\ r.kind = "scan" /\ r.item = l
        /\ r.mine /\ r.answer = "none"
    BY <1>2, <1>3, NewCall
  <1>5. PageInv'
    BY <1>1, <1>2, <1>4, ScanKeeps
  <1> QED
    BY <1>4, <1>5 DEF CommitsLast

LEMMA CommitStepKeeps ==
    ASSUME PageInv, ~screen.busy, NEW place \in T!Labels \cup {None}, T!Commit(place),
           screen.hand # T!NoHand, screen.hand.open
    PROVE  PageInv' /\ CommitsLast
  <1> DEFINE h == screen.hand
  <1>0. /\ h \in T!Hand /\ h.item \in Items /\ h.op \in T!Ops /\ T!Fresh \in T!Ops /\ day \in Days
        /\ screen \in T!Screen
    BY PageTypes, HandFields DEF T!Fresh
  <1>1. /\ T!Request("commit", h.item, place, T!OperationOf(h)) /\ T!Waits /\ T!Quietly
    BY DEF T!Commit
  <1>2. /\ left' \in T!Bounds /\ left'.tries <= day.bounds.tries
        /\ T!Ask("commit", h.item, place, T!OperationOf(h))
    BY <1>1, RequestLeft
  <1>3. T!OperationOf(h) \in T!Ops /\ (T!task = "storage" => T!OperationOf(h) = h.op)
    BY <1>0 DEF T!OperationOf
  <1>4. PICK r : r = New("commit", h.item, place, T!OperationOf(h))
    OBVIOUS
  <1>5. h.item \in T!Labels \cup {None}
    BY DEF PageInv, HandIsOpen
  <1>6. /\ r \in T!Call /\ calls' = calls \cup {r} /\ r.kind = "commit" /\ r.item = h.item
        /\ r.op = T!OperationOf(h) /\ r.mine /\ r.answer = "none"
    BY <1>0, <1>2, <1>3, <1>4, <1>5, NewCall
  <1>7. PageInv'
    BY <1>1, <1>2, <1>3, <1>6, AskKeeps
  <1>8. h.item = last
    BY DEF PageInv, HandIsLast, OneAtATime, Awaited, Asked
  <1> QED
    BY <1>6, <1>7, <1>8 DEF CommitsLast

(* A request that is no commit.                                            *)
LEMMA ButtonKeeps ==
    ASSUME PageInv, ~screen.busy, NEW kind \in {"bin", "start", "finish", "review", "report"},
           NEW code \in T!Labels \cup {None}, NEW op \in T!Ops,
           T!Request(kind, code, None, op), T!Waits, T!Quietly
    PROVE  PageInv' /\ CommitsLast
  <1>1. /\ left' \in T!Bounds /\ left'.tries <= day.bounds.tries /\ T!Ask(kind, code, None, op)
        /\ day \in Days /\ None \in T!Labels \cup {None}
    BY RequestLeft, PageTypes
  <1>2. PICK r : r = New(kind, code, None, op)
    OBVIOUS
  <1>3. /\ r \in T!Call /\ calls' = calls \cup {r} /\ r.kind = kind /\ r.mine /\ r.answer = "none"
    BY <1>1, <1>2, NewCall
  <1>4. PageInv'
    BY <1>1, <1>3, AskKeeps
  <1> QED
    BY <1>3, <1>4 DEF CommitsLast

LEMMA FeedKeeps ==
    ASSUME PageInv, NEW kind \in {"resume", "cards"}, T!Ask(kind, None, None, 0),
           UNCHANGED <<day, outcome, server, accepted, last>>,
           screen' \in T!Screen, screen'.busy = screen.busy, screen'.hand = screen.hand,
           left' \in T!Bounds, left'.tries <= day.bounds.tries
    PROVE  PageInv' /\ CommitsLast
  <1>1. day \in Days /\ 0 \in T!Ops /\ None \in T!Labels \cup {None}
    BY PageTypes, DayFields
  <1>2. PICK r : r = New(kind, None, None, 0)
    OBVIOUS
  <1>3. /\ r \in T!Call /\ calls' = calls \cup {r} /\ r.kind = kind /\ r.answer = "none"
    BY <1>1, <1>2, NewCall
  <1>4. PageInv'
    BY <1>3, BackgroundKeeps
  <1> QED
    BY <1>3, <1>4 DEF CommitsLast

LEMMA CardMatched ==
    ASSUME PageInv, T!task = "receiving", NEW l \in T!Labels, NEW cards \in SUBSET Items,
           T!MatchCard(l, cards)
    PROVE  PageInv' /\ CommitsLast
  <1>1. PageInv'
    BY MatchKeeps
  <1>2. calls' = calls \/ calls' = calls \cup {New("cards", None, None, 0)}
    BY DEF T!MatchCard, T!Request, T!Ask, New
  <1> QED
    BY <1>1, <1>2 DEF CommitsLast, New

LEMMA SubmitKeeps ==
    ASSUME PageInv, NEW l \in T!Labels, T!Submit(l)
    PROVE  PageInv' /\ CommitsLast
  <1>0. /\ screen \in T!Screen /\ day \in Days /\ screen.cards \in SUBSET Items
        /\ left \in T!Bounds /\ outcome \in Outcomes
    BY PageTypes DEF T!Screen
  <1>1. CASE T!Busy /\ UNCHANGED T!screenVars
    <2>1. UNCHANGED <<day, screen, calls, outcome, server, last, accepted, left>>
      BY <1>1 DEF T!screenVars
    <2>2. PageInv'
      BY <1>0, <2>1, ScreenKeeps
    <2> QED
      BY <2>1, <2>2 DEF CommitsLast
  <1>2. CASE ~T!Busy /\ (T!SortingSubmit(l) \/ T!OrderSubmit(l) \/ T!SubmitCode(l) \/ T!ProductScan(l)
                         \/ T!ContainerScan(l) \/ T!ScanBin(l) \/ T!ScanShipment(l))
    <2>1. ~screen.busy /\ T!task # "receiving"
      BY <1>2
      DEF T!Busy, T!SortingSubmit, T!OrderSubmit, T!SubmitCode, T!ProductScan, T!ContainerScan, T!ScanBin,
          T!ScanShipment
    <2>2. CASE T!AskDecision(l) /\ (T!task \in T!TwoScans => screen.hand = T!NoHand)
      BY <2>1, <2>2, AskDecisionKeeps
    <2>3. CASE T!Commit(l) /\ screen.hand # T!NoHand /\ T!task \in T!TwoScans
      <3>1. screen.hand.open
        BY <2>3 DEF PageInv, HandIsOpen, T!TwoScans, T!OneScan
      <3> QED
        BY <2>1, <2>3, <3>1, CommitStepKeeps
    <2> QED
      BY <1>2, <2>2, <2>3
      DEF T!SortingSubmit, T!OrderSubmit, T!SubmitCode, T!ProductScan, T!ContainerScan, T!ScanBin,
          T!ScanShipment, T!TwoSteps, T!TwoScans
  <1>3. CASE T!HandleScan(l)
    BY <1>0, <1>3, CardMatched DEF T!HandleScan
  <1> QED
    BY <1>1, <1>2, <1>3 DEF T!Submit

LEMMA ScreenStepKeeps ==
    ASSUME PageInv, UNCHANGED <<day, calls, server, last, accepted>>,
           screen' \in T!Screen, screen'.busy = screen.busy,
           screen'.hand = screen.hand \/ screen'.hand = T!NoHand,
           outcome' \in Outcomes, left' \in T!Bounds, left'.tries = left.tries
    PROVE  PageInv' /\ CommitsLast
  BY ScreenKeeps DEF CommitsLast

LEMMA WorkerKeeps ==
    ASSUME PageInv, T!WorkerStep
    PROVE  PageInv' /\ CommitsLast
  <1>0. /\ screen \in T!Screen /\ day \in Days /\ left \in T!Bounds /\ outcome \in Outcomes
        /\ left.tries <= day.bounds.tries /\ None \in T!Labels \cup {None}
        /\ T!Fresh \in T!Ops /\ 0 \in T!Ops
    BY PageTypes, DayFields DEF T!Fresh, PageInv, PagesTyped
  <1>1. CASE T!Enter
    <2>0. T!Quietly /\ UNCHANGED left
      BY <1>1 DEF T!Enter
    <2>1. CASE T!task \in {"putaway", "receiving"}
      <3>1. PICK kind \in {"resume", "cards"} : T!Ask(kind, None, None, 0)
        BY <1>1, <2>1 DEF T!Enter
      <3>2. screen' = [screen EXCEPT !.phase = "loading"]
        BY <1>1, <2>1 DEF T!Enter
      <3>3. screen' \in T!Screen /\ screen'.busy = screen.busy /\ screen'.hand = screen.hand
        BY <1>0, <3>2 DEF T!Screen
      <3> QED
        BY <1>0, <2>0, <3>1, <3>3, FeedKeeps DEF T!Quietly
    <2>2. CASE T!task \notin {"putaway", "receiving"}
      <3>1. screen' = [screen EXCEPT !.phase = "open"] /\ UNCHANGED calls
        BY <1>1, <2>2 DEF T!Enter
      <3>2. screen' \in T!Screen /\ screen'.busy = screen.busy /\ screen'.hand = screen.hand
        BY <1>0, <3>1 DEF T!Screen
      <3> QED
        BY <1>0, <2>0, <3>1, <3>2, ScreenStepKeeps DEF T!Quietly
    <2> QED
      BY <2>1, <2>2
  <1>2. CASE T!DoPack \/ T!Dispatch \/ T!ConfirmCard
    <2>1. /\ T!Commit(None) /\ ~screen.busy
          /\ screen.hand.open \/ (T!task = "receiving" /\ screen.hand # T!NoHand)
      BY <1>0, <1>2, ControlsWait DEF T!DoPack, T!Dispatch, T!ConfirmCard
    <2>2. screen.hand # T!NoHand /\ screen.hand.open
      BY <1>0, <2>1, HandFields DEF PageInv, HandIsOpen, T!OneScan
    <2> QED
      BY <1>0, <2>1, <2>2, CommitStepKeeps
  <1>3. CASE T!ClearHand
    <2>1. /\ screen' = [screen EXCEPT !.hand = T!NoHand, !.missing = None]
          /\ UNCHANGED <<day, calls, server, last, accepted, left>>
          /\ UNCHANGED outcome \/ outcome' = [outcome EXCEPT !.kind = "none"]
      BY <1>3 DEF T!ClearHand
    <2>2. screen' \in T!Screen /\ screen'.busy = screen.busy /\ screen'.hand = T!NoHand
      BY <1>0, <2>1 DEF T!Screen
    <2>3. outcome' \in Outcomes
      BY <1>0, <2>1 DEF Outcomes
    <2> QED
      BY <1>0, <2>1, <2>2, <2>3, ScreenStepKeeps
  <1>4. CASE T!SwitchLane
    <2>1. /\ screen' = [screen EXCEPT !.phase = IF @ = "open" THEN "closed" ELSE "open", !.hand = T!NoHand]
          /\ T!Quietly /\ UNCHANGED <<calls, left>>
      BY <1>4 DEF T!SwitchLane
    <2>2. screen' \in T!Screen /\ screen'.busy = screen.busy /\ screen'.hand = T!NoHand
      BY <1>0, <2>1 DEF T!Screen
    <2> QED
      BY <1>0, <2>1, <2>2, ScreenStepKeeps DEF T!Quietly
  <1>5. CASE T!AskBin \/ T!StartSession \/ T!Finish \/ T!SendToReview \/ T!SubmitRapport
    <2>1. screen.missing \in T!Labels \cup {None}
      BY <1>0 DEF T!Screen
    <2>2. ~screen.busy /\ T!Waits /\ T!Quietly
      BY <1>0, <1>5, ControlsWait DEF T!AskBin, T!StartSession, T!Finish, T!SendToReview, T!SubmitRapport
    <2>3. PICK kind \in {"bin", "start", "finish", "review", "report"},
               code \in T!Labels \cup {None}, op \in T!Ops : T!Request(kind, code, None, op)
      BY <1>0, <1>5, <2>1 DEF T!AskBin, T!StartSession, T!Finish, T!SendToReview, T!SubmitRapport
    <2> QED
      BY <2>2, <2>3, ButtonKeeps
  <1>6. CASE T!Retry
    <2>1. /\ T!Request("resume", None, None, 0) /\ T!Quietly
          /\ screen' = [screen EXCEPT !.phase = "closed"]
      BY <1>6 DEF T!Retry
    <2>2. screen' \in T!Screen /\ screen'.busy = screen.busy /\ screen'.hand = screen.hand
      BY <1>0, <2>1 DEF T!Screen
    <2> QED
      BY <2>1, <2>2, RequestLeft, FeedKeeps DEF T!Quietly
  <1>7. CASE T!Poll
    <2>1. T!Request("cards", None, None, 0) /\ UNCHANGED screen /\ T!Quietly
      BY <1>7 DEF T!Poll
    <2> QED
      BY <1>0, <2>1, RequestLeft, FeedKeeps DEF T!Quietly
  <1>8. ASSUME NEW l \in T!Labels, T!TypeIn(l) \/ T!PickRow(l) PROVE PageInv' /\ CommitsLast
    BY <1>8, SubmitKeeps DEF T!TypeIn, T!PickRow
  <1> QED
    BY <1>1, <1>2, <1>3, <1>4, <1>5, <1>6, <1>7, <1>8 DEF T!WorkerStep

(* An answer that nobody hears.                                            *)
LEMMA UnheardKeeps ==
    ASSUME PageInv, NEW c \in calls, ~c.mine, calls' = calls \ {c},
           UNCHANGED <<day, screen, outcome, server, last, accepted, left>>
    PROVE  PageInv' /\ CommitsLast
  <1>1. PagesTyped'
    BY SamePage, PageTypes DEF PageInv, PagesTyped, T!TasksTypeOK, Outcomes
  <1>2. OneAtATime' /\ CommitsItems' /\ ScansAsTaken' /\ HandIsLast' /\ HandIsOpen'
    BY SamePage
    DEF PageInv, OneAtATime, CommitsItems, Awaited, ScansAsTaken, HandIsLast, HandIsOpen
  <1>3. HandledOnce'
    BY SamePage DEF PageInv, HandledOnce
  <1>4. StoredOnce'
    <2>1. \A i \in Items : Pending(i)' \subseteq Pending(i)
      BY SamePage DEF Pending, OpenCommit
    <2> QED
      BY <2>1, PendingShrinks
  <1> QED
    BY <1>1, <1>2, <1>3, <1>4 DEF PageInv, CommitsLast

LEMMA WireKeeps ==
    ASSUME PageInv, T!WireStep
    PROVE  PageInv' /\ CommitsLast
  <1>1. ASSUME NEW c \in calls, T!Answered(c) PROVE PageInv' /\ CommitsLast
    <2>1. c.answer # "none" /\ UNCHANGED <<day, server, last, left>>
      BY <1>1 DEF T!Answered
    <2>2. CASE c.mine /\ T!Heard(c)
      <3>1. PageInv'
        BY <2>1, <2>2, HeardKeeps
      <3>2. calls' = calls \ {c} \/ calls' = (calls \ {c}) \cup {Refresh(c)}
        BY <2>2, HeardHeeded DEF Heeded
      <3>3. \A r : r = Refresh(c) => r.kind = "refresh"
        <4>1. c \in T!Call /\ day \in Days
          BY PageTypes
        <4> QED
          BY <4>1, RefreshCall
      <3> QED
        BY <3>1, <3>2, <3>3 DEF CommitsLast
    <2>3. CASE ~c.mine /\ calls' = calls \ {c} /\ UNCHANGED <<screen, outcome, accepted>>
      BY <2>1, <2>3, UnheardKeeps
    <2> QED
      BY <1>1, <2>2, <2>3 DEF T!Answered
  <1>2. ASSUME NEW c \in calls, T!Serve(c) \/ T!Lose(c) PROVE PageInv' /\ CommitsLast
    BY <1>2, ServeKeeps, LoseKeeps
  <1>3. ASSUME NEW i \in Items, T!Elsewhere(i) PROVE PageInv' /\ CommitsLast
    BY <1>3, ElsewhereKeeps
  <1> QED
    BY <1>1, <1>2, <1>3 DEF T!WireStep

LEMMA LeftKeeps ==
    ASSUME PageInv, T!Leave
    PROVE  PageInv' /\ CommitsLast
  <1>1. PageInv'
    BY LeaveKeeps
  <1>2. CommitsLast
    <2> SUFFICES ASSUME NEW r \in calls' PROVE ~r.mine
      BY DEF CommitsLast
    <2>1. PICK c \in calls : r = [c EXCEPT !.mine = FALSE]
      BY DEF T!Leave
    <2>2. c \in T!Call
      BY PageTypes
    <2> QED
      BY <2>1, <2>2, DisownedCall
  <1> QED
    BY <1>1, <1>2

-----------------------------------------------------------------------------
(* The scanner over the page                                               *)

(* A loop that nobody wants any more has no votes.                         *)
CameraInv ==
    /\ overlay \in {"none", "camera", "panel"} /\ (overlay = "panel" => T!Receives)
    /\ loop \in [Loops -> T!Loop]
    /\ \A n \in Loops : loop[n].life # "wanted" => loop[n].votes = {}
    /\ held \in T!Labels \cup {None} /\ inView \in T!Labels \cup {None}
    /\ panel \in [cards : SUBSET Items, busy : BOOLEAN]

(* Steps of the scanner that leave the page, or only look at it.           *)
LEMMA LooksKeep ==
    ASSUME PageInv, UNCHANGED <<day, screen, calls, server, last, accepted>>,
           UNCHANGED outcome \/ outcome' = [outcome EXCEPT !.kind = "none"],
           UNCHANGED left \/ (left' = [left EXCEPT !.views = @ - 1] /\ left.views > 0)
    PROVE  PageInv' /\ CommitsLast
  <1>1. screen \in T!Screen /\ outcome \in Outcomes /\ left \in T!Bounds
    BY PageTypes
  <1>2. outcome' \in Outcomes
    BY <1>1 DEF Outcomes
  <1>3. left' \in T!Bounds /\ left'.tries = left.tries
    BY <1>1 DEF T!Bounds
  <1> QED
    BY <1>1, <1>2, <1>3, ScreenStepKeeps

LEMMA LoopKeepsPage ==
    ASSUME PageInv, CameraInv, NEW n \in Loops, T!LoopStep(n)
    PROVE  PageInv' /\ CommitsLast
  <1>1. CASE UNCHANGED T!screenVars
    BY <1>1, LooksKeep DEF T!screenVars
  <1>2. CASE T!HandOver(n)
    <2>1. loop[n].label \in T!Labels
      BY <1>2 DEF CameraInv, T!Loop, T!HandOver
    <2>2. screen.cards \in SUBSET Items
      BY PageTypes DEF T!Screen
    <2>3. \/ T!Submit(loop[n].label) \/ UNCHANGED T!screenVars
          \/ T!Receives /\ T!MatchCard(loop[n].label, screen.cards)
      BY <1>2 DEF T!HandOver
    <2> QED
      BY <1>1, <2>1, <2>2, <2>3, SubmitKeeps, CardMatched DEF T!Receives
  <1> QED
    BY <1>1, <1>2
    DEF T!LoopStep, T!CameraOpened, T!CameraReady, T!CameraFailed, T!Frame, T!Decoded, T!Read, T!Forget, T!OnlyLoop,
        T!Nothing, T!ReadNothing, T!Vote, T!Hold

LEMMA ScannerKeepsPage ==
    ASSUME PageInv, CameraInv, T!ScannerNext
    PROVE  PageInv' /\ CommitsLast
  <1>1. CASE T!PageBelow
    BY <1>1, WorkerKeeps, WireKeeps DEF T!PageBelow
  <1>2. CASE T!LeavePage
    BY <1>2, LeftKeeps DEF T!LeavePage
  <1>3. CASE T!OpenScanner \/ T!Exit \/ T!Restart \/ T!PickMethod \/ T!Rescan \/ T!Resume
             \/ (\E l \in T!Labels \cup {None} : T!Show(l)) \/ (\E l \in T!Labels : T!Choose(l))
    BY <1>3, LooksKeep
    DEF T!OpenScanner, T!Exit, T!Restart, T!PickMethod, T!Rescan, T!Resume, T!Show, T!Choose, T!OnlyLoop, T!screenVars
  <1>4. CASE T!Confirm
    <2>1. held \in T!Labels /\ T!Submit(held)
      BY <1>4 DEF CameraInv, T!Confirm
    <2> QED
      BY <2>1, SubmitKeeps
  <1>5. ASSUME NEW l \in T!Labels, T!HardRead(l) PROVE PageInv' /\ CommitsLast
    <2>1. panel.cards \in SUBSET Items /\ T!MatchCard(l, panel.cards) /\ T!task = "receiving"
      BY <1>5 DEF CameraInv, T!HardRead, T!Receives
    <2> QED
      BY <2>1, CardMatched
  <1>6. ASSUME NEW n \in Loops, T!LoopStep(n) PROVE PageInv' /\ CommitsLast
    BY <1>6, LoopKeepsPage
  <1> QED
    BY <1>1, <1>2, <1>3, <1>4, <1>5, <1>6 DEF T!ScannerNext

LEMMA SubmitSameDay ==
    ASSUME NEW l, T!Submit(l)
    PROVE  UNCHANGED day
  BY DEF T!Submit, T!screenVars, T!SortingSubmit, T!OrderSubmit, T!SubmitCode, T!ProductScan, T!ContainerScan,
         T!ScanBin, T!ScanShipment, T!HandleScan, T!TwoSteps, T!AskDecision, T!Commit, T!Quietly, T!MatchCard

LEMMA SameDay ==
    ASSUME T!ScannerNext
    PROVE  UNCHANGED day
  <1>1. CASE T!PageBelow
    <2>1. CASE T!WorkerStep
      <3>1. ASSUME NEW l, T!TypeIn(l) \/ T!PickRow(l) PROVE UNCHANGED day
        BY <3>1, SubmitSameDay DEF T!TypeIn, T!PickRow
      <3> QED
        BY <2>1, <3>1
        DEF T!WorkerStep, T!Enter, T!DoPack, T!Dispatch, T!ConfirmCard, T!ClearHand, T!SwitchLane, T!AskBin,
            T!StartSession, T!Retry, T!Finish, T!SendToReview, T!SubmitRapport, T!Poll, T!Commit, T!Quietly
    <2>2. CASE T!WireStep
      BY <2>2 DEF T!WireStep, T!Answered, T!Serve, T!Lose, T!Elsewhere
    <2> QED
      BY <1>1, <2>1, <2>2 DEF T!PageBelow
  <1>2. CASE T!LeavePage \/ T!OpenScanner \/ T!Exit \/ T!Restart \/ T!PickMethod \/ T!Rescan \/ T!Resume
             \/ (\E l \in T!Labels \cup {None} : T!Show(l)) \/ (\E l \in T!Labels : T!Choose(l))
             \/ (\E l \in T!Labels : T!HardRead(l))
    BY <1>2
    DEF T!LeavePage, T!Leave, T!OpenScanner, T!Exit, T!Restart, T!PickMethod, T!Rescan, T!Resume, T!Show, T!Choose,
        T!HardRead, T!MatchCard, T!OnlyLoop, T!screenVars
  <1>3. CASE T!Confirm
    BY <1>3, SubmitSameDay DEF T!Confirm
  <1>4. ASSUME NEW n \in Loops, T!LoopStep(n) PROVE UNCHANGED day
    <2>1. CASE T!HandOver(n)
      BY <2>1, SubmitSameDay DEF T!HandOver, T!MatchCard, T!screenVars
    <2>2. CASE UNCHANGED T!screenVars
      BY <2>2 DEF T!screenVars
    <2> QED
      BY <1>4, <2>1, <2>2
      DEF T!LoopStep, T!CameraOpened, T!CameraReady, T!CameraFailed, T!Frame, T!Decoded, T!Read, T!Forget, T!OnlyLoop,
          T!Nothing, T!ReadNothing, T!Vote, T!Hold
  <1> QED
    BY <1>1, <1>2, <1>3, <1>4 DEF T!ScannerNext

(* A loop, and loops, of which those that nobody wants have no votes.      *)
Tidy(r) == r \in T!Loop /\ (r.life # "wanted" => r.votes = {})
AllTidy(loops) == loops \in [Loops -> T!Loop] /\ \A n \in Loops : Tidy(loops[n])

LEMMA TidyOps ==
    ASSUME day \in Days, NEW r, Tidy(r)
    PROVE  /\ Tidy(T!Off) /\ Tidy(T!TornDown(r)) /\ T!TornDown(r).life # "wanted"
           /\ r.at = "reading" => T!TornDown(r).at = "reading"
           /\ Tidy([T!TornDown(r) EXCEPT !.life = "unmounted"])
           /\ r.at = "reading" => [T!TornDown(r) EXCEPT !.life = "unmounted"].at = "reading"
           /\ Tidy([T!Off EXCEPT !.at = "opening", !.life = "wanted"])
           /\ [T!Off EXCEPT !.at = "opening", !.life = "wanted"].at = "opening"
  <1>1. Tidy(T!Off)
    BY DEF Tidy, T!Off, T!Loop
  <1>2. /\ Tidy([T!Off EXCEPT !.at = "opening", !.life = "wanted"])
        /\ [T!Off EXCEPT !.at = "opening", !.life = "wanted"].at = "opening"
    BY DEF Tidy, T!Off, T!Loop
  <1>3. CASE T!Idling(r)
    BY <1>1, <1>2, <1>3 DEF T!TornDown, Tidy, T!Idling, T!Off, T!Loop
  <1>4. CASE ~T!Idling(r) /\ r.life = "wanted"
    <2>1. T!TornDown(r) = [r EXCEPT !.life = "stopped", !.votes = {}]
      BY <1>4 DEF T!TornDown
    <2> QED
      BY ZenonT(60), <1>1, <1>2, <2>1 DEF Tidy, T!Loop
  <1>5. CASE ~T!Idling(r) /\ r.life # "wanted"
    <2>1. T!TornDown(r) = r
      BY <1>5 DEF T!TornDown
    <2> QED
      BY <1>1, <1>2, <1>5, <2>1 DEF Tidy, T!Loop
  <1> QED
    BY <1>3, <1>4, <1>5

LEMMA OnwardTidy ==
    ASSUME day \in Days, NEW r \in T!Loop
    PROVE  Tidy(T!Onward(r))
  BY DEF Tidy, T!Onward, T!Off, T!Loop

(* The loops after a step, when `before` they were so: those that read go  *)
(* on reading.                                                             *)
ReadOn(before) ==
    /\ AllTidy(loop')
    /\ \A n \in Loops : before[n].at = "reading" => loop'[n].at # "off"

LEMMA StartTidy ==
    ASSUME day \in Days, NEW loops, AllTidy(loops), T!Start(loops)
    PROVE  ReadOn(loops) /\ held' = None
  <1>0. \A n \in Loops : Tidy(loops[n])
    BY DEF AllTidy
  <1>1. PICK m \in Loops :
           /\ T!Stopped(loops)[m] = T!Off /\ held' = None
           /\ loop' = [T!Stopped(loops) EXCEPT ![m] = [T!Off EXCEPT !.at = "opening", !.life = "wanted"]]
    BY DEF T!Start
  <1>2. PICK r : r = [T!Off EXCEPT !.at = "opening", !.life = "wanted"]
    OBVIOUS
  <1>3. Tidy(r) /\ r.at = "opening" /\ r \in T!Loop
    BY <1>0, <1>2, TidyOps DEF Tidy
  <1>4. \A n \in Loops : /\ Tidy(T!TornDown(loops[n])) /\ T!TornDown(loops[n]) \in T!Loop
                         /\ loops[n].at = "reading" => T!TornDown(loops[n]).at = "reading"
    BY <1>0, TidyOps DEF Tidy
  <1>5. loop' = [n \in Loops |-> IF n = m THEN r ELSE T!TornDown(loops[n])]
    BY <1>1, <1>2 DEF T!Stopped
  <1> QED
    BY <1>1, <1>3, <1>4, <1>5 DEF ReadOn, AllTidy

LEMMA UnmountTidy ==
    ASSUME day \in Days, NEW loops, AllTidy(loops), T!Unmount(loops)
    PROVE  ReadOn(loops) /\ held' = None
  <1>0. \A n \in Loops : Tidy(loops[n])
    BY DEF AllTidy
  <1>1. \A n \in Loops :
           loop'[n] = IF loops[n].at \in {"decoding", "reading"}
                      THEN [T!TornDown(loops[n]) EXCEPT !.life = "unmounted"] ELSE T!Off
    BY DEF T!Unmount
  <1>2. \A n \in Loops : /\ Tidy(loop'[n])
                         /\ loops[n].at = "reading" => loop'[n].at = "reading"
    BY ZenonT(60), <1>0, <1>1, TidyOps
  <1>3. loop' \in [Loops -> T!Loop]
    <2>1. \A n \in Loops : loop'[n] \in T!Loop
      BY <1>2 DEF Tidy
    <2> QED
      BY <2>1 DEF T!Unmount
  <1> QED
    BY <1>2, <1>3 DEF ReadOn, AllTidy, T!Unmount

CameraRest ==
    /\ overlay' \in {"none", "camera", "panel"} /\ (overlay' = "panel" => T!Receives)
    /\ held' \in T!Labels \cup {None}
    /\ panel' \in [cards : SUBSET Items, busy : BOOLEAN]

LEMMA FollowTidy ==
    ASSUME day \in Days, CameraInv, screen' \in T!Screen, NEW loops, AllTidy(loops), NEW state,
           NEW text \in T!Labels \cup {None}, T!Follow(loops, state, text)
    PROVE  /\ loop' \in {loop, loops} \/ ReadOn(loop) \/ ReadOn(loops)
           /\ CameraRest
  <1>0. /\ overlay \in {"none", "camera", "panel"} /\ (overlay = "panel" => T!Receives)
        /\ panel \in [cards : SUBSET Items, busy : BOOLEAN]
    BY DEF CameraInv
  <1>1. AllTidy(loop)
    BY DEF CameraInv, AllTidy, Tidy
  <1>2. CASE T!Receives /\ overlay = "none" /\ T!Wanted(screen')
    <2>1. T!Mount
      BY <1>2 DEF T!Follow
    <2>2. CASE T!Start(loop) /\ overlay' = "camera" /\ UNCHANGED panel
      BY <1>0, <1>1, <2>2, StartTidy DEF CameraRest
    <2>3. CASE /\ overlay' = "panel" /\ UNCHANGED <<loop, held>>
               /\ panel' = [cards |-> screen'.cards, busy |-> screen'.busy]
      BY <1>2, <2>3 DEF CameraRest, CameraInv, T!Screen
    <2> QED
      BY <2>1, <2>2, <2>3 DEF T!Mount
  <1>3. CASE T!Receives /\ overlay # "none" /\ ~T!Wanted(screen')
    <2>1. overlay' = "none" /\ panel' = T!NoPanel /\ T!Unmount(loops)
      BY <1>3 DEF T!Follow
    <2> QED
      BY <2>1, UnmountTidy DEF CameraRest, T!NoPanel
  <1>4. CASE loop' = loops /\ held' = text /\ UNCHANGED <<overlay, panel>>
    BY <1>0, <1>4 DEF CameraRest
  <1> QED
    BY <1>2, <1>3, <1>4 DEF T!Follow

(* The step of the action property TextStaysInItsLoop.                     *)
Stays ==
    \A n \in Loops :
        (loop[n].at = "reading" /\ loop[n].life # "wanted" /\ loop'[n].at = "off"
             /\ day.scanner = "tesseract")
        => UNCHANGED <<T!screenVars, held>> \/ screen' = T!Mounted

LEMMA CameraSo ==
    ASSUME UNCHANGED day, AllTidy(loop'), CameraRest, inView' \in T!Labels \cup {None}
    PROVE  CameraInv'
  <1>1. T!Labels' = T!Labels /\ T!Loop' = T!Loop /\ T!Receives' = T!Receives
    BY DEF T!Labels, T!Loop, T!Receives, T!task
  <1> QED
    BY <1>1 DEF AllTidy, Tidy, CameraRest, CameraInv

LEMMA RestSame ==
    ASSUME CameraInv, UNCHANGED <<overlay, panel>>, held' \in T!Labels \cup {None}
    PROVE  CameraRest
  BY DEF CameraInv, CameraRest

LEMMA MovesTidy ==
    ASSUME CameraInv, NEW n \in Loops, NEW r, Tidy(r)
    PROVE  AllTidy(T!Moves(n, r)) /\ T!Moves(n, r)[n] = r
           /\ \A m \in Loops \ {n} : T!Moves(n, r)[m] = loop[m]
  BY DEF CameraInv, AllTidy, Tidy, T!Moves

LEMMA HandOverKeeps ==
    ASSUME PageInv, PageInv', CameraInv, NEW n \in Loops, T!HandOver(n)
    PROVE  /\ AllTidy(loop') /\ CameraRest /\ inView' \in T!Labels \cup {None}
           /\ \A m \in Loops \ {n} : loop[m].at = "reading" => loop'[m].at # "off"
  <1>0. UNCHANGED day
    BY SubmitSameDay DEF T!HandOver, T!screenVars, T!MatchCard
  <1>1. day \in Days /\ screen' \in T!Screen /\ inView \in T!Labels \cup {None} /\ AllTidy(loop)
    BY <1>0, SamePage, PageTypes DEF PageInv, PagesTyped, T!TasksTypeOK, CameraInv, AllTidy, Tidy
  <1>2. PICK r, state : r = T!Onward([loop[n] EXCEPT !.dup = loop[n].label, !.votes = {}])
                        /\ T!Follow(T!Moves(n, r), state, held)
    BY DEF T!HandOver
  <1>3. Tidy(r)
    <2>0. loop[n] \in T!Loop
      BY DEF CameraInv
    <2>1. [loop[n] EXCEPT !.dup = loop[n].label, !.votes = {}] \in T!Loop
      BY <2>0 DEF T!Loop
    <2> QED
      BY <1>1, <1>2, <2>1, OnwardTidy
  <1>4. PICK after : after = T!Moves(n, r)
    OBVIOUS
  <1>5. AllTidy(after) /\ \A m \in Loops \ {n} : after[m] = loop[m]
    BY <1>3, <1>4, MovesTidy
  <1>6. /\ loop' \in {loop, after} \/ ReadOn(loop) \/ ReadOn(after)
        /\ CameraRest
    <2>1. T!Follow(after, state, held) /\ held \in T!Labels \cup {None}
      BY <1>2, <1>4 DEF CameraInv
    <2> QED
      BY <1>1, <1>5, <2>1, FollowTidy
  <1> QED
    BY <1>1, <1>5, <1>6 DEF ReadOn, T!HandOver

LEMMA LoopKeepsCamera ==
    ASSUME PageInv, PageInv', CameraInv, NEW n \in Loops, T!LoopStep(n)
    PROVE  CameraInv' /\ Stays
  <1>0. /\ day \in Days /\ loop[n] \in T!Loop /\ Tidy(loop[n]) /\ AllTidy(loop) /\ Tidy(T!Off)
        /\ held \in T!Labels \cup {None} /\ inView \in T!Labels \cup {None}
    <2>1. day \in Days /\ loop[n] \in T!Loop /\ Tidy(loop[n]) /\ AllTidy(loop)
      BY PageTypes DEF CameraInv, AllTidy, Tidy
    <2> QED
      BY <2>1, TidyOps DEF CameraInv
  <1>1. CASE T!HandOver(n) /\ (T!Decoded(n) \/ (T!Read(n) /\ T!Stable(n)))
    <2>1. UNCHANGED day
      BY <1>1, SubmitSameDay DEF T!HandOver, T!screenVars, T!MatchCard
    <2>2. CameraInv'
      BY <1>1, <2>1, HandOverKeeps, CameraSo
    <2>3. ~(loop[n].at = "reading" /\ loop[n].life # "wanted" /\ day.scanner = "tesseract")
      BY <1>0, <1>1 DEF T!Decoded, T!Stable, Tidy
    <2> QED
      BY <1>1, <2>2, <2>3, HandOverKeeps DEF Stays
  <1>2. ASSUME NEW r, Tidy(r), loop' = T!Moves(n, r), T!OnlyLoop, held' \in T!Labels \cup {None},
               loop[n].at = "reading" /\ loop[n].life # "wanted" /\ day.scanner = "tesseract"
                 => r.at # "off" \/ UNCHANGED held
        PROVE  CameraInv' /\ Stays
    <2>1. AllTidy(loop') /\ loop'[n] = r /\ \A m \in Loops \ {n} : loop'[m] = loop[m]
      BY <1>2, MovesTidy
    <2>2. CameraInv'
      BY <1>0, <1>2, <2>1, RestSame, CameraSo DEF T!OnlyLoop, T!screenVars
    <2> QED
      BY <1>2, <2>1, <2>2 DEF Stays, T!OnlyLoop
  <1>3. CASE T!CameraOpened(n)
    <2>1. PICK r : r = [loop[n] EXCEPT !.at = IF loop[n].life = "wanted" THEN "starting" ELSE "stray"]
      OBVIOUS
    <2>2. Tidy(r)
      BY <1>0, <2>1 DEF Tidy, T!Loop
    <2> QED
      BY <1>0, <1>2, <1>3, <2>1, <2>2 DEF T!CameraOpened
  <1>4. CASE T!CameraReady(n) \/ T!CameraFailed(n) \/ T!ReadNothing(n) \/ (\E events : T!Nothing(n, events))
    <2>1. Tidy(T!Onward(loop[n]))
      BY <1>0, OnwardTidy
    <2>2. PICK r : r \in {T!Off, T!Onward(loop[n])} /\ loop' = T!Moves(n, r)
      BY <1>4 DEF T!CameraReady, T!CameraFailed, T!ReadNothing, T!Nothing
    <2> QED
      BY <1>0, <1>2, <1>4, <2>1, <2>2 DEF T!CameraReady, T!CameraFailed, T!ReadNothing, T!Nothing
  <1>5. CASE T!Frame(n)
    <2>1. PICK r : r = [loop[n] EXCEPT !.at = "decoding", !.label = inView]
      OBVIOUS
    <2>2. Tidy(r)
      BY <1>0, <2>1 DEF Tidy, T!Loop
    <2> QED
      BY <1>0, <1>2, <1>5, <2>1, <2>2 DEF T!Frame
  <1>6. CASE T!Vote(n)
    <2>1. [loop[n] EXCEPT !.votes = @ \cup {loop[n].label}] \in T!Loop
      BY <1>0, <1>6 DEF T!Vote, T!Loop
    <2>2. PICK r : r = T!Onward([loop[n] EXCEPT !.votes = @ \cup {loop[n].label}])
      OBVIOUS
    <2>3. Tidy(r)
      BY <1>0, <2>1, <2>2, OnwardTidy
    <2> QED
      BY <1>0, <1>2, <1>6, <2>2, <2>3 DEF T!Vote
  <1>7. CASE T!Hold(n)
    <2>1. [loop[n] EXCEPT !.votes = @ \ {loop[n].label}] \in T!Loop
      BY <1>0, <1>7 DEF T!Hold, T!Loop
    <2>2. PICK r : r = T!Onward([loop[n] EXCEPT !.votes = @ \ {loop[n].label}])
      OBVIOUS
    <2>3. Tidy(r)
      BY <1>0, <2>1, <2>2, OnwardTidy
    <2>4. ~(loop[n].life # "wanted" /\ day.scanner = "tesseract")
      BY <1>0, <1>7 DEF T!Hold, T!Stable, Tidy
    <2>5. held' \in T!Labels \cup {None}
      BY <1>0, <1>7 DEF T!Hold, T!Loop
    <2> QED
      BY <1>0, <1>2, <1>7, <2>2, <2>3, <2>4, <2>5 DEF T!Hold
  <1>8. CASE T!Forget(n)
    <2>1. PICK r : r = [loop[n] EXCEPT !.dup = None]
      OBVIOUS
    <2>2. Tidy(r)
      BY <1>0, <2>1 DEF Tidy, T!Loop
    <2> QED
      BY <1>0, <1>2, <1>8, <2>1, <2>2 DEF T!Forget
  <1>9. CASE T!Decoded(n) /\ held = None /\ loop' = T!Moves(n, [loop[n] EXCEPT !.at = "reading"])
             /\ UNCHANGED held /\ T!OnlyLoop
    <2>1. PICK r : r = [loop[n] EXCEPT !.at = "reading"]
      OBVIOUS
    <2>2. Tidy(r)
      BY <1>0, <2>1 DEF Tidy, T!Loop
    <2> QED
      BY <1>0, <1>2, <1>9, <2>1, <2>2
  <1> QED
    BY <1>1, <1>3, <1>4, <1>5, <1>6, <1>7, <1>8, <1>9 DEF T!LoopStep, T!Decoded, T!Read

LEMMA ScannerKeepsCamera ==
    ASSUME PageInv, PageInv', CameraInv, T!ScannerNext
    PROVE  CameraInv' /\ Stays
  <1>0. /\ UNCHANGED day /\ day \in Days /\ screen' \in T!Screen /\ AllTidy(loop)
        /\ held \in T!Labels \cup {None} /\ inView \in T!Labels \cup {None} /\ None \in T!Labels \cup {None}
    BY SameDay, SamePage, PageTypes DEF PageInv, PagesTyped, T!TasksTypeOK, CameraInv, AllTidy, Tidy
  <1>1. ASSUME loop' = loop \/ ReadOn(loop), CameraRest, inView' \in T!Labels \cup {None}
        PROVE  CameraInv' /\ Stays
    <2>1. AllTidy(loop') /\ \A n \in Loops : loop[n].at = "reading" => loop'[n].at # "off"
      BY <1>0, <1>1 DEF ReadOn
    <2>2. CameraInv'
      BY <1>0, <1>1, <2>1, CameraSo
    <2> QED
      BY <2>1, <2>2 DEF Stays
  <1>2. CASE T!PageBelow \/ T!Confirm \/ (\E l \in T!Labels : T!HardRead(l))
    <2>1. T!Follow(loop, cam, held) \/ T!Follow(loop, T!Send(cam, "CONFIRM"), None)
      BY <1>2 DEF T!PageBelow, T!Confirm, T!HardRead
    <2>2. (loop' = loop \/ ReadOn(loop)) /\ CameraRest
      BY <1>0, <2>1, FollowTidy
    <2>3. inView' = inView
      BY <1>2 DEF T!PageBelow, T!Confirm, T!HardRead
    <2> QED
      BY <1>0, <1>1, <2>2, <2>3
  <1>3. CASE T!LeavePage
    <2>1. /\ loop' = [n \in Loops |-> T!Off] /\ screen' = T!Mounted /\ inView' = None
          /\ overlay' = "none" /\ panel' = T!NoPanel /\ held' = None
      BY <1>3 DEF T!LeavePage, T!Leave
    <2>2. AllTidy(loop')
      BY <2>1 DEF AllTidy, Tidy, T!Off, T!Loop
    <2>3. CameraRest
      BY <2>1 DEF CameraRest, T!NoPanel
    <2> QED
      BY <1>0, <2>1, <2>2, <2>3, CameraSo DEF Stays
  <1>4. CASE T!OpenScanner \/ T!Restart
    <2>1. T!Start(loop) /\ overlay' = "camera" /\ UNCHANGED <<inView, panel>>
      BY <1>4 DEF T!OpenScanner, T!Restart
    <2>2. ReadOn(loop) /\ held' = None
      BY <1>0, <2>1, StartTidy
    <2> QED
      BY <1>0, <1>1, <2>1, <2>2 DEF CameraRest, CameraInv
  <1>5. CASE T!Exit
    <2>1. T!Unmount(loop) /\ overlay' = "none" /\ inView' = None /\ UNCHANGED panel
      BY <1>5 DEF T!Exit
    <2>2. ReadOn(loop) /\ held' = None
      BY <1>0, <2>1, UnmountTidy
    <2> QED
      BY <1>0, <1>1, <2>1, <2>2 DEF CameraRest, CameraInv
  <1>6. CASE T!PickMethod
    <2>1. (T!Start(loop) \/ T!Unmount(loop)) /\ T!Receives /\ overlay' \in {"camera", "panel"} /\ UNCHANGED inView
      BY <1>6 DEF T!PickMethod
    <2>2. panel' = T!NoPanel \/ panel' = [cards |-> screen.cards, busy |-> screen.busy]
      BY <1>6 DEF T!PickMethod
    <2>3. panel' \in [cards : SUBSET Items, busy : BOOLEAN]
      <3>1. screen.cards \in SUBSET Items /\ screen.busy \in BOOLEAN
        BY PageTypes DEF T!Screen
      <3>2. CASE panel' = T!NoPanel
        BY <3>2 DEF T!NoPanel
      <3>3. CASE panel' = [cards |-> screen.cards, busy |-> screen.busy]
        BY <3>1, <3>3
      <3> QED
        BY <2>2, <3>2, <3>3
    <2>4. ReadOn(loop) /\ held' = None
      BY <1>0, <2>1, StartTidy, UnmountTidy
    <2> QED
      BY <1>0, <1>1, <2>1, <2>3, <2>4 DEF CameraRest
  <1>7. CASE T!Rescan \/ T!Resume \/ (\E l \in T!Labels \cup {None} : T!Show(l)) \/ (\E l \in T!Labels : T!Choose(l))
    <2>1. /\ UNCHANGED <<loop, overlay, panel>> /\ held' \in T!Labels \cup {None}
          /\ inView' \in T!Labels \cup {None}
      BY <1>0, <1>7 DEF T!Rescan, T!Resume, T!Show, T!Choose, T!OnlyLoop
    <2> QED
      BY <1>1, <2>1, RestSame
  <1>8. ASSUME NEW n \in Loops, T!LoopStep(n) PROVE CameraInv' /\ Stays
    BY <1>8, LoopKeepsCamera
  <1> QED
    BY <1>2, <1>3, <1>4, <1>5, <1>6, <1>7, <1>8 DEF T!ScannerNext

LEMMA InitCamera == T!ScannerInit => PageInv /\ CameraInv
  <1> SUFFICES ASSUME T!ScannerInit PROVE PageInv /\ CameraInv
    OBVIOUS
  <1>1. PageInv
    BY InitPages DEF T!ScannerInit
  <1>2. CameraInv
    BY DEF T!ScannerInit, CameraInv, T!NoPanel, T!Loop, T!Off
  <1> QED
    BY <1>1, <1>2

(* Of an accepted item no more units are counted than scans were accepted. *)
LEMMA InvCounts == PageInv => T!CountedAsHandled
  <1> SUFFICES ASSUME PageInv, T!task # "receiving", NEW i \in Items
               PROVE  server.count[i] <= accepted[i]
    BY DEF T!CountedAsHandled
  <1>1. CASE T!task = "storage"
    <2>1. server.count[i] + Cardinality(Pending(i)) <= accepted[i]
      BY <1>1 DEF PageInv, StoredOnce
    <2>2. Cardinality(Pending(i)) \in Nat /\ server.count[i] \in Nat /\ accepted[i] \in Nat
      BY PendingFinite, PageTypes
    <2> QED
      BY <2>1, <2>2
  <1>2. CASE T!task # "storage"
    BY <1>2 DEF PageInv, HandledOnce
  <1> QED
    BY <1>1, <1>2

LEMMA StutterKeeps ==
    ASSUME PageInv, CameraInv, UNCHANGED T!scannerVars
    PROVE  PageInv' /\ CameraInv' /\ CommitsLast /\ Stays
  <1>1. UNCHANGED <<day, screen, calls, outcome, server, last, accepted, left>>
        /\ UNCHANGED <<overlay, loop, held, inView, panel>>
    BY DEF T!scannerVars, T!screenVars, T!cameraVars
  <1>2. PageInv' /\ CommitsLast
    BY <1>1, LooksKeep
  <1>3. AllTidy(loop') /\ CameraRest /\ inView' \in T!Labels \cup {None}
    BY <1>1 DEF CameraInv, AllTidy, Tidy, CameraRest
  <1> QED
    BY <1>1, <1>2, <1>3, CameraSo DEF Stays

-----------------------------------------------------------------------------
(* The report of a session                                                 *)

Kinds == {"none", "choices", "load", "reload", "save", "submit", "damage"}
PageRequest ==
    [kind : Kinds, of : Sessions \cup {None}, text : SUBSET Sessions,
     at : {"idle", "sent", "served", "over"}, heard : BOOLEAN,
     got : SUBSET Sessions, locked : BOOLEAN]
Shown == [of : Sessions, locked : BOOLEAN]
Works == R!Operations \cup {"reload"}
Writers == R!Loads \cup R!Operations

ReportTypes ==
    /\ asked \in [R!Requests -> PageRequest]
    /\ stored \in [Sessions -> SUBSET Sessions] /\ sent \in SUBSET Sessions
    /\ view \in Shown \cup {None} /\ findings \in SUBSET Sessions
    /\ taking \in Sessions \cup {None} /\ address \in Sessions \cup {"away", "picker"}

(* A request that reads or writes a report is about a session.             *)
Aimed == \A q \in R!Requests : asked[q].kind \in Writers => asked[q].of \in Sessions

(* A request carries findings of its own session only.                     *)
Own(c) ==
    /\ c.kind \in {"save", "submit"} => c.text \subseteq {c.of}
    /\ (c.at = "served" /\ c.kind \in R!Loads) => c.got \subseteq {c.of}

Hears(c, kinds) == c.heard /\ c.kind \in kinds

(* One operation at a time, of the report displayed; a report is loaded    *)
(* while nothing else goes on.                                             *)
Alone ==
    /\ \A p, q \in R!Requests : Hears(asked[p], Works) /\ Hears(asked[q], Works) => p = q
    /\ \A q \in R!Requests : Hears(asked[q], R!Loads) =>
          taking = None /\ \A p \in R!Requests : Hears(asked[p], Writers) => p = q
    /\ \A q \in R!Requests : Hears(asked[q], R!Operations) => view # None /\ view.of = asked[q].of
    /\ taking # None => view # None /\ view.of = taking
Apart ==
    /\ \A s \in Sessions : stored[s] \subseteq {s}
    /\ findings # {} => view # None
    /\ \A s \in findings : s = view.of
    /\ \A q \in R!Requests : Own(asked[q])

ReportInv == ReportTypes /\ (~hurried => Alone /\ Apart)

LEMMA ReportInit == R!ReportPageInit => ReportInv
  <1> SUFFICES ASSUME R!ReportPageInit PROVE ReportInv
    OBVIOUS
  <1>1. R!Nothing \in PageRequest /\ ~R!Nothing.heard /\ Own(R!Nothing) /\ R!Nothing.kind = "none"
    BY DEF R!Nothing, PageRequest, Kinds, Own, R!Loads, Writers, R!Operations
  <1>2. \A q \in R!Requests : asked[q] = R!Nothing
    BY DEF R!ReportPageInit
  <1>3. ReportTypes
    BY <1>1 DEF R!ReportPageInit, ReportTypes
  <1>4. Apart /\ Alone
    BY <1>1, <1>2, <1>3 DEF R!ReportPageInit, Alone, Apart, Hears
  <1> QED
    BY <1>3, <1>4 DEF ReportInv

(* What Heard means for the requests.                                      *)
LEMMA HeardIs ==
    ASSUME NEW kinds
    PROVE  /\ R!Heard(kinds) = {} <=> \A q \in R!Requests : ~Hears(asked[q], kinds)
           /\ \A q \in R!Requests : q \in R!Heard(kinds) <=> Hears(asked[q], kinds)
  BY DEF R!Heard, Hears

LEMMA NotBusy == ~R!Busy => \A q \in R!Requests : ~Hears(asked[q], Works)
  BY DEF R!Busy, R!Heard, Hears, Works

(* A request of the worker.                                                *)
LEMMA SendKeeps ==
    ASSUME ReportTypes, NEW q \in R!Requests, NEW k \in Kinds, NEW s \in Sessions \cup {None},
           NEW text \in SUBSET Sessions, R!Send(q, k, s, text),
           k \in Writers => s \in Sessions, k \in {"save", "submit"} => text \subseteq {s}
    PROVE  /\ asked' \in [R!Requests -> PageRequest]
           /\ \A p \in R!Requests : p # q => asked'[p] = asked[p]
           /\ asked'[q].kind = k /\ asked'[q].of = s /\ asked'[q].heard
           /\ Own(asked'[q])
  <1>1. PICK c : c = R!Ask(k, s, text)
    OBVIOUS
  <1>2. c \in PageRequest
    BY <1>1 DEF R!Ask, PageRequest
  <1>3. c.kind = k /\ c.of = s /\ c.heard /\ c.text = text /\ c.at = "sent"
    BY <1>1 DEF R!Ask
  <1>4. asked \in [R!Requests -> PageRequest] /\ asked' = [asked EXCEPT ![q] = c]
    BY <1>1 DEF R!Send, ReportTypes
  <1>5. Own(c)
    BY <1>3 DEF Own
  <1> QED
    BY <1>2, <1>3, <1>4, <1>5

LEMMA ChoicesKeep ==
    ASSUME ReportInv, NEW q \in R!Requests, R!LoadChoices(q),
           UNCHANGED <<view, findings, taking, R!serverVars>>,
           address' \in Sessions \cup {"away", "picker"}
    PROVE  ReportInv'
  <1>1. R!Send(q, "choices", None, {}) /\ UNCHANGED hurried
    BY DEF R!LoadChoices
  <1>2. "choices" \in Kinds /\ "choices" \notin Writers /\ "choices" \notin Works
        /\ "choices" \notin R!Loads /\ "choices" \notin R!Operations
    BY DEF Kinds, Writers, Works, R!Loads, R!Operations
  <1>a. None \in Sessions \cup {None} /\ {} \in SUBSET Sessions /\ "choices" \notin {"save", "submit"}
    OBVIOUS
  <1>3. /\ asked' \in [R!Requests -> PageRequest]
        /\ \A p \in R!Requests : p # q => asked'[p] = asked[p]
        /\ asked'[q].kind = "choices" /\ Own(asked'[q])
    BY <1>1, <1>2, <1>a, SendKeeps DEF ReportInv
  <1>4. UNCHANGED <<view, findings, taking, stored, sent>>
    BY DEF R!serverVars
  <1>5. ReportTypes'
    BY <1>3, <1>4 DEF ReportInv, ReportTypes
  <1>6. ASSUME Alone PROVE Alone'
    BY <1>2, <1>3, <1>4, <1>6 DEF Alone, Hears
  <1>7. ASSUME Apart PROVE Apart'
    BY <1>3, <1>4, <1>7 DEF Apart
  <1> QED
    BY <1>1, <1>5, <1>6, <1>7 DEF ReportInv

LEMMA LoadKeeps ==
    ASSUME ReportInv, NEW q \in R!Requests, NEW s \in Sessions, R!LoadView(q, s),
           UNCHANGED <<view, findings, taking, R!serverVars>>,
           address' \in Sessions \cup {"away", "picker"}
    PROVE  ReportInv'
  <1>1. R!Send(q, "load", s, {}) /\ hurried' = (hurried \/ R!Running)
    BY DEF R!LoadView
  <1>2. "load" \in Kinds /\ "load" \notin Works /\ "load" \notin R!Operations /\ "load" \in R!Loads
        /\ R!Loads \subseteq Writers /\ Works \subseteq Writers /\ R!Operations \subseteq Writers
    BY DEF Kinds, Writers, Works, R!Loads, R!Operations
  <1>3. /\ asked' \in [R!Requests -> PageRequest]
        /\ \A p \in R!Requests : p # q => asked'[p] = asked[p]
        /\ asked'[q].kind = "load" /\ Own(asked'[q])
    BY <1>1, <1>2, SendKeeps DEF ReportInv
  <1>4. UNCHANGED <<view, findings, taking, stored, sent>>
    BY DEF R!serverVars
  <1>5. ReportTypes'
    BY <1>3, <1>4 DEF ReportInv, ReportTypes
  <1>6. ASSUME ~hurried' PROVE Alone' /\ Apart'
    <2>1. ~hurried /\ R!Heard(Writers) = {} /\ taking = None
      BY <1>1, <1>6 DEF R!Running, Writers
    <2>2. \A p \in R!Requests : ~Hears(asked[p], Writers)
      BY <2>1, HeardIs
    <2>3. \A p \in R!Requests : p # q => ~Hears(asked'[p], Writers) /\ ~Hears(asked'[p], Works)
                                       /\ ~Hears(asked'[p], R!Loads) /\ ~Hears(asked'[p], R!Operations)
      BY <1>2, <1>3, <2>2 DEF Hears
    <2>4. ~Hears(asked'[q], Works) /\ ~Hears(asked'[q], R!Operations)
      BY <1>2, <1>3 DEF Hears
    <2>5. Alone'
      BY <1>4, <2>1, <2>3, <2>4 DEF Alone
    <2>6. Apart'
      BY <1>3, <1>4, <2>1 DEF Apart, ReportInv
    <2> QED
      BY <2>5, <2>6
  <1> QED
    BY <1>5, <1>6 DEF ReportInv

LEMMA OperateKeeps ==
    ASSUME ReportInv, NEW q \in R!Requests, NEW k \in R!Operations, NEW text \in SUBSET Sessions,
           text = findings \/ text = {}, R!Operate(q, k, text)
    PROVE  ReportInv'
  <1>1. view # None /\ R!Send(q, k, view.of, text) /\ hurried' = (hurried \/ R!Heard(R!Loads) # {})
    BY DEF R!Operate, R!Editable
  <1>2. k \in Kinds /\ k \notin R!Loads /\ k \in Works /\ k \in Writers
        /\ Works \subseteq Writers /\ R!Operations \subseteq Writers /\ R!Operations \subseteq Works
    BY DEF Kinds, Writers, Works, R!Loads, R!Operations
  <1>3. view.of \in Sessions
    BY <1>1 DEF ReportInv, ReportTypes, Shown
  <1>4. UNCHANGED <<view, findings, taking, stored, sent, address>>
    BY DEF R!Operate, R!serverVars
  <1>a. PICK s \in Sessions : s = view.of
    BY <1>3
  <1>b. PICK c : c = R!Ask(k, s, text)
    OBVIOUS
  <1>c. c \in PageRequest
    BY <1>2, <1>b DEF R!Ask, PageRequest
  <1>5. asked' \in [R!Requests -> PageRequest] /\ \A p \in R!Requests : p # q => asked'[p] = asked[p]
    BY <1>1, <1>a, <1>b, <1>c DEF R!Send, ReportInv, ReportTypes
  <1>6. ReportTypes'
    BY <1>4, <1>5 DEF ReportInv, ReportTypes
  <1>7. ASSUME ~hurried' PROVE Alone' /\ Apart'
    <2>1. ~hurried /\ Alone /\ Apart
      BY <1>1, <1>7 DEF ReportInv
    <2>2. text \subseteq {s}
      BY <2>1, <1>1, <1>a DEF Apart
    <2>3. asked'[q].kind = k /\ asked'[q].of = s /\ asked'[q].heard /\ Own(asked'[q])
      BY <1>1, <1>2, <1>a, <2>2, SendKeeps DEF ReportInv
    <2>4. \A p \in R!Requests : ~Hears(asked[p], Works) /\ ~Hears(asked[p], R!Loads)
                              /\ ~Hears(asked[p], R!Operations)
      <3>1. ~R!Busy /\ R!Heard(R!Loads) = {}
        BY <1>1, <1>7 DEF R!Operate
      <3>2. \A p \in R!Requests : ~Hears(asked[p], Works) /\ ~Hears(asked[p], R!Loads)
        BY <3>1, NotBusy, HeardIs
      <3> QED
        BY <3>2, <1>2 DEF Hears
    <2>5. Alone'
      BY <1>2, <1>4, <1>5, <1>1, <1>a, <2>1, <2>3, <2>4 DEF Alone, Hears
    <2>6. Apart'
      BY <1>4, <1>5, <2>1, <2>3 DEF Apart
    <2> QED
      BY <2>5, <2>6
  <1> QED
    BY <1>6, <1>7 DEF ReportInv

(* Fields and photos.                                                      *)
LEMMA FieldsKeep ==
    ASSUME ReportInv,
           \/ R!Write \/ R!TakePhotos \/ R!PhotosRead
           \/ \E s \in Sessions : R!Remove(s)
    PROVE  ReportInv'
  <1>0. UNCHANGED <<address, view, stored, sent, asked>>
    BY DEF R!Write, R!TakePhotos, R!PhotosRead, R!Remove, R!serverVars
  <1>1. CASE R!Write \/ \E s \in Sessions : R!Remove(s)
    <2>1. view # None /\ view.of \in Sessions /\ UNCHANGED <<taking, hurried>>
      BY <1>1 DEF R!Write, R!Remove, R!Editable, ReportInv, ReportTypes, Shown
    <2>2. findings' = findings \cup {view.of} \/ \E s \in Sessions : findings' = findings \ {s}
      BY <1>1 DEF R!Write, R!Remove
    <2>3. ReportTypes' /\ (Alone => Alone')
      BY <1>0, <2>1, <2>2 DEF ReportInv, ReportTypes, Alone
    <2>4. Apart => Apart'
      BY <1>0, <2>1, <2>2 DEF Apart
    <2> QED
      BY <2>1, <2>3, <2>4 DEF ReportInv
  <1>2. CASE R!TakePhotos
    <2>1. view # None /\ view.of \in Sessions /\ taking' = view.of /\ UNCHANGED findings
          /\ hurried' = (hurried \/ R!Heard(R!Loads) # {})
      BY <1>2 DEF R!TakePhotos, R!Editable, ReportInv, ReportTypes, Shown
    <2>2. ReportTypes' /\ (Apart => Apart')
      BY <1>0, <2>1 DEF ReportInv, ReportTypes, Apart
    <2>3. ASSUME ~hurried', Alone PROVE Alone'
      <3>1. \A p \in R!Requests : ~Hears(asked[p], R!Loads)
        BY <2>1, <2>3, HeardIs
      <3> QED
        BY <1>0, <2>1, <2>3, <3>1 DEF Alone
    <2> QED
      BY <2>1, <2>2, <2>3 DEF ReportInv
  <1>3. CASE R!PhotosRead
    <2>1. taking # None /\ taking' = None /\ UNCHANGED hurried
          /\ (findings' = findings \cup {taking} \/ findings' = findings)
      BY <1>3 DEF R!PhotosRead
    <2>2. ReportTypes'
      BY <1>0, <2>1 DEF ReportInv, ReportTypes
    <2>3. Alone /\ Apart => Alone' /\ Apart'
      BY <1>0, <2>1 DEF Alone, Apart
    <2> QED
      BY <2>1, <2>2, <2>3 DEF ReportInv
  <1> QED
    BY <1>1, <1>2, <1>3

LEMMA ReportLeaveKeeps == ASSUME ReportInv, R!LeavePage PROVE ReportInv'
  <1>1. view' = None /\ findings' = {} /\ taking' = None /\ address' = "away"
        /\ UNCHANGED <<stored, sent, hurried>>
    BY DEF R!LeavePage, R!serverVars
  <1>2. asked' = [q \in R!Requests |-> R!Unheard(asked[q])] /\ asked \in [R!Requests -> PageRequest]
    BY DEF R!LeavePage, ReportInv, ReportTypes
  <1>3. \A q \in R!Requests : asked'[q] \in PageRequest /\ ~asked'[q].heard /\ (Own(asked[q]) => Own(asked'[q]))
    <2> SUFFICES ASSUME NEW q \in R!Requests, NEW c \in PageRequest, NEW d, c = asked[q], d = [c EXCEPT !.heard = FALSE]
                 PROVE  d \in PageRequest /\ ~d.heard /\ (Own(c) => Own(d))
      BY <1>2 DEF R!Unheard
    <2> QED
      BY DEF PageRequest, Own
  <1>4. ReportTypes'
    BY <1>1, <1>2, <1>3 DEF ReportInv, ReportTypes
  <1>5. Alone' /\ (Apart => Apart')
    BY <1>1, <1>3 DEF Alone, Apart, Hears
  <1> QED
    BY <1>1, <1>4, <1>5 DEF ReportInv

(* A request that goes on without being heard more, and without becoming   *)
(* another one, disturbs nothing.                                          *)
LEMMA QuieterKeeps ==
    ASSUME ReportInv, NEW q \in R!Requests, NEW c \in PageRequest, asked' = [asked EXCEPT ![q] = c],
           c.heard => asked[q].heard /\ c.kind = asked[q].kind /\ c.of = asked[q].of,
           ~hurried /\ Alone /\ Apart => Own(c),
           UNCHANGED <<R!pageVars, R!serverVars>>
    PROVE  ReportInv'
  <1>1. UNCHANGED <<view, findings, taking, address, hurried, stored, sent>>
    BY DEF R!pageVars, R!serverVars
  <1>2. asked \in [R!Requests -> PageRequest]
    BY DEF ReportInv, ReportTypes
  <1>3. ReportTypes'
    BY <1>1, <1>2 DEF ReportInv, ReportTypes
  <1>4. \A p \in R!Requests : asked'[p] = IF p = q THEN c ELSE asked[p]
    BY <1>2
  <1>5. Alone => Alone'
    BY <1>1, <1>4 DEF Alone, Hears
  <1>6. ~hurried /\ Alone /\ Apart => Apart'
    BY <1>1, <1>4 DEF Apart
  <1> QED
    BY <1>1, <1>3, <1>5, <1>6 DEF ReportInv
LEMMA ReportServeKeeps ==
    ASSUME ReportInv, Aimed, NEW q \in R!Requests,
           R!ServeRead(q) \/ R!ServeChoices(q) \/ R!ServeDamage(q)
    PROVE  ReportInv'
  <1>1. asked[q] \in PageRequest /\ stored \in [Sessions -> SUBSET Sessions]
    BY DEF ReportInv, ReportTypes
  <1>2. PICK got, l :
           /\ R!Served(q, got, l) /\ l \in BOOLEAN
           /\ \/ asked[q].kind \in R!Loads /\ got = stored[asked[q].of]
              \/ asked[q].kind \notin R!Loads /\ got = {}
    <2>1. CASE R!ServeRead(q)
      <3>1. R!Served(q, stored[asked[q].of], asked[q].of \in sent) /\ asked[q].kind \in R!Loads
            /\ (asked[q].of \in sent) \in BOOLEAN
        BY <2>1 DEF R!ServeRead
      <3> QED
        BY <3>1, Zenon
    <2>2. CASE R!ServeChoices(q) \/ R!ServeDamage(q)
      <3>1. R!Served(q, {}, FALSE) /\ asked[q].kind \notin R!Loads
        BY <2>2 DEF R!ServeChoices, R!ServeDamage, R!Loads
      <3> QED
        BY <3>1, Zenon
    <2> QED
      BY <2>1, <2>2
  <1>3. PICK o : o = asked[q]
    OBVIOUS
  <1>4. PICK c : c = [o EXCEPT !.at = "served", !.got = got, !.locked = l]
    OBVIOUS
  <1>a. UNCHANGED <<R!pageVars, R!serverVars>>
    BY DEF R!ServeRead, R!ServeChoices, R!ServeDamage
  <1>b. asked' = [asked EXCEPT ![q] = c]
    BY <1>2, <1>3, <1>4 DEF R!Served
  <1>6. o.kind \in R!Loads => o.of \in Sessions
    BY <1>3 DEF Aimed, Writers
  <1>7. got \in SUBSET Sessions
    BY <1>1, <1>2, <1>3, <1>6
  <1>8. c \in PageRequest /\ c.kind = o.kind /\ c.of = o.of /\ c.text = o.text /\ c.got = got
        /\ (c.heard <=> o.heard)
    BY <1>1, <1>2, <1>3, <1>4, <1>7 DEF PageRequest
  <1>9. Apart => Own(c)
    <2> SUFFICES ASSUME Apart PROVE Own(c)
      OBVIOUS
    <2>1. Own(o)
      BY <1>3 DEF Apart
    <2>2. c.kind \in R!Loads => c.got \subseteq {c.of}
      BY <1>2, <1>3, <1>6, <1>8 DEF Apart
    <2> QED
      BY <1>8, <2>1, <2>2 DEF Own
  <1> QED
    BY <1>3, <1>8, <1>9, <1>a, <1>b, QuieterKeeps

LEMMA WriteKeeps == ASSUME ReportInv, Aimed, NEW q \in R!Requests, R!ServeWrite(q) PROVE ReportInv'
  <1>1. asked \in [R!Requests -> PageRequest] /\ stored \in [Sessions -> SUBSET Sessions]
    BY DEF ReportInv, ReportTypes
  <1>2. PICK o \in PageRequest : o = asked[q]
    BY <1>1
  <1>3. PICK l \in BOOLEAN : R!Served(q, o.text, l)
    BY <1>2 DEF R!ServeWrite
  <1>4. PICK c : c = [o EXCEPT !.at = "served", !.got = o.text, !.locked = l]
    OBVIOUS
  <1>5. o.kind \in {"save", "submit"} /\ o.kind \notin R!Loads /\ o.kind \in Writers
        /\ stored' = [stored EXCEPT ![o.of] = o.text]
        /\ (sent' = sent \/ sent' = sent \cup {o.of})
    BY <1>2 DEF R!ServeWrite, R!Loads, Writers, R!Operations
  <1>6. c \in PageRequest /\ c.kind = o.kind /\ c.of = o.of /\ c.text = o.text /\ (c.heard <=> o.heard)
    BY <1>2, <1>4 DEF PageRequest
  <1>7. asked' = [asked EXCEPT ![q] = c]
    BY <1>2, <1>3, <1>4 DEF R!Served
  <1>8. UNCHANGED <<view, findings, taking, address, hurried>>
    BY DEF R!ServeWrite, R!pageVars
  <1>9. \A p \in R!Requests : asked'[p] = IF p = q THEN c ELSE asked[p]
    BY <1>1, <1>7
  <1>a. o.of \in Sessions /\ o.text \in SUBSET Sessions
    BY <1>2, <1>5 DEF Aimed, PageRequest
  <1>b. ReportTypes'
    <2>1. asked' \in [R!Requests -> PageRequest]
      BY <1>1, <1>6, <1>7
    <2> QED
      BY <2>1, <1>1, <1>5, <1>8, <1>a DEF ReportInv, ReportTypes
  <1>c. ASSUME Alone PROVE Alone'
    BY <1>2, <1>6, <1>8, <1>9, <1>c DEF Alone, Hears
  <1>d. ASSUME Apart PROVE Apart'
    <2>1. Own(o) /\ o.text \subseteq {o.of}
      BY <1>2, <1>5, <1>d DEF Apart, Own
    <2>2. Own(c)
      BY <1>5, <1>6, <2>1 DEF Own
    <2> QED
      BY <1>1, <1>5, <1>8, <1>9, <1>a, <2>1, <2>2, <1>d DEF Apart
  <1> QED
    BY <1>8, <1>b, <1>c, <1>d DEF ReportInv

LEMMA FailKeeps ==
    ASSUME ReportInv, NEW q \in R!Requests, R!Fail(q) \/ R!Vanish(q) PROVE ReportInv'
  <1>1. asked \in [R!Requests -> PageRequest]
    BY DEF ReportInv, ReportTypes
  <1>2. PICK o \in PageRequest : o = asked[q]
    BY <1>1
  <1>3. PICK c : c \in PageRequest /\ ~c.heard /\ (Own(o) => Own(c)) /\ asked' = [asked EXCEPT ![q] = c]
    <2>1. CASE R!Fail(q)
      <3>1. PICK c : c = [o EXCEPT !.heard = FALSE]
        OBVIOUS
      <3>2. c \in PageRequest /\ ~c.heard /\ (Own(o) => Own(c))
        BY <1>2, <3>1 DEF PageRequest, Own
      <3> QED
        BY <2>1, <1>2, <3>1, <3>2 DEF R!Fail, R!Unheard
    <2>2. CASE R!Vanish(q)
      <3>1. R!Over \in PageRequest /\ ~R!Over.heard /\ Own(R!Over)
        BY DEF R!Over, R!Nothing, PageRequest, Kinds, Own, R!Loads, Writers, R!Operations
      <3> QED
        BY <2>2, <3>1 DEF R!Vanish
    <2> QED
      BY <2>1, <2>2
  <1>4. UNCHANGED <<view, findings, taking, address, hurried, stored, sent>>
    BY DEF R!Fail, R!Vanish, R!pageVars, R!serverVars
  <1>5. \A p \in R!Requests : asked'[p] = IF p = q THEN c ELSE asked[p]
    BY <1>1, <1>3
  <1>6. ReportTypes'
    BY <1>1, <1>3, <1>4 DEF ReportInv, ReportTypes
  <1>7. Alone => Alone'
    BY <1>3, <1>4, <1>5 DEF Alone, Hears
  <1>8. Apart => Apart'
    BY <1>2, <1>3, <1>4, <1>5 DEF Apart
  <1> QED
    BY <1>4, <1>6, <1>7, <1>8 DEF ReportInv

(* An answer that the page takes: what is displayed is of the session that *)
(* was asked for, and so are the fields.                                   *)
LEMMA ReportAnswerKeeps ==
    ASSUME ReportInv, Aimed, NEW q \in R!Requests, R!ViewLoaded(q) \/ R!ChoicesLoaded(q) \/ R!Written(q)
    PROVE  ReportInv'
  <1>1. asked \in [R!Requests -> PageRequest]
    BY DEF ReportInv, ReportTypes
  <1>2. PICK o \in PageRequest : o = asked[q]
    BY <1>1
  <1>3. R!Over \in PageRequest /\ ~R!Over.heard /\ Own(R!Over)
    BY DEF R!Over, R!Nothing, PageRequest, Kinds, Own, R!Loads, Writers, R!Operations
  <1>4. asked' = [asked EXCEPT ![q] = R!Over] /\ o.heard /\ o.at = "served"
        /\ UNCHANGED <<taking, address, hurried, stored, sent>>
    BY <1>2 DEF R!ViewLoaded, R!ChoicesLoaded, R!Written, R!Answers, R!Taken, R!serverVars
  <1>5. \A p \in R!Requests : asked'[p] = IF p = q THEN R!Over ELSE asked[p]
    BY <1>1, <1>4
  <1>6. asked' \in [R!Requests -> PageRequest]
    BY <1>1, <1>3, <1>4
  <1>7. CASE R!ChoicesLoaded(q)
    <2>1. UNCHANGED <<view, findings>>
      BY <1>7 DEF R!ChoicesLoaded
    <2>2. ReportTypes'
      BY <1>4, <1>6, <2>1 DEF ReportInv, ReportTypes
    <2>3. (Alone => Alone') /\ (Apart => Apart')
      BY <1>3, <1>4, <1>5, <2>1 DEF Alone, Apart, Hears
    <2> QED
      BY <1>4, <2>2, <2>3 DEF ReportInv
  <1>8. CASE R!ViewLoaded(q) \/ R!Written(q)
    <2>1. view' = R!Displayed(o.of, o.locked) /\ o.kind \in Writers
          /\ (findings' = o.got \/ findings' = findings)
      BY <1>2, <1>8 DEF R!ViewLoaded, R!Written, R!Answers, Writers, R!Operations, R!Loads
    <2>2. PICK v : v = R!Displayed(o.of, o.locked)
      OBVIOUS
    <2>3. o.of \in Sessions
      BY <1>2, <2>1 DEF Aimed
    <2>4. v \in Shown /\ v.of = o.of
      BY <1>2, <2>2, <2>3 DEF Shown, R!Displayed, PageRequest
    <2>5. v # None
      BY <2>4, TerminalAssumption DEF R!ReportPageAssumption, Shown
    <2>6. o.got \in SUBSET Sessions
      BY <1>2 DEF PageRequest
    <2>7. ReportTypes'
      BY <1>4, <1>6, <2>1, <2>2, <2>4, <2>6 DEF ReportInv, ReportTypes
    <2>8. ASSUME Alone, Apart PROVE Alone' /\ Apart'
      <3>1. Own(o)
        BY <1>2, <2>8 DEF Apart
      <3>2. CASE R!ViewLoaded(q)
        <4>1. o.kind \in R!Loads /\ findings' = o.got
          BY <1>2, <3>2 DEF R!ViewLoaded, R!Answers
        <4>2. o.got \subseteq {o.of}
          BY <1>4, <3>1, <4>1 DEF Own
        <4>3. taking = None /\ \A p \in R!Requests : p # q => ~Hears(asked[p], Writers)
          BY <1>2, <1>4, <2>8, <4>1 DEF Alone, Hears
        <4>4. \A p \in R!Requests : ~Hears(asked'[p], Writers) /\ ~Hears(asked'[p], Works)
                /\ ~Hears(asked'[p], R!Loads) /\ ~Hears(asked'[p], R!Operations)
          BY <1>3, <1>5, <4>3 DEF Hears, Writers, Works, R!Loads, R!Operations
        <4>5. Alone'
          BY <1>4, <4>3, <4>4 DEF Alone
        <4>6. Apart'
          BY <1>3, <1>4, <1>5, <2>1, <2>2, <2>4, <2>5, <2>8, <4>1, <4>2 DEF Apart
        <4> QED
          BY <4>5, <4>6
      <3>3. CASE R!Written(q)
        <4>1. o.kind \in R!Operations /\ findings' = findings /\ o.kind \in Works
          BY <1>2, <3>3 DEF R!Written, R!Answers, R!Operations, Works
        <4>2. view # None /\ view.of = o.of
          BY <1>2, <1>4, <2>8, <4>1 DEF Alone, Hears
        <4>3. \A p \in R!Requests : p # q => ~Hears(asked[p], Works) /\ ~Hears(asked[p], R!Operations)
          BY <1>2, <1>4, <2>8, <4>1 DEF Alone, Hears, Works
        <4>4. Alone'
          BY <1>3, <1>4, <1>5, <2>1, <2>2, <2>4, <2>5, <2>8, <4>2, <4>3 DEF Alone, Hears
        <4>5. Apart'
          BY <1>3, <1>4, <1>5, <2>1, <2>2, <2>4, <2>5, <2>8, <4>1, <4>2 DEF Apart
        <4> QED
          BY <4>4, <4>5
      <3> QED
        BY <1>8, <3>2, <3>3
    <2> QED
      BY <1>4, <2>7, <2>8 DEF ReportInv
  <1> QED
    BY <1>7, <1>8

LEMMA DamageKeeps == ASSUME ReportInv, Aimed, NEW q \in R!Requests, R!DamageDeclared(q) PROVE ReportInv'
  <1>1. asked \in [R!Requests -> PageRequest]
    BY DEF ReportInv, ReportTypes
  <1>2. PICK o \in PageRequest : o = asked[q]
    BY <1>1
  <1>3. PICK c : c = R!Ask("reload", o.of, {})
    OBVIOUS
  <1>4. c \in PageRequest /\ c.kind = "reload" /\ c.of = o.of /\ c.at = "sent" /\ c.heard
    BY <1>2, <1>3 DEF R!Ask, PageRequest, Kinds
  <1>5. o.heard /\ o.kind = "damage" /\ asked' = [asked EXCEPT ![q] = c]
        /\ hurried' = (hurried \/ taking # None \/ R!Heard(Writers) # {q})
        /\ UNCHANGED <<view, findings, taking, address, stored, sent>>
    BY <1>2, <1>3 DEF R!DamageDeclared, R!Answers, Writers, R!serverVars
  <1>6. \A p \in R!Requests : asked'[p] = IF p = q THEN c ELSE asked[p]
    BY <1>1, <1>5
  <1>7. ReportTypes'
    BY <1>1, <1>4, <1>5 DEF ReportInv, ReportTypes
  <1>8. ASSUME ~hurried' PROVE Alone' /\ Apart'
    <2>1. ~hurried /\ taking = None /\ R!Heard(Writers) = {q} /\ Alone /\ Apart
      BY <1>5, <1>8 DEF ReportInv
    <2>2. \A p \in R!Requests : p # q => ~Hears(asked[p], Writers)
      BY <2>1, HeardIs
    <2>3. \A p \in R!Requests : p # q =>
             ~Hears(asked'[p], Writers) /\ ~Hears(asked'[p], Works) /\ ~Hears(asked'[p], R!Loads)
             /\ ~Hears(asked'[p], R!Operations)
      BY <1>6, <2>2 DEF Hears, Writers, Works, R!Loads, R!Operations
    <2>4. ~Hears(asked'[q], R!Operations)
      BY <1>4, <1>6 DEF Hears, R!Operations
    <2>5. Alone'
      BY <1>5, <2>1, <2>3, <2>4 DEF Alone
    <2>6. Own(c)
      <3>1. Own(o)
        BY <1>2, <2>1 DEF Apart
      <3>2. o.of \in Sessions
        BY <1>2, <1>5 DEF Aimed, Writers, R!Operations
      <3> QED
        BY <1>4, <3>2 DEF Own
    <2>7. Apart'
      BY <1>5, <1>6, <2>1, <2>6 DEF Apart
    <2> QED
      BY <2>5, <2>7
  <1> QED
    BY <1>7, <1>8 DEF ReportInv

LEMMA AimStays == ASSUME ReportInv, Aimed, R!ReportPageNext PROVE Aimed'
  <1>1. asked \in [R!Requests -> PageRequest]
    BY DEF ReportInv, ReportTypes
  <1>2. CASE UNCHANGED asked
    BY <1>2 DEF Aimed
  <1>3. CASE R!LeavePage
    <2>1. \A q \in R!Requests : asked'[q].kind = asked[q].kind /\ asked'[q].of = asked[q].of
      BY <1>1, <1>3 DEF R!LeavePage, R!Unheard, PageRequest
    <2> QED
      BY <2>1 DEF Aimed
  <1>4. ASSUME NEW q \in R!Requests, NEW c, asked' = [asked EXCEPT ![q] = c],
               c.kind \in Writers => c.of \in Sessions
        PROVE  Aimed'
    BY <1>1, <1>4 DEF Aimed
  <1>5. ASSUME NEW q \in R!Requests, NEW k, NEW s, R!Send(q, k, s, {}) \/ R!Send(q, k, s, findings),
               k \in Writers => s \in Sessions
        PROVE  Aimed'
    BY <1>4, <1>5 DEF R!Send, R!Ask
  <1>6. ASSUME NEW q \in R!Requests, NEW k, NEW text, R!Operate(q, k, text), text \in {findings, {}}
        PROVE  Aimed'
    <2>1. view.of \in Sessions /\ R!Send(q, k, view.of, text)
      BY <1>6 DEF R!Operate, R!Editable, ReportInv, ReportTypes, Shown
    <2> QED
      BY <1>5, <1>6, <2>1
  <1>7. ASSUME NEW q \in R!Requests, R!LoadChoices(q) PROVE Aimed'
    BY <1>5, <1>7 DEF R!LoadChoices, Writers, R!Loads, R!Operations
  <1>8. ASSUME NEW q \in R!Requests, NEW s \in Sessions, R!LoadView(q, s) PROVE Aimed'
    BY <1>5, <1>8 DEF R!LoadView
  <1>9. ASSUME NEW q \in R!Requests, NEW a \in Sessions \cup {"picker"}, R!Load(q, a) PROVE Aimed'
    BY <1>7, <1>8, <1>9 DEF R!Load
  <1>10. CASE \E q \in R!Requests : R!WireStep(q)
    <2>1. PICK q \in R!Requests : R!WireStep(q)
      BY <1>10
    <2>2. PICK o \in PageRequest : o = asked[q]
      BY <1>1
    <2>3. ASSUME NEW got, NEW l, R!Served(q, got, l) PROVE Aimed'
      <3>1. PICK c : c = [o EXCEPT !.at = "served", !.got = got, !.locked = l]
        OBVIOUS
      <3>2. c.kind = o.kind /\ c.of = o.of
        BY <2>2, <3>1 DEF PageRequest
      <3>3. asked' = [asked EXCEPT ![q] = c]
        BY <2>2, <2>3, <3>1 DEF R!Served
      <3>4. o.kind \in Writers => o.of \in Sessions
        BY <2>2 DEF Aimed
      <3> QED
        BY <1>4, <3>2, <3>3, <3>4
    <2>4. CASE R!ServeRead(q) \/ R!ServeChoices(q) \/ R!ServeWrite(q) \/ R!ServeDamage(q)
      BY <2>3, <2>4 DEF R!ServeRead, R!ServeChoices, R!ServeWrite, R!ServeDamage
    <2>5. CASE R!Fail(q)
      <3>1. PICK c : c = [o EXCEPT !.heard = FALSE]
        OBVIOUS
      <3>2. c.kind = o.kind /\ c.of = o.of
        BY <2>2, <3>1 DEF PageRequest
      <3> QED
        BY <1>4, <2>2, <2>5, <3>1, <3>2 DEF R!Fail, R!Unheard, Aimed
    <2>6. CASE R!DamageDeclared(q)
      <3>1. PICK c : c = R!Ask("reload", o.of, {})
        OBVIOUS
      <3>2. c.of \in Sessions
        BY <2>2, <2>6, <3>1 DEF R!DamageDeclared, R!Answers, R!Ask, Aimed, Writers, R!Operations
      <3> QED
        BY <1>4, <2>2, <2>6, <3>1, <3>2 DEF R!DamageDeclared
    <2>7. CASE R!Vanish(q) \/ R!ViewLoaded(q) \/ R!ChoicesLoaded(q) \/ R!Written(q)
      <3>1. asked' = [asked EXCEPT ![q] = R!Over]
        BY <2>7 DEF R!Vanish, R!ViewLoaded, R!ChoicesLoaded, R!Written, R!Taken
      <3> QED
        BY <1>4, <3>1 DEF R!Over, R!Nothing, Writers, R!Loads, R!Operations
    <2> QED
      BY <2>1, <2>4, <2>5, <2>6, <2>7 DEF R!WireStep
  <1>11. CASE R!WorkerStep
    <2>1. ASSUME NEW q \in R!Requests, R!SaveDraft(q) \/ R!Submit(q) \/ R!DeclareDamage(q)
          PROVE  Aimed'
      BY <1>6, <2>1 DEF R!SaveDraft, R!Submit, R!DeclareDamage
    <2>2. ASSUME NEW q \in R!Requests,
                 \/ \E a \in Sessions \cup {"picker"} : R!Enter(q, a)
                 \/ \E s \in Sessions : R!Open(q, s)
                 \/ R!BackToList(q)
          PROVE  Aimed'
      BY <1>7, <1>8, <1>9, <2>2 DEF R!Enter, R!Open, R!BackToList
    <2>3. ASSUME NEW q \in R!Requests, R!Retry(q)
          PROVE  Aimed'
      BY <1>9, <2>3 DEF R!Retry, ReportInv, ReportTypes
    <2>4. CASE R!Write \/ R!TakePhotos \/ R!PhotosRead \/ \E s \in Sessions : R!Remove(s)
      BY <1>2, <2>4 DEF R!Write, R!TakePhotos, R!PhotosRead, R!Remove
    <2> QED
      BY <1>3, <1>11, <2>1, <2>2, <2>3, <2>4 DEF R!WorkerStep
  <1> QED
    BY <1>10, <1>11 DEF R!ReportPageNext

LEMMA StepKeeps == ASSUME ReportInv, Aimed, R!ReportPageNext PROVE ReportInv'
  <1>1. CASE R!LeavePage
    BY <1>1, ReportLeaveKeeps
  <1>2. CASE R!Write \/ R!TakePhotos \/ R!PhotosRead \/ \E s \in Sessions : R!Remove(s)
    BY <1>2, FieldsKeep
  <1>3. ASSUME NEW q \in R!Requests,
               \/ \E a \in Sessions \cup {"picker"} : R!Enter(q, a)
               \/ \E s \in Sessions : R!Open(q, s)
               \/ R!BackToList(q) \/ R!Retry(q)
        PROVE  ReportInv'
    <2>1. PICK a \in Sessions \cup {"picker"} :
             /\ R!Load(q, a) \/ (a \in Sessions /\ R!LoadView(q, a)) \/ (a = "picker" /\ R!LoadChoices(q))
             /\ address' = a
      BY <1>3 DEF R!Enter, R!Open, R!BackToList, R!Retry, ReportInv, ReportTypes
    <2>2. UNCHANGED <<view, findings, taking, R!serverVars>>
      BY <1>3 DEF R!Enter, R!Open, R!BackToList, R!Retry
    <2>3. R!LoadChoices(q) \/ (a \in Sessions /\ R!LoadView(q, a))
      BY <2>1 DEF R!Load
    <2> QED
      BY <2>1, <2>2, <2>3, ChoicesKeep, LoadKeeps
  <1>4. ASSUME NEW q \in R!Requests, R!SaveDraft(q) \/ R!Submit(q) \/ R!DeclareDamage(q)
        PROVE  ReportInv'
    <2>1. PICK k \in R!Operations, text \in {findings, {}} : R!Operate(q, k, text)
      BY <1>4 DEF R!SaveDraft, R!Submit, R!DeclareDamage, R!Operations
    <2>2. text \in SUBSET Sessions
      BY <2>1 DEF ReportInv, ReportTypes
    <2> QED
      BY <2>1, <2>2, OperateKeeps
  <1>5. ASSUME NEW q \in R!Requests, R!WireStep(q) PROVE ReportInv'
    BY <1>5, ReportServeKeeps, WriteKeeps, FailKeeps, ReportAnswerKeeps, DamageKeeps DEF R!WireStep
  <1> QED
    BY <1>1, <1>2, <1>3, <1>4, <1>5 DEF R!ReportPageNext, R!WorkerStep

LEMMA StutterStays ==
    ASSUME ReportInv, Aimed, UNCHANGED R!reportPageVars PROVE ReportInv' /\ Aimed'
  <1>1. UNCHANGED <<address, view, findings, taking, hurried, stored, sent, asked>>
    BY DEF R!reportPageVars, R!pageVars, R!serverVars
  <1> QED
    BY <1>1 DEF ReportInv, ReportTypes, Alone, Apart, Aimed

LEMMA AimedAtFirst == R!ReportPageInit => Aimed
  BY DEF R!ReportPageInit, R!Nothing, Aimed, Writers, R!Loads, R!Operations

LEMMA InvWritten == ReportInv => R!WrittenUnderItsHeading
  BY DEF ReportInv, Apart, R!WrittenUnderItsHeading

-----------------------------------------------------------------------------
(* The day at the devices                                                  *)

DayInv == PageInv /\ CameraInv /\ ReportInv /\ Aimed

LEMMA DayInvariant ==
    /\ DayInit => DayInv
    /\ DayInv /\ [DayNext]_dayVars => DayInv' /\ CommitsLast /\ Stays
  <1>1. DayInit => DayInv
    BY InitCamera, ReportInit, AimedAtFirst DEF DayInit, NoTerminal, DayInv
  <1>2. ASSUME DayInv, UNCHANGED terminalVars
        PROVE  PageInv' /\ CameraInv' /\ CommitsLast /\ Stays
    <2>1. UNCHANGED T!scannerVars
      BY <1>2 DEF terminalVars, T!scannerVars, T!screenVars, T!cameraVars
    <2> QED
      BY <1>2, <2>1, StutterKeeps DEF DayInv
  <1>3. ASSUME DayInv, T!ScannerNext
        PROVE  PageInv' /\ CameraInv' /\ CommitsLast /\ Stays
    BY <1>3, ScannerKeepsPage, ScannerKeepsCamera DEF DayInv
  <1>4. ASSUME DayInv, UNCHANGED reportVars
        PROVE  ReportInv' /\ Aimed'
    <2>1. UNCHANGED R!reportPageVars
      BY <1>4 DEF reportVars, R!reportPageVars, R!pageVars, R!serverVars
    <2> QED
      BY <1>4, <2>1, StutterStays DEF DayInv
  <1>5. ASSUME DayInv, R!ReportPageNext
        PROVE  ReportInv' /\ Aimed'
    BY <1>5, StepKeeps, AimStays DEF DayInv
  <1> QED
    BY <1>1, <1>2, <1>3, <1>4, <1>5 DEF DayNext, dayVars, DayInv

LEMMA DayAlways == DaySpec => []DayInv /\ [][CommitsLast /\ Stays]_dayVars
  BY DayInvariant, PTL DEF DaySpec

(* The state of the page, its calls, what the server has recorded and what *)
(* is left of the bounds have their types in every reachable state: what   *)
(* is asked is a label, what is committed an item with an operation id.    *)
THEOREM TerminalTypeCorrect == DaySpec => []T!TasksTypeOK
  <1>1. DayInv => T!TasksTypeOK
    BY DEF DayInv, PageInv, PagesTyped
  <1> QED
    BY <1>1, DayAlways, PTL

(* The server counts no more units than first scans were accepted, however *)
(* requests fail, answers are lost, commits are repeated and pages left    *)
(* (TempStorageTask.tsx:147-149, 158-166).                                 *)
THEOREM AcceptedBeforeCounted == DaySpec => []CountedAsHandled
  <1>1. DayInv => CountedAsHandled
    BY InvCounts DEF DayInv, CountedAsHandled
  <1> QED
    BY <1>1, DayAlways, PTL

(* A commit is of what the page took last (busy, SortingTask.tsx:58;       *)
(* setView(null), PackingTask.tsx:60).                                     *)
THEOREM CommitsTheLast == DaySpec => CommitsWhatWasScanned
  <1>1. [CommitsLast /\ Stays]_dayVars =>
           [\A c \in calls' \ calls :
               (c.kind = "commit" /\ c.mine /\ c.answer = "none") => c.item = last]_T!screenVars
    BY DEF CommitsLast, dayVars, terminalVars, T!screenVars
  <1> QED
    BY <1>1, DayAlways, PTL DEF CommitsWhatWasScanned, T!CommitsWhatWasScanned

(* A text that is still read when the scanner is closed or its camera is   *)
(* changed stays in its loop (ContinuousScanner.tsx:352).                  *)
THEOREM TextStays == DaySpec => TextStaysInItsLoop
  <1>1. [CommitsLast /\ Stays]_dayVars =>
           [\A n \in Loops :
              (loop[n].at = "reading" /\ loop[n].life # "wanted" /\ loop'[n].at = "off"
                   /\ day.scanner = "tesseract")
              => UNCHANGED <<T!screenVars, held>> \/ screen' = T!Mounted]_T!scannerVars
    BY DEF Stays, dayVars, terminalVars, T!scannerVars, T!screenVars, T!cameraVars
  <1> QED
    BY <1>1, DayAlways, PTL DEF TextStaysInItsLoop, T!TextStaysInItsLoop

(* What the worker finds in one session stays under its heading, on the    *)
(* page and in its row, for a worker who lets a step of the page finish    *)
(* before a report is loaded (ReceivingReport.tsx:105-126, 150-210).       *)
THEOREM FindingsStay == DaySpec => []WrittenUnderItsHeading
  <1>1. DayInv => WrittenUnderItsHeading
    BY InvWritten DEF DayInv, WrittenUnderItsHeading
  <1> QED
    BY <1>1, DayAlways, PTL
=============================================================================
