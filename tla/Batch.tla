-------------------------------- MODULE Batch --------------------------------
(***************************************************************************)
(* Batches built by remote workers and received unit by unit               *)
(* (backend/src/modules/batches/batches.service.ts), with the batch branch *)
(* of the receiving home that scans them                                   *)
(* (receiving.service.ts: confirmBatchUnit).                               *)
(*                                                                         *)
(* Every operation is one READ COMMITTED transaction: it reads the batch,  *)
(* decides, and commits guarded updates whose WHERE is evaluated again on  *)
(* the committed row.  A worker's call is a reading step and a committing  *)
(* step; calls of different workers interleave between them.  A guard that *)
(* fails at the commit rolls everything back and the call ends.            *)
(***************************************************************************)
EXTENDS Naturals, FiniteSets, FiniteSetsExt

CONSTANTS
    Workers,       \* concurrent callers; each makes one call at a time
    Batches,       \* identities (uuid) of batch rows
    MaxCode,       \* bound: batch codes of the day are 1 .. MaxCode
    MaxUnit,       \* bound: unit codes AYP are 1 .. MaxUnit
    Keys,          \* client idempotency keys
    Inherited,     \* the batches that may exist at the start, with their status
    InheritedSize, \* number of units of an inherited batch
    Handlers,      \* the operations that are called
    MayFail,       \* may a call stop between two of its steps?
    None

ASSUME BatchAssumption ==
    /\ MaxCode \in Nat /\ MaxUnit \in Nat /\ InheritedSize \in Nat
    /\ IsFiniteSet(Batches)
    /\ \A old \in Inherited :
          /\ DOMAIN old \subseteq Batches
          /\ \A b \in DOMAIN old :
                old[b] \in {"CREATED", "SUBMITTED", "ACCEPTED", "SENT_TO_RECEIVING"}
          /\ Cardinality(DOMAIN old) * InheritedSize <= MaxUnit
          /\ Cardinality(DOMAIN old) <= MaxCode
    /\ MayFail \in BOOLEAN
    /\ None \notin Batches \cup Keys \cup {"auto"}

VARIABLES
    batch,   \* Batch rows
    item,    \* BatchItem rows, by the code of their unit
    units,   \* the highest AyroviUnit code (units survive their batch)
    arrival, \* the batch an ExpectedArrival with this code was made for
    line,    \* number of ReceivingProduct rows of an arrival and a unit
    call     \* the call each worker has in flight

vars == <<batch, item, units, arrival, line, call>>
rows == <<batch, item, units, arrival, line>>

Codes == 1 .. MaxCode
Units == 1 .. MaxUnit
Status ==
    {"none", "CREATED", "SUBMITTED", "ACCEPTED", "SENT_TO_RECEIVING",
     "RECEIVING_IN_PROGRESS", "RECEIVING_COMPLETED", "VOIDED", "DELETED"}
Terminal == {"RECEIVING_COMPLETED", "VOIDED"}

(* TRANSITIONS of batch-status.ts, "void" apart.                           *)
NextStatus ==
    [submit |-> <<"CREATED", "SUBMITTED">>,
     accept |-> <<"SUBMITTED", "ACCEPTED">>,
     send |-> <<"ACCEPTED", "SENT_TO_RECEIVING">>,
     startReceiving |-> <<"SENT_TO_RECEIVING", "RECEIVING_IN_PROGRESS">>,
     completeReceiving |-> <<"RECEIVING_IN_PROGRESS", "RECEIVING_COMPLETED">>]
Allowed(from, action) == NextStatus[action][1] = from
Voidable == Status \ (Terminal \cup {"none", "DELETED"})

NoBatch == [status |-> "none", code |-> 0, key |-> None, expected |-> 0,
            scanned |-> 0, submitKey |-> None, sendKey |-> None,
            completeKey |-> None]
NoItem == [batch |-> None, key |-> None, status |-> "none"]
Idle == [stage |-> "idle"]

Exists(b) == batch[b].status \notin {"none", "DELETED"}
ItemsOf(b) == {u \in Units : item[u].batch = b}
ReceivedOf(b) == {u \in ItemsOf(b) : item[u].status = "RECEIVED"}

(* What a call has decided on, in each of its stages.                      *)
Moves == DOMAIN NextStatus \cup {"void", "counting"}
Decided(c) ==
    /\ c.stage = "void" => c.from \in Voidable
    /\ c.stage = "counting" => c.from = "RECEIVING_IN_PROGRESS"
    /\ c.stage \in DOMAIN NextStatus => Allowed(c.from, c.stage)
    /\ c.stage \in {"submit", "send"} => c.key \in Keys
    /\ c.stage \in {"counting", "completeReceiving"} => c.key \in Keys \cup {"auto"}
Call ==
    {Idle}
    \cup {c \in [stage : {"creating"}, key : Keys, first : BOOLEAN, code : Codes,
                 unit : 1 .. (MaxUnit + 1), depth : 0 .. 1] : c.first => c.unit \in Units}
    \cup [stage : {"numbering"}, batch : Batches, key : Keys, seen : Nat]
    \cup [stage : {"adding"}, batch : Batches, key : Keys, seen : Nat, unit : Units]
    \cup {c \in [stage : Moves, batch : Batches, key : Keys \cup {None, "auto"},
                 from : Status] : Decided(c)}
    \cup [stage : {"receiving"}, batch : Batches, unit : Units, seen : Nat,
          expected : Nat, home : BOOLEAN]
    \cup [stage : {"complete"}, batch : Batches, key : Keys \cup {"auto"}]
    \cup [stage : {"homeStart", "homeArrival"}, batch : Batches, unit : Units]
    \cup [stage : {"homeLine", "homeWrite", "homeReceive"}, batch : Batches,
          unit : Units, code : Codes]

BatchRow ==
    [status : Status, code : 0 .. MaxCode, key : Keys \cup {None},
     expected : Nat, scanned : Nat, submitKey : Keys \cup {None},
     sendKey : Keys \cup {None, "auto"}, completeKey : Keys \cup {None, "auto"}]
ItemRow ==
    [batch : Batches \cup {None}, key : Keys \cup {None},
     status : {"none", "REGISTERED", "RECEIVED"}]

TypeOK ==
    /\ batch \in [Batches -> BatchRow]
    /\ item \in [Units -> ItemRow]
    /\ units \in 0 .. MaxUnit
    /\ arrival \in [Codes -> Batches \cup {None}]
    /\ line \in [Codes -> [Units -> Nat]]
    /\ call \in [Workers -> Call]

(* Batches of earlier days and releases, numbered as they were created;    *)
(* the units of batches that were built side by side alternate.            *)
Inheriting(old, code, owner) ==
    /\ \A b \in DOMAIN old :
           Cardinality({u \in DOMAIN owner : owner[u] = b}) = InheritedSize
    /\ batch = [b \in Batches |->
           IF b \notin DOMAIN old THEN NoBatch
           ELSE [NoBatch EXCEPT
                    !.status = old[b], !.code = code[b],
                    !.expected = InheritedSize,
                    !.sendKey = IF old[b] = "SENT_TO_RECEIVING"
                                THEN "auto" ELSE None]]
    /\ item = [u \in Units |->
           IF u \notin DOMAIN owner THEN NoItem
           ELSE [batch |-> owner[u], key |-> None, status |-> "REGISTERED"]]
    /\ units = Cardinality(DOMAIN old) * InheritedSize
    /\ arrival = [c \in Codes |-> None]
    /\ line = [c \in Codes |-> [u \in Units |-> 0]]
    /\ call = [w \in Workers |-> Idle]

Init ==
    \E old \in Inherited :
    \E code \in [DOMAIN old -> Codes],
       owner \in [1 .. Cardinality(DOMAIN old) * InheritedSize -> DOMAIN old] :
        /\ \A b, c \in DOMAIN old : code[b] = code[c] => b = c
        /\ Inheriting(old, code, owner)

Called(w, handler) == handler \in Handlers /\ call[w] = Idle
At(w, stage) == call[w].stage = stage
Goto(w, next) == call' = [call EXCEPT ![w] = next]
Read(w, next) == Goto(w, next) /\ UNCHANGED rows

-----------------------------------------------------------------------------
(* The highest code in use, and what the next batch and unit will be       *)
(* called: codes of batches that were deleted are free again, codes of     *)
(* units never are.                                                        *)
LastCode == Max({batch[b].code : b \in {c \in Batches : Exists(c)}} \cup {0})

(* create: a known key is answered with its batch; otherwise the           *)
(* transaction reads the last codes.                                       *)
ReadForCreate(w, k, first, depth) ==
    Read(w, [stage |-> "creating", key |-> k, first |-> first,
             code |-> LastCode + 1, unit |-> units + 1, depth |-> depth])

Create(w, k, first) ==
    /\ Called(w, "create")
    /\ \A b \in Batches : Exists(b) => batch[b].key # k
    /\ LastCode < MaxCode /\ (first => units < MaxUnit)
    /\ ReadForCreate(w, k, first, 0)

(* Its commit: key, batch code and unit code are unique.                   *)
KeyFree(k) == \A b \in Batches : Exists(b) => batch[b].key # k
CodeFree(c) == \A b \in Batches : Exists(b) => batch[b].code # c
ItemKeyFree(k) == \A u \in Units : item[u].batch # None => item[u].key # k
Register(u, b, k) ==
    /\ item' = [item EXCEPT ![u] = [batch |-> b, key |-> k,
                                    status |-> "REGISTERED"]]
    /\ units' = u

CommitCreate(w, b) ==
    /\ At(w, "creating")
    /\ batch[b] = NoBatch
    /\ LET c == call[w] IN
       /\ KeyFree(c.key) /\ CodeFree(c.code)
       /\ batch' = [batch EXCEPT ![b] =
              [NoBatch EXCEPT !.status = "CREATED", !.code = c.code,
                              !.key = c.key,
                              !.expected = IF c.first THEN 1 ELSE 0]]
       /\ IF c.first
          THEN /\ units < c.unit /\ ItemKeyFree(c.key)
               /\ Register(c.unit, b, c.key)
          ELSE UNCHANGED <<item, units>>
    /\ Goto(w, Idle)
    /\ UNCHANGED <<arrival, line>>

(* A lost race: the winner of the key is answered; a clash of codes runs   *)
(* the whole creation once more; a clash of unit codes aborts the          *)
(* transaction.                                                            *)
CreateRaced(w) ==
    /\ At(w, "creating")
    /\ LET c == call[w] IN
       \/ /\ ~KeyFree(c.key) \/ (c.first /\ CodeFree(c.code) /\ units >= c.unit)
          /\ Read(w, Idle)
       \/ /\ KeyFree(c.key) /\ ~CodeFree(c.code)
          /\ IF c.depth < 1 /\ LastCode < MaxCode
                /\ (c.first => units < MaxUnit)
             THEN ReadForCreate(w, c.key, c.first, 1)
             ELSE Read(w, Idle)

-----------------------------------------------------------------------------
(* addUnit: reads a batch that is CREATED and its count, ...               *)
AddUnit(w, b, k) ==
    /\ Called(w, "addUnit")
    /\ ItemKeyFree(k)
    /\ batch[b].status = "CREATED"
    /\ Read(w, [stage |-> "numbering", batch |-> b, key |-> k,
                seen |-> batch[b].expected])

(* ... then the last unit code; ...                                        *)
NumberUnit(w) ==
    /\ At(w, "numbering")
    /\ units < MaxUnit
    /\ LET c == call[w]
       IN  Read(w, [stage |-> "adding", batch |-> c.batch, key |-> c.key,
                    seen |-> c.seen, unit |-> units + 1])

(* Mutant: the count is written from the value that was read, unguarded.   *)
CommitAddBlind(w) ==
    /\ At(w, "adding")
    /\ LET c == call[w] IN
       /\ Exists(c.batch) /\ ItemKeyFree(c.key) /\ units < c.unit
       /\ batch' = [batch EXCEPT ![c.batch].expected = c.seen + 1]
       /\ Register(c.unit, c.batch, c.key)
    /\ Goto(w, Idle)
    /\ UNCHANGED <<arrival, line>>

(* ... its commit is guarded by the count and by the unique indexes, not   *)
(* by the status.                                                          *)
CommitAdd(w) ==
    /\ At(w, "adding")
    /\ LET c == call[w] IN
       \/ /\ Exists(c.batch) /\ batch[c.batch].expected = c.seen
          /\ ItemKeyFree(c.key) /\ units < c.unit
          /\ batch' = [batch EXCEPT ![c.batch].expected = @ + 1]
          /\ Register(c.unit, c.batch, c.key)
       \/ /\ \/ ~Exists(c.batch) \/ batch[c.batch].expected # c.seen
             \/ ~ItemKeyFree(c.key) \/ units >= c.unit
          /\ UNCHANGED <<batch, item, units>>
    /\ Goto(w, Idle)
    /\ UNCHANGED <<arrival, line>>

-----------------------------------------------------------------------------
(* The transitions.  Each reads the batch and commits guarded by the       *)
(* status it read.                                                         *)
MoveCall(action, b, k) ==
    [stage |-> action, batch |-> b, key |-> k, from |-> batch[b].status]

Submit(w, b, k) ==
    /\ Called(w, "submit")
    /\ batch[b].submitKey # k
    /\ batch[b].expected >= 1
    /\ Allowed(batch[b].status, "submit")
    /\ Read(w, MoveCall("submit", b, k))

Accept(w, b) ==
    /\ Called(w, "accept")
    /\ Allowed(batch[b].status, "accept")
    /\ Read(w, MoveCall("accept", b, None))

Send(w, b, k) ==
    /\ Called(w, "send")
    /\ batch[b].sendKey # k
    /\ Allowed(batch[b].status, "send")
    /\ Read(w, MoveCall("send", b, k))

StartReceiving(w, b) ==
    /\ Called(w, "startReceiving")
    /\ Allowed(batch[b].status, "startReceiving")
    /\ Read(w, MoveCall("startReceiving", b, None))

VoidBatch(w, b) ==
    /\ Called(w, "voidBatch")
    /\ batch[b].status \in Voidable
    /\ Read(w, MoveCall("void", b, None))

(* The commit: an update guarded by the status that was read (and by what  *)
(* else its WHERE says); nothing when the row moved meanwhile.             *)
CommitMove(w, action, where, row) ==
    /\ At(w, action)
    /\ LET c == call[w] IN
       batch' = IF where /\ batch[c.batch].status = c.from
                THEN [batch EXCEPT ![c.batch] = row] ELSE batch
    /\ Goto(w, Idle)
    /\ UNCHANGED <<item, units, arrival, line>>

Row(w) == batch[call[w].batch]
SubmitKeyFree(k) == \A b \in Batches : Exists(b) => batch[b].submitKey # k
SendKeyFree(k) == \A b \in Batches : Exists(b) => batch[b].sendKey # k

(* submit chains accept and send in its own transaction.                   *)
CommitSubmit(w) ==
    CommitMove(w, "submit",
        /\ Row(w).submitKey = None /\ Row(w).sendKey = None
        /\ SubmitKeyFree(call[w].key),
        [Row(w) EXCEPT !.status = "SENT_TO_RECEIVING",
                       !.submitKey = call[w].key, !.sendKey = "auto"])

(* accept chains send.                                                     *)
CommitAccept(w) ==
    CommitMove(w, "accept", Row(w).sendKey = None,
        [Row(w) EXCEPT !.status = "SENT_TO_RECEIVING", !.sendKey = "auto"])

CommitSend(w) ==
    CommitMove(w, "send",
        Row(w).sendKey = None /\ SendKeyFree(call[w].key),
        [Row(w) EXCEPT !.status = "SENT_TO_RECEIVING",
                       !.sendKey = call[w].key])

CommitStart(w) ==
    CommitMove(w, "startReceiving", TRUE,
               [Row(w) EXCEPT !.status = "RECEIVING_IN_PROGRESS"])

CommitVoid(w) ==
    CommitMove(w, "void", TRUE, [Row(w) EXCEPT !.status = "VOIDED"])

(* hardDelete: the row and, by cascade, its items.                         *)
HardDelete(w, b) ==
    /\ Called(w, "hardDelete")
    /\ Exists(b)
    /\ batch' = [batch EXCEPT ![b].status = "DELETED"]
    /\ item' = [u \in Units |-> IF item[u].batch = b THEN NoItem ELSE item[u]]
    /\ UNCHANGED <<units, arrival, line, call>>

-----------------------------------------------------------------------------
(* receiveUnit: the batch is being received and the unit is one of its     *)
(* items; a unit already RECEIVED is answered without effect.              *)
ReadForReceive(w, b, u, home) ==
    IF /\ batch[b].status = "RECEIVING_IN_PROGRESS"
       /\ item[u].batch = b /\ item[u].status # "RECEIVED"
    THEN Read(w, [stage |-> "receiving", batch |-> b, unit |-> u,
                  seen |-> batch[b].scanned, expected |-> batch[b].expected,
                  home |-> home])
    ELSE Read(w, Idle)

ReceiveUnit(w, b, u) ==
    /\ Called(w, "receiveUnit")
    /\ batch[b].status = "RECEIVING_IN_PROGRESS"
    /\ ReadForReceive(w, b, u, FALSE)

(* Its commit flips the item and increments the counter it read, or        *)
(* neither.  The receiving home completes the batch at n/n.                *)
CommitReceive(w) ==
    /\ At(w, "receiving")
    /\ LET c == call[w]
           counted == /\ item[c.unit].batch = c.batch
                      /\ item[c.unit].status = "REGISTERED"
                      /\ batch[c.batch].scanned = c.seen
       IN  IF counted
           THEN /\ item' = [item EXCEPT ![c.unit].status = "RECEIVED"]
                /\ batch' = [batch EXCEPT ![c.batch].scanned = @ + 1]
                /\ Goto(w, IF c.home /\ c.seen + 1 >= c.expected
                           THEN [stage |-> "complete", batch |-> c.batch,
                                 key |-> "auto"]
                           ELSE Idle)
           ELSE Goto(w, Idle) /\ UNCHANGED <<item, batch>>
    /\ UNCHANGED <<units, arrival, line>>

(* completeReceiving: reads the batch, then counts the units that are not  *)
(* received, then commits guarded by the status and an empty key.          *)
CompleteReceiving(w, b, k) ==
    /\ Called(w, "completeReceiving")
    /\ Exists(b)
    /\ Read(w, [stage |-> "complete", batch |-> b, key |-> k])

ReadForComplete(w) ==
    /\ At(w, "complete")
    /\ LET b == call[w].batch IN
       IF /\ Allowed(batch[b].status, "completeReceiving")
          /\ batch[b].scanned = batch[b].expected
       THEN Read(w, [stage |-> "counting", batch |-> b, key |-> call[w].key,
                     from |-> batch[b].status])
       ELSE Read(w, Idle)

CountMissing(w) ==
    /\ At(w, "counting")
    /\ IF ItemsOf(call[w].batch) = ReceivedOf(call[w].batch)
       THEN Read(w, [call[w] EXCEPT !.stage = "completeReceiving"])
       ELSE Read(w, Idle)

CompleteKeyFree(k) == \A b \in Batches : Exists(b) => batch[b].completeKey # k
CommitComplete(w) ==
    CommitMove(w, "completeReceiving",
        /\ Row(w).completeKey = None
        /\ call[w].key # "auto" => CompleteKeyFree(call[w].key),
        [Row(w) EXCEPT !.status = "RECEIVING_COMPLETED",
                       !.completeKey = call[w].key])

-----------------------------------------------------------------------------
(* confirmBatchUnit: a unit scanned at the receiving home.  Its batch is   *)
(* opened if need be, ...                                                  *)
HomeScan(w, u) ==
    /\ Called(w, "homeScan")
    /\ item[u].batch # None
    /\ LET b == item[u].batch IN
       /\ batch[b].status \in {"SENT_TO_RECEIVING", "RECEIVING_IN_PROGRESS"}
       /\ Read(w, [stage |-> IF batch[b].status = "SENT_TO_RECEIVING"
                             THEN "homeStart" ELSE "homeArrival",
                   batch |-> b, unit |-> u])

HomeStart(w) ==
    /\ At(w, "homeStart")
    /\ LET b == call[w].batch IN
       IF batch[b].status = "SENT_TO_RECEIVING"
       THEN /\ batch' = [batch EXCEPT ![b].status = "RECEIVING_IN_PROGRESS"]
            /\ Goto(w, [call[w] EXCEPT !.stage = "homeArrival"])
       ELSE Goto(w, Idle) /\ UNCHANGED batch
    /\ UNCHANGED <<item, units, arrival, line>>

(* ... the arrival with the code of the batch is found or created, ...     *)
HomeArrival(w) ==
    /\ At(w, "homeArrival")
    /\ LET b == call[w].batch
           code == batch[b].code
       IN  IF ~Exists(b)
           THEN Goto(w, Idle) /\ UNCHANGED arrival
           ELSE /\ arrival' = IF arrival[code] # None THEN arrival
                              ELSE [arrival EXCEPT ![code] = b]
                /\ Goto(w, [stage |-> "homeLine", batch |-> b,
                            unit |-> call[w].unit, code |-> code])
    /\ UNCHANGED <<batch, item, units, line>>

(* ... a product line of the unit is looked for and, if there is none,     *)
(* created as received, ...                                                *)
HomeLine(w) ==
    /\ At(w, "homeLine")
    /\ Read(w, [call[w] EXCEPT !.stage =
                   IF line[call[w].code][call[w].unit] > 0
                   THEN "homeReceive" ELSE "homeWrite"])

HomeWrite(w) ==
    /\ At(w, "homeWrite")
    /\ line' = [line EXCEPT ![call[w].code][call[w].unit] = @ + 1]
    /\ Goto(w, [call[w] EXCEPT !.stage = "homeReceive"])
    /\ UNCHANGED <<batch, item, units, arrival>>

(* ... and only then is the unit received.                                 *)
HomeReceive(w) ==
    /\ At(w, "homeReceive")
    /\ ReadForReceive(w, call[w].batch, call[w].unit, TRUE)

(* A call stops at an await: the process ends or the transaction times out.*)
Fail(w) ==
    /\ MayFail
    /\ call[w] # Idle
    /\ Read(w, Idle)

-----------------------------------------------------------------------------
Invoke(w) ==
    \/ \E k \in Keys :
         \/ \E first \in BOOLEAN : Create(w, k, first)
         \/ \E b \in Batches :
              \/ AddUnit(w, b, k) \/ Submit(w, b, k) \/ Send(w, b, k)
              \/ CompleteReceiving(w, b, k)
    \/ \E b \in Batches :
         \/ Accept(w, b) \/ StartReceiving(w, b) \/ VoidBatch(w, b)
         \/ HardDelete(w, b)
         \/ \E u \in Units : ReceiveUnit(w, b, u)
    \/ \E u \in Units : HomeScan(w, u)

Continue(w) ==
    \/ \E b \in Batches : CommitCreate(w, b)
    \/ CreateRaced(w) \/ NumberUnit(w) \/ CommitAdd(w)
    \/ CommitSubmit(w) \/ CommitAccept(w) \/ CommitSend(w) \/ CommitStart(w)
    \/ CommitVoid(w)
    \/ CommitReceive(w)
    \/ ReadForComplete(w) \/ CountMissing(w) \/ CommitComplete(w)
    \/ HomeStart(w) \/ HomeArrival(w) \/ HomeLine(w) \/ HomeWrite(w)
    \/ HomeReceive(w)

Next == \E w \in Workers : Invoke(w) \/ Continue(w) \/ Fail(w)

Spec == Init /\ [][Next]_vars

-----------------------------------------------------------------------------
(* The counters of a batch are its items: totalExpected counts the units,  *)
(* totalScanned the received ones, under parallel adds and scans, lost     *)
(* races, voids and crashes.                                               *)
CountsMatchItems ==
    \A b \in Batches : Exists(b) =>
        /\ batch[b].expected = Cardinality(ItemsOf(b))
        /\ batch[b].scanned = Cardinality(ReceivedOf(b))

(* The receiving home completes a batch at n/n: when its last unit is      *)
(* received and nobody is working, the batch is not left in progress.      *)
ReceivedMeansCompleted ==
    (\A w \in Workers : call[w] = Idle) =>
        \A b \in Batches :
            batch[b].status = "RECEIVING_IN_PROGRESS" =>
                ReceivedOf(b) # ItemsOf(b)

-----------------------------------------------------------------------------
(* A claim of the source that its interleavings do not keep.               *)

(* addUnit: units can only be added while CREATED.                         *)
AddedWhileCreated ==
    [][\A b \in Batches : Exists(b) =>
          (batch'[b].expected > batch[b].expected =>
              batch[b].status = "CREATED")]_vars
=============================================================================
