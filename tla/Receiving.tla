------------------------------ MODULE Receiving ------------------------------
(***************************************************************************)
(* The card-based physical receipt of ONE expected arrival                 *)
(* (backend/src/modules/receiving/receiving.service.ts) together with the  *)
(* audited admin corrections that rewrite its rows                         *)
(* (backend/src/modules/operations/corrections.service.ts).                *)
(*                                                                         *)
(* Every HTTP handler of the service first READS rows and then, after one  *)
(* or more awaits, runs one database transaction that WRITES.  Handlers of *)
(* different workers interleave at every await, so a handler is modelled   *)
(* as a request that moves through stages; what it read is kept in its     *)
(* own record, and the transaction is one atomic step (PostgreSQL, READ    *)
(* COMMITTED: a guarded updateMany re-evaluates its WHERE on the committed *)
(* row).  Requests bounds the number of handler calls of a behaviour: each *)
(* identifier is used for one call.                                        *)
(***************************************************************************)
EXTENDS Naturals, FiniteSets

CONSTANTS
    Sessions,      \* identities of receiving sessions of the arrival
    Openings,      \* sets of sessions that may be open when a behaviour starts
    Lines,         \* product cards of the arrival (aggregated by SKU)
    Unidentified,  \* cards with neither SKU nor reference: never matched
    Cartons,       \* carton cards of the arrival's shipment
    Expected,      \* expected quantity of each product card
    OpIds,         \* device-generated operation ids, stable across retries
    ScanLine,      \* the product card an operation id scans
    ScanQty,       \* the quantity it carries
    ScanCarton,    \* the carton card it scans in the CARTON lane
    Quantities,    \* quantities of scans without an id, and of corrections
    Requests,      \* handler calls
    Handlers,      \* the handlers that are called
    None

ASSUME OpeningsAssumption == Openings \subseteq SUBSET Sessions

ASSUME ReceivingAssumption ==
    /\ Unidentified \subseteq Lines
    /\ Expected \in [Lines -> Nat \ {0}]
    /\ ScanLine \in [OpIds -> Lines]
    /\ ScanQty \in [OpIds -> Nat \ {0}]
    /\ ScanCarton \in [OpIds -> Cartons]
    /\ Quantities \subseteq Nat
    /\ None \notin OpIds \cup Sessions \cup Cartons

VARIABLES
    arrival,      \* ExpectedArrival.status
    session,      \* ReceivingSession.status ("none": not created)
    line,         \* ReceivingProduct rows of each session
    carton,       \* WarehouseCarton.status
    receipt,      \* ReceivingCarton rows; a row's id is the call that wrote it
    scanEvent,    \* ReceivingScanEvent: operationId (unique) -> session
    openDisc,     \* number of OPEN ReceivingDiscrepancy rows of a session
    req,          \* the handler calls and what each has read so far
    matched,      \* units added by the PRODUCT_RECEIVED audit rows
    corrected,    \* an operator correction was written for the line
    applied,      \* how often a device operation was counted (history)
    completions   \* RECEIVING_COMPLETED* audit rows of the session

vars == <<arrival, session, line, carton, receipt, scanEvent, openDisc, req,
          matched, corrected, applied, completions>>

cartonVars == <<carton, receipt>>
logVars == <<matched, corrected, applied>>

(* The database: everything but the calls.                                 *)
dbVars == <<arrival, session, line, openDisc, scanEvent, completions,
            cartonVars, logVars>>

ArrivalStatus ==
    {"EXPECTED", "RECEIVING", "PAUSED", "RECEIVED", "RECEIVED_WITH_DISCREPANCY"}
SessionStatus ==
    {"none", "RECEIVING", "PAUSED", "COMPLETED", "COMPLETED_WITH_DISCREPANCY"}
LineStatus ==
    {"EXPECTED", "PARTIALLY_RECEIVED", "RECEIVED", "SHORT", "OVERAGE",
     "NEEDS_REVIEW"}
Closed == {"COMPLETED", "COMPLETED_WITH_DISCREPANCY"}
Active == {"RECEIVING", "PAUSED"}

LineRow == [received : Nat, status : LineStatus]
ReceiptRow == [id : Requests, sess : Sessions, carton : Cartons,
               op : OpIds \cup {None}, status : {"RECEIVED", "REVERSED"}]

(* The stages of a handler call and the locals each stage holds.           *)
IdleCall == [stage : {"unsent", "done", "starting"}]
SessionCall ==
    [stage : {"pausing", "resuming", "reopening", "flagging"}, sess : Sessions]
ScanCall ==
    [stage : {"scan", "rescan"}, sess : Sessions, line : Lines,
     op : OpIds \cup {None}, origin : OpIds \cup {None}, qty : Nat]
MatchCall ==
    [stage : {"match"}, sess : Sessions, line : Lines, op : OpIds \cup {None},
     origin : OpIds \cup {None}, qty : Nat, seen : Nat]
CartonCall ==
    [stage : {"carton"}, sess : Sessions, carton : Cartons,
     op : OpIds \cup {None}]
TallyCall == [stage : {"tally"}, sess : Sessions, supervisor : BOOLEAN]
ClosingCall == [stage : {"closing"}, sess : Sessions, dirty : BOOLEAN]
ReverseCall == [stage : {"reversing"}, row : ReceiptRow]

Call == IdleCall \cup SessionCall \cup ScanCall \cup MatchCall \cup CartonCall
            \cup TallyCall \cup ClosingCall \cup ReverseCall

Unsent == [stage |-> "unsent"]
Done == [stage |-> "done"]

TypeOK ==
    /\ arrival \in ArrivalStatus
    /\ session \in [Sessions -> SessionStatus]
    /\ line \in [Sessions -> [Lines -> LineRow]]
    /\ carton \in [Cartons -> {"EXPECTED", "RECEIVED"}]
    /\ receipt \in SUBSET ReceiptRow
    /\ scanEvent \in [OpIds -> Sessions \cup {None}]
    /\ openDisc \in [Sessions -> Nat]
    /\ req \in [Requests -> Call]
    /\ matched \in [Sessions -> [Lines -> Nat]]
    /\ corrected \in [Sessions -> [Lines -> BOOLEAN]]
    /\ applied \in [OpIds -> Nat]
    /\ completions \in [Sessions -> Nat]

-----------------------------------------------------------------------------
(* Rows a new session is seeded with: nothing received yet; a card without *)
(* a usable identifier needs review.                                       *)
SeedLines ==
    [l \in Lines |->
        [received |-> 0,
         status |-> IF l \in Unidentified THEN "NEEDS_REVIEW" ELSE "EXPECTED"]]

Init ==
    /\ \E open \in Openings :
          /\ arrival = IF open = {} THEN "EXPECTED" ELSE "RECEIVING"
          /\ session = [s \in Sessions |-> IF s \in open THEN "RECEIVING" ELSE "none"]
    /\ line = [s \in Sessions |-> SeedLines]
    /\ carton = [c \in Cartons |-> "EXPECTED"]
    /\ receipt = {}
    /\ scanEvent = [o \in OpIds |-> None]
    /\ openDisc = [s \in Sessions |-> 0]
    /\ req = [r \in Requests |-> Unsent]
    /\ matched = [s \in Sessions |-> [l \in Lines |-> 0]]
    /\ corrected = [s \in Sessions |-> [l \in Lines |-> FALSE]]
    /\ applied = [o \in OpIds |-> 0]
    /\ completions = [s \in Sessions |-> 0]

Called(r, handler) == handler \in Handlers /\ req[r] = Unsent
At(r, stage) == req[r].stage = stage
Goto(r, call) == req' = [req EXCEPT ![r] = call]

-----------------------------------------------------------------------------
(* start: refuse a received arrival, answer an active session if there is  *)
(* one, otherwise go on to create a session.                               *)
Start(r) ==
    /\ Called(r, "start")
    /\ arrival \notin {"RECEIVED", "RECEIVED_WITH_DISCREPANCY"}
    /\ \A s \in Sessions : session[s] \notin Active
    /\ Goto(r, [stage |-> "starting"])
    /\ UNCHANGED dbVars

(* The creating transaction: it repeats neither of the two checks.         *)
CreateSession(r, s) ==
    /\ At(r, "starting")
    /\ session[s] = "none"
    /\ session' = [session EXCEPT ![s] = "RECEIVING"]
    /\ line' = [line EXCEPT ![s] = SeedLines]
    /\ arrival' = "RECEIVING"
    /\ Goto(r, Done)
    /\ UNCHANGED <<openDisc, scanEvent, completions, cartonVars, logVars>>

-----------------------------------------------------------------------------
(* PRODUCT lane.  confirmProduct, first part: the session must be          *)
(* RECEIVING and the operation id not yet recorded (a replay is answered   *)
(* without effect).                                                        *)
ConfirmProduct(r, s, l, o, q) ==
    /\ Called(r, "confirmProduct")
    /\ session[s] = "RECEIVING"
    /\ o # None => scanEvent[o] = None
    /\ Goto(r, [stage |-> "scan", sess |-> s, line |-> l, op |-> o,
                origin |-> o, qty |-> q])
    /\ UNCHANGED dbVars

(* Mutant: the re-run of a raced scan works on the card it first loaded.   *)
ReadCardCached(r) ==
    /\ At(r, "scan")
    /\ LET c == req[r]
       IN  Goto(r, [stage |-> "match", sess |-> c.sess, line |-> c.line,
                    op |-> c.op, origin |-> c.origin, qty |-> c.qty,
                    seen |-> SeedLines[c.line].received])
    /\ UNCHANGED dbVars

(* Second part: read the product card.  A complete card is rejected.       *)
ReadCard(r) ==
    /\ At(r, "scan")
    /\ LET c == req[r]
           seen == line[c.sess][c.line].received
       IN  Goto(r, IF seen >= Expected[c.line]
                   THEN Done
                   ELSE [stage |-> "match", sess |-> c.sess, line |-> c.line,
                         op |-> c.op, origin |-> c.origin, qty |-> c.qty,
                         seen |-> seen])
    /\ UNCHANGED dbVars

(* The status a line takes when n units are counted on it.                 *)
CountedStatus(l, n) ==
    IF n = Expected[l] THEN "RECEIVED"
    ELSE IF n > Expected[l] THEN "OVERAGE" ELSE "PARTIALLY_RECEIVED"

(* What the writing transaction stores when it counts the scan c.          *)
CountScan(c) ==
    LET n == c.seen + c.qty IN
    /\ line' = [line EXCEPT ![c.sess][c.line] =
                   [received |-> n, status |-> CountedStatus(c.line, n)]]
    /\ scanEvent' = IF c.op = None THEN scanEvent
                    ELSE [scanEvent EXCEPT ![c.op] = c.sess]
    /\ openDisc' = IF n > Expected[c.line]
                   THEN [openDisc EXCEPT ![c.sess] = @ + 1]
                   ELSE openDisc
    /\ matched' = [matched EXCEPT ![c.sess][c.line] = @ + c.qty]
    /\ applied' = IF c.origin = None THEN applied
                  ELSE [applied EXCEPT ![c.origin] = @ + 1]

(* Mutant: the quantity is written whatever the row holds.                 *)
WriteProductBlind(r) ==
    /\ At(r, "match")
    /\ req[r].op # None => scanEvent[req[r].op] = None
    /\ CountScan(req[r])
    /\ Goto(r, Done)
    /\ UNCHANGED <<arrival, session, completions, corrected, cartonVars>>

(* Third part, the transaction: the quantity is written only while the row *)
(* still holds the value it was computed from; recording an operation id   *)
(* twice violates its unique index and rolls everything back.              *)
WriteProduct(r) ==
    /\ At(r, "match")
    /\ line[req[r].sess][req[r].line].received = req[r].seen
    /\ req[r].op # None => scanEvent[req[r].op] = None
    /\ CountScan(req[r])
    /\ Goto(r, Done)
    /\ UNCHANGED <<arrival, session, completions, corrected, cartonVars>>

(* The guard failed: another worker's receipt came first.  The scan is run *)
(* again, without its operation id.                                        *)
ProductRaced(r) ==
    /\ At(r, "match")
    /\ line[req[r].sess][req[r].line].received # req[r].seen
    /\ LET c == req[r]
       IN  Goto(r, [stage |-> "rescan", sess |-> c.sess, line |-> c.line,
                    op |-> None, origin |-> c.origin, qty |-> c.qty])
    /\ UNCHANGED dbVars

(* The re-run checks the session again.                                    *)
Rescan(r) ==
    /\ At(r, "rescan")
    /\ Goto(r, IF session[req[r].sess] = "RECEIVING"
               THEN [req[r] EXCEPT !.stage = "scan"] ELSE Done)
    /\ UNCHANGED dbVars

-----------------------------------------------------------------------------
(* CARTON lane.  confirmCarton, reads: the session is RECEIVING, the       *)
(* operation id is new and the carton the term identifies is not RECEIVED. *)
ConfirmCarton(r, s, c, o) ==
    /\ Called(r, "confirmCarton")
    /\ session[s] = "RECEIVING"
    /\ o # None => \A row \in receipt : row.op # o
    /\ carton[c] # "RECEIVED"
    /\ Goto(r, [stage |-> "carton", sess |-> s, carton |-> c, op |-> o])
    /\ UNCHANGED dbVars

(* A scan of the shipment's tracking number identifies a carton only when  *)
(* exactly one is still open.                                              *)
ConfirmByTracking(r, s, o) ==
    \E c \in Cartons :
        /\ {d \in Cartons : carton[d] # "RECEIVED"} = {c}
        /\ ConfirmCarton(r, s, c, o)

(* The transaction: a receipt row (operationId unique) and the card status.*)
WriteCarton(r) ==
    /\ At(r, "carton")
    /\ LET c == req[r] IN
       /\ c.op # None => \A row \in receipt : row.op # c.op
       /\ receipt' = receipt \cup
             {[id |-> r, sess |-> c.sess, carton |-> c.carton, op |-> c.op,
               status |-> "RECEIVED"]}
       /\ carton' = [carton EXCEPT ![c.carton] = "RECEIVED"]
    /\ Goto(r, Done)
    /\ UNCHANGED <<arrival, session, line, openDisc, scanEvent, completions,
                   logVars>>

-----------------------------------------------------------------------------
(* pause and resume: the status is checked, then written without a guard.  *)
Pause(r, s) ==
    /\ Called(r, "pause")
    /\ session[s] = "RECEIVING"
    /\ Goto(r, [stage |-> "pausing", sess |-> s])
    /\ UNCHANGED dbVars

WritePause(r) ==
    /\ At(r, "pausing")
    /\ session' = [session EXCEPT ![req[r].sess] = "PAUSED"]
    /\ arrival' = "PAUSED"
    /\ Goto(r, Done)
    /\ UNCHANGED <<line, openDisc, scanEvent, completions, cartonVars, logVars>>

(* resume; ensureWorkerSession resumes a paused session the same way.      *)
Resume(r, s) ==
    /\ Called(r, "resume")
    /\ session[s] = "PAUSED"
    /\ Goto(r, [stage |-> "resuming", sess |-> s])
    /\ UNCHANGED dbVars

WriteResume(r) ==
    /\ At(r, "resuming")
    /\ session' = [session EXCEPT ![req[r].sess] = "RECEIVING"]
    /\ arrival' = "RECEIVING"
    /\ Goto(r, Done)
    /\ UNCHANGED <<line, openDisc, scanEvent, completions, cartonVars, logVars>>

(* flag: an OPEN discrepancy on a session that was not closed when read.   *)
Flag(r, s) ==
    /\ Called(r, "flag")
    /\ session[s] \in Active
    /\ Goto(r, [stage |-> "flagging", sess |-> s])
    /\ UNCHANGED dbVars

WriteFlag(r) ==
    /\ At(r, "flagging")
    /\ openDisc' = [openDisc EXCEPT ![req[r].sess] = @ + 1]
    /\ Goto(r, Done)
    /\ UNCHANGED <<arrival, session, line, scanEvent, completions, cartonVars,
                   logVars>>

(* Mutant: a discrepancy that is already resolved is counted off again.    *)
ResolveAgain(r, s) ==
    /\ Called(r, "resolve")
    /\ session[s] # "none"
    /\ openDisc' = [openDisc EXCEPT ![s] = @ - 1]
    /\ Goto(r, Done)
    /\ UNCHANGED <<arrival, session, line, scanEvent, completions, cartonVars,
                   logVars>>

(* A supervisor resolves one OPEN discrepancy, whatever the session state. *)
ResolveDiscrepancy(r, s) ==
    /\ Called(r, "resolve")
    /\ openDisc[s] > 0
    /\ openDisc' = [openDisc EXCEPT ![s] = @ - 1]
    /\ Goto(r, Done)
    /\ UNCHANGED <<arrival, session, line, scanEvent, completions, cartonVars,
                   logVars>>

-----------------------------------------------------------------------------
(* reconcile: does the tally of the session show any discrepancy?          *)
ReceivedRows(s) == {row \in receipt : row.sess = s /\ row.status = "RECEIVED"}

(* Mutant: the tally forgets the units that are short.                     *)
ReconcileWithoutShort(s) ==
    \/ openDisc[s] > 0
    \/ \E l \in Lines : line[s][l].status = "OVERAGE"
    \/ Cardinality(Cartons) > Cardinality(ReceivedRows(s))

Reconcile(s) ==
    \/ openDisc[s] > 0
    \/ \E l \in Lines : \/ line[s][l].received < Expected[l]
                        \/ line[s][l].status = "OVERAGE"
    \/ Cardinality(Cartons) > Cardinality(ReceivedRows(s))

(* complete: the session is not closed.                                    *)
Complete(r, s, supervisor) ==
    /\ Called(r, "complete")
    /\ session[s] \in Active
    /\ Goto(r, [stage |-> "tally", sess |-> s, supervisor |-> supervisor])
    /\ UNCHANGED dbVars

(* recoverStuckSession: the operations path, always with that authority.   *)
RecoverStuckSession(r, s) ==
    /\ Called(r, "recover")
    /\ session[s] \in Active
    /\ Goto(r, [stage |-> "tally", sess |-> s, supervisor |-> TRUE])
    /\ UNCHANGED dbVars

(* The tally is read before the transaction that closes; a worker without  *)
(* the resolve permission may not close over discrepancies.                *)
Tally(r) ==
    /\ At(r, "tally")
    /\ LET c == req[r]
           dirty == Reconcile(c.sess)
       IN  Goto(r, IF dirty /\ ~c.supervisor THEN Done
                   ELSE [stage |-> "closing", sess |-> c.sess, dirty |-> dirty])
    /\ UNCHANGED dbVars

(* The lines after a completion: unfinished ones are marked SHORT when the *)
(* tally was not clean.                                                    *)
MarkShort(s, dirty) ==
    [l \in Lines |->
        [received |-> line[s][l].received,
         status |-> IF dirty /\ line[s][l].status \in
                                   {"EXPECTED", "PARTIALLY_RECEIVED"}
                    THEN "SHORT" ELSE line[s][l].status]]

(* applyCompletionTx: only a session still RECEIVING is completed; a lost  *)
(* race writes nothing.                                                    *)
ApplyCompletionTx(s, dirty) ==
    \/ /\ session[s] = "RECEIVING"
       /\ session' = [session EXCEPT ![s] =
              IF dirty THEN "COMPLETED_WITH_DISCREPANCY" ELSE "COMPLETED"]
       /\ arrival' = IF dirty THEN "RECEIVED_WITH_DISCREPANCY" ELSE "RECEIVED"
       /\ line' = [line EXCEPT ![s] = MarkShort(s, dirty)]
       /\ completions' = [completions EXCEPT ![s] = @ + 1]
    \/ /\ session[s] # "RECEIVING"
       /\ UNCHANGED <<session, arrival, line, completions>>

WriteCompletion(r) ==
    /\ At(r, "closing")
    /\ ApplyCompletionTx(req[r].sess, req[r].dirty)
    /\ Goto(r, Done)
    /\ UNCHANGED <<openDisc, scanEvent, cartonVars, logVars>>

-----------------------------------------------------------------------------
(* Audited corrections.  reverseCarton keeps the receipt row, REVERSED,    *)
(* and puts the carton card back to EXPECTED.                              *)
ReverseCarton(r, row) ==
    /\ Called(r, "reverse")
    /\ row \in receipt
    /\ row.status = "RECEIVED"
    /\ Goto(r, [stage |-> "reversing", row |-> row])
    /\ UNCHANGED dbVars

(* Mutant: the carton card keeps its status, the receipt row is deleted.   *)
WriteReverseRowOnly(r) ==
    /\ At(r, "reversing")
    /\ receipt' = receipt \ {req[r].row}
    /\ Goto(r, Done)
    /\ UNCHANGED <<arrival, session, line, carton, openDisc, scanEvent,
                   completions, logVars>>

WriteReverse(r) ==
    /\ At(r, "reversing")
    /\ LET row == req[r].row IN
       /\ receipt' = (receipt \ {row}) \cup {[row EXCEPT !.status = "REVERSED"]}
       /\ carton' = [carton EXCEPT ![row.carton] = "EXPECTED"]
    /\ Goto(r, Done)
    /\ UNCHANGED <<arrival, session, line, openDisc, scanEvent, completions,
                   logVars>>

(* correctQuantity: the new quantity replaces whatever the row holds.      *)
CorrectQuantity(r, s, l, n) ==
    /\ Called(r, "correct")
    /\ session[s] # "none"
    /\ line' = [line EXCEPT ![s][l] =
                  [received |-> n,
                   status |-> IF n = 0 THEN "EXPECTED" ELSE CountedStatus(l, n)]]
    /\ corrected' = [corrected EXCEPT ![s][l] = TRUE]
    /\ Goto(r, Done)
    /\ UNCHANGED <<arrival, session, openDisc, scanEvent, completions, matched,
                   applied, cartonVars>>

(* reopenSession: the session row only; the arrival keeps its status.      *)
ReopenSession(r, s) ==
    /\ Called(r, "reopen")
    /\ session[s] \in Closed \cup {"PAUSED"}
    /\ Goto(r, [stage |-> "reopening", sess |-> s])
    /\ UNCHANGED dbVars

WriteReopen(r) ==
    /\ At(r, "reopening")
    /\ session' = [session EXCEPT ![req[r].sess] = "RECEIVING"]
    /\ Goto(r, Done)
    /\ UNCHANGED <<arrival, line, openDisc, scanEvent, completions, cartonVars,
                   logVars>>

(* A call ends without effect at any await: the process stops, the         *)
(* connection is lost, or a unique index rejects the transaction.          *)
Abort(r) ==
    /\ req[r].stage \notin {"unsent", "done"}
    /\ Goto(r, Done)
    /\ UNCHANGED dbVars

-----------------------------------------------------------------------------
(* A device operation carries its own card and quantity; a scan without an *)
(* operation id may carry any.                                             *)
Scan(r) ==
    \E s \in Sessions :
        \/ \E o \in OpIds : /\ ScanLine[o] \notin Unidentified
                            /\ ConfirmProduct(r, s, ScanLine[o], o, ScanQty[o])
        \/ \E l \in Lines \ Unidentified, q \in Quantities \ {0} :
               ConfirmProduct(r, s, l, None, q)
        \/ \E o \in OpIds : ConfirmCarton(r, s, ScanCarton[o], o)
        \/ \E c \in Cartons : ConfirmCarton(r, s, c, None)
        \/ ConfirmByTracking(r, s, None)

Send(r) ==
    \/ Start(r)
    \/ Scan(r)
    \/ \E s \in Sessions :
         \/ Pause(r, s) \/ Resume(r, s) \/ Flag(r, s)
         \/ ResolveDiscrepancy(r, s)
         \/ \E b \in BOOLEAN : Complete(r, s, b)
         \/ RecoverStuckSession(r, s)
         \/ ReopenSession(r, s)
         \/ \E l \in Lines, n \in Quantities : CorrectQuantity(r, s, l, n)
    \/ \E row \in receipt : ReverseCarton(r, row)

Continue(r) ==
    \/ \E s \in Sessions : CreateSession(r, s)
    \/ ReadCard(r) \/ WriteProduct(r) \/ ProductRaced(r) \/ Rescan(r)
    \/ WriteCarton(r)
    \/ WritePause(r) \/ WriteResume(r) \/ WriteFlag(r)
    \/ Tally(r) \/ WriteCompletion(r)
    \/ WriteReverse(r) \/ WriteReopen(r)

Next == \E r \in Requests : Send(r) \/ Continue(r) \/ Abort(r)

Spec == Init /\ [][Next]_vars

(* A handler whose next database call is possible makes it: the event loop *)
(* resumes every pending promise.  Nothing is assumed of the callers.      *)
Fairness == \A r \in Requests : WF_vars(Continue(r) \/ Abort(r))

-----------------------------------------------------------------------------
(* No receipt is lost: the quantity of a line no correction touched is the *)
(* sum of the units its audit rows added, however many workers scan the    *)
(* same card at once (the optimistic guard of confirmProduct).             *)
NoLostReceipt ==
    \A s \in Sessions, l \in Lines :
        ~corrected[s][l] => line[s][l].received = matched[s][l]

(* A session closed clean holds exactly the expected quantity on every     *)
(* line no correction touched, although complete computes its tally before *)
(* the transaction that closes and scans may still be in flight.           *)
CleanMeansExact ==
    \A s \in Sessions :
        session[s] = "COMPLETED" =>
            \A l \in Lines :
                ~corrected[s][l] => line[s][l].received = Expected[l]

(* A carton card that reads RECEIVED is backed by a receipt row that was   *)
(* not reversed, whatever confirmations and reversals overlap.             *)
ReceivedCartonHasReceipt ==
    \A c \in Cartons :
        carton[c] = "RECEIVED" =>
            \E row \in receipt : row.carton = c /\ row.status = "RECEIVED"

(* Every handler call returns: the re-run of a raced scan cannot go on     *)
(* forever, because each race is lost to a receipt that was written.       *)
EveryCallReturns ==
    \A r \in Requests : req[r].stage # "unsent" ~> req[r].stage = "done"

-----------------------------------------------------------------------------
(* Claims of the source that its interleavings do not keep.                *)

(* confirmProduct: an operation id is processed exactly once.              *)
OperationAppliedOnce == \A o \in OpIds : applied[o] <= 1

(* applyCompletionTx: clean means nothing is missing, cartons included.    *)
CleanMeansAllCartons ==
    \A s \in Sessions :
        session[s] = "COMPLETED" =>
            \A c \in Cartons : carton[c] = "RECEIVED"
=============================================================================
