--------------------------- MODULE ReceivingReport ---------------------------
(***************************************************************************)
(* The verification report of ONE receiving session                        *)
(* (receiving/receiving-reports.service.ts) and the handoff of its         *)
(* confirmed lines to Temporary Storage (workflow/workflow.service.ts).    *)
(*                                                                         *)
(* A submit is one database transaction of several statements: it computes *)
(* the snapshot, writes the report row (which locks the row until commit), *)
(* writes the ledger, reads the tally over ANOTHER connection and closes   *)
(* the session.  The statements are separate steps; what a transaction     *)
(* has not committed is kept in the call that runs it.                     *)
(*                                                                         *)
(* Receipts, pauses and corrections of the session appear only by their    *)
(* committed writes: the module Receiving has their handlers.              *)
(***************************************************************************)
EXTENDS Naturals

CONSTANTS
    Lines,      \* product lines of the session
    Expected,   \* expected quantity of each line
    Damages,    \* quantities of damage declarations
    Requests,   \* handler calls
    Handlers    \* the handlers that are called

ReportAssumption ==
    /\ Expected \in [Lines -> Nat \ {0}]
    /\ Damages \subseteq Nat \ {0}
    /\ "nobody" \notin Requests

VARIABLES
    session,    \* ReceivingSession.status
    received,   \* ReceivingProduct.receivedQuantity
    damaged,    \* ReceivingProduct.damagedQuantity
    status,     \* ReceivingReport.status ("none": no row)
    drafted,    \* the row is older than its submission: a draft created it
    snapshot,   \* its ReceivingReportLine rows; "by" is the submit that wrote them
    moves,      \* ProductStationMove rows of the session, all to STAGING
    locked,     \* the submit that holds the lock of the report row
    req,        \* the handler calls
    declared,   \* units of the DAMAGE_RECORDED audit rows of each line
    paused      \* the session has a RECEIVING_PAUSED audit row

vars == <<session, received, damaged, status, drafted, snapshot, moves, locked,
          req, declared, paused>>

countVars == <<received, damaged, declared>>
reportVars == <<status, drafted, snapshot, moves, locked>>
dbVars == <<session, paused, countVars, reportVars>>

Nobody == "nobody"
Closed == {"COMPLETED", "COMPLETED_WITH_DISCREPANCY"}
Locked == {"SUBMITTED", "REVIEWED", "CLOSED"}

(* Mutant: damage is not capped by what was scanned.                       *)
VerdictUncapped(l) ==
    [confirmed |-> received[l] - damaged[l],
     result |-> IF received[l] = 0 THEN "PENDING"
                ELSE IF damaged[l] > 0 THEN "DAMAGED"
                ELSE IF received[l] < Expected[l] THEN "MISSING"
                ELSE "CONFIRMED"]

(* computeLineVerification: damage is at most what was scanned; untouched, *)
(* damaged, short and confirmed lines, in that order of precedence.        *)
Verdict(l) ==
    LET dmg == IF damaged[l] < received[l] THEN damaged[l] ELSE received[l] IN
    [confirmed |-> received[l] - dmg,
     result |-> IF received[l] = 0 THEN "PENDING"
                ELSE IF dmg > 0 THEN "DAMAGED"
                ELSE IF received[l] < Expected[l] THEN "MISSING"
                ELSE "CONFIRMED"]

LineVerdict ==
    [confirmed : Nat, result : {"PENDING", "DAMAGED", "MISSING", "CONFIRMED"}]
Live == [Lines -> LineVerdict]
NoLines == [by |-> Nobody]

(* A move names the line and the submit it comes from; "linked" tells      *)
(* whether that report line still exists, "accepts" how often the move was *)
(* accepted.                                                               *)
Move == [by : Requests, line : Lines, qty : Nat, linked : BOOLEAN,
         accepts : Nat]
MoveId == [by : Requests, line : Lines]

Call ==
    [stage : {"unsent", "done"}]
    \cup [stage : {"draft", "computing"}, exists : BOOLEAN]
    \cup [stage : {"damage"}, line : Lines, qty : Nat, total : Nat]
    \cup [stage : {"writing", "tally"}, exists : BOOLEAN, live : Live]
    \cup [stage : {"closing"}, live : Live, dirty : BOOLEAN]
    \cup [stage : {"reviewing", "shutting"}]
    \cup [stage : {"accepting"}, move : MoveId]

Unsent == [stage |-> "unsent"]
Done == [stage |-> "done"]

TypeOK ==
    /\ session \in {"RECEIVING", "PAUSED"} \cup Closed
    /\ received \in [Lines -> Nat]
    /\ damaged \in [Lines -> Nat]
    /\ status \in {"none", "DRAFT"} \cup Locked
    /\ snapshot \in {NoLines} \cup [by : Requests, live : Live]
    /\ moves \in SUBSET Move
    /\ locked \in Requests \cup {Nobody}
    /\ req \in [Requests -> Call]
    /\ declared \in [Lines -> Nat]
    /\ drafted \in BOOLEAN
    /\ paused \in BOOLEAN

Init ==
    /\ session = "RECEIVING"
    /\ received = [l \in Lines |-> 0]
    /\ damaged = [l \in Lines |-> 0]
    /\ status = "none"
    /\ snapshot = NoLines
    /\ moves = {}
    /\ locked = Nobody
    /\ req = [r \in Requests |-> Unsent]
    /\ declared = [l \in Lines |-> 0]
    /\ drafted = FALSE
    /\ paused = FALSE

Called(r, handler) == handler \in Handlers /\ req[r] = Unsent
At(r, stage) == req[r].stage = stage
Goto(r, call) == req' = [req EXCEPT ![r] = call]

-----------------------------------------------------------------------------
(* What other handlers commit on the session.  A counted scan of an open   *)
(* card; a pause; a resume; an audited quantity correction.                *)
ScanUnit(l) ==
    /\ session = "RECEIVING"
    /\ received[l] < Expected[l]
    /\ received' = [received EXCEPT ![l] = @ + 1]
    /\ UNCHANGED <<session, paused, damaged, declared, reportVars, req>>

PauseSession ==
    /\ "pause" \in Handlers
    /\ session' = CASE session = "RECEIVING" -> "PAUSED"
                    [] session = "PAUSED" -> "RECEIVING"
                    [] OTHER -> session
    /\ paused' = (paused \/ session' = "PAUSED")
    /\ UNCHANGED <<countVars, reportVars, req>>

CorrectQuantity(l, n) ==
    /\ "correct" \in Handlers
    /\ received' = [received EXCEPT ![l] = n]
    /\ UNCHANGED <<session, paused, damaged, declared, reportVars, req>>

-----------------------------------------------------------------------------
(* saveDraft: refused on a locked report; the transaction then updates or  *)
(* creates the row.  It never writes the status of an existing row.        *)
SaveDraft(r) ==
    /\ Called(r, "saveDraft")
    /\ status \notin Locked
    /\ Goto(r, [stage |-> "draft", exists |-> status = "DRAFT"])
    /\ UNCHANGED dbVars

(* Mutant: saving a draft writes its status.                               *)
WriteDraftStatus(r) ==
    /\ At(r, "draft")
    /\ locked = Nobody
    /\ status = "none" => ~req[r].exists
    /\ status' = "DRAFT"
    /\ drafted' = (drafted \/ ~req[r].exists)
    /\ Goto(r, Done)
    /\ UNCHANGED <<session, paused, countVars, snapshot, moves, locked>>

(* The row of a session is unique: a create that finds one is rejected.    *)
WriteDraft(r) ==
    /\ At(r, "draft")
    /\ locked = Nobody
    /\ req[r].exists \/ status = "none"
    /\ status' = IF req[r].exists THEN status ELSE "DRAFT"
    /\ drafted' = (drafted \/ ~req[r].exists)
    /\ Goto(r, Done)
    /\ UNCHANGED <<session, paused, countVars, snapshot, moves, locked>>

-----------------------------------------------------------------------------
(* markDamage: an open session, no locked report, and not more damage than *)
(* scanned units on the line as it was read.  The total that was computed  *)
(* is then written, whatever the row holds.                                *)
MarkDamage(r, l, q) ==
    /\ Called(r, "markDamage")
    /\ session \notin Closed
    /\ status \notin Locked
    /\ damaged[l] + q <= received[l]
    /\ Goto(r, [stage |-> "damage", line |-> l, qty |-> q,
                total |-> damaged[l] + q])
    /\ UNCHANGED dbVars

WriteDamage(r) ==
    /\ At(r, "damage")
    /\ damaged' = [damaged EXCEPT ![req[r].line] = req[r].total]
    /\ declared' = [declared EXCEPT ![req[r].line] = @ + req[r].qty]
    /\ Goto(r, Done)
    /\ UNCHANGED <<session, paused, received, reportVars>>

-----------------------------------------------------------------------------
(* submitReport.  Before the transaction: the report must not be locked.   *)
SubmitReport(r) ==
    /\ Called(r, "submit")
    /\ status \notin Locked
    /\ Goto(r, [stage |-> "computing", exists |-> status = "DRAFT"])
    /\ UNCHANGED dbVars

(* First statement of the transaction: the live verdict of every line.     *)
ComputeLive(r) ==
    /\ At(r, "computing")
    /\ Goto(r, [stage |-> "writing", exists |-> req[r].exists,
                live |-> [l \in Lines |-> Verdict(l)]])
    /\ UNCHANGED dbVars

(* Mutant: receivingSessionId is not unique.                               *)
WriteReportAnyway(r) ==
    /\ At(r, "writing")
    /\ locked = Nobody
    /\ locked' = r
    /\ Goto(r, [req[r] EXCEPT !.stage = "tally"])
    /\ UNCHANGED <<session, paused, countVars, status, drafted, snapshot, moves>>

(* The report row is updated, or created: the update waits for the lock of *)
(* the row, the create is rejected when another call created it.           *)
WriteReport(r) ==
    /\ At(r, "writing")
    /\ locked = Nobody
    /\ req[r].exists \/ status = "none"
    /\ locked' = r
    /\ Goto(r, [req[r] EXCEPT !.stage = "tally"])
    /\ UNCHANGED <<session, paused, countVars, status, drafted, snapshot, moves>>

(* reconcile runs outside the transaction: it sees what is committed.      *)
Tally(r) ==
    /\ At(r, "tally")
    /\ Goto(r, [stage |-> "closing", live |-> req[r].live,
                dirty |-> \E l \in Lines : received[l] # Expected[l]])
    /\ UNCHANGED dbVars

(* handoffReceivingToStaging: one move for every CONFIRMED line of the     *)
(* rows this transaction wrote.  Those rows replace the report's earlier   *)
(* lines, so no earlier move refers to them.                               *)
Handoff(r) ==
    {[by |-> r, line |-> l, qty |-> req[r].live[l].confirmed, linked |-> TRUE,
      accepts |-> 0] :
        l \in {k \in Lines : /\ req[r].live[k].result = "CONFIRMED"
                             /\ req[r].live[k].confirmed > 0}}

(* applyCompletionTx, as in Receiving: only a RECEIVING session closes.    *)
CompleteSession(r) ==
    session' = IF session # "RECEIVING" THEN session
               ELSE IF req[r].dirty THEN "COMPLETED_WITH_DISCREPANCY"
               ELSE "COMPLETED"

(* Commit.                                                                 *)
CommitSubmit(r) ==
    /\ At(r, "closing")
    /\ status' = "SUBMITTED"
    /\ snapshot' = [by |-> r, live |-> req[r].live]
    /\ moves' = {[m EXCEPT !.linked = FALSE] : m \in moves} \cup Handoff(r)
    /\ CompleteSession(r)
    /\ locked' = Nobody
    /\ Goto(r, Done)
    /\ UNCHANGED <<paused, drafted, countVars>>

-----------------------------------------------------------------------------
(* reviewReport and closeReport: the status is checked, then written.      *)
Review(r) ==
    /\ Called(r, "review")
    /\ status = "SUBMITTED"
    /\ Goto(r, [stage |-> "reviewing"])
    /\ UNCHANGED dbVars

WriteReview(r) ==
    /\ At(r, "reviewing")
    /\ locked = Nobody
    /\ status' = "REVIEWED"
    /\ Goto(r, Done)
    /\ UNCHANGED <<session, paused, countVars, drafted, snapshot, moves, locked>>

Close(r) ==
    /\ Called(r, "close")
    /\ status \in {"SUBMITTED", "REVIEWED"}
    /\ Goto(r, [stage |-> "shutting"])
    /\ UNCHANGED dbVars

WriteClose(r) ==
    /\ At(r, "shutting")
    /\ locked = Nobody
    /\ status' = "CLOSED"
    /\ Goto(r, Done)
    /\ UNCHANGED <<session, paused, countVars, drafted, snapshot, moves, locked>>

-----------------------------------------------------------------------------
(* acceptAtStaging: a move nobody accepted, then its acceptance.           *)
Accept(r, m) ==
    /\ Called(r, "accept")
    /\ m \in moves
    /\ m.accepts = 0
    /\ Goto(r, [stage |-> "accepting", move |-> [by |-> m.by, line |-> m.line]])
    /\ UNCHANGED dbVars

WriteAccept(r) ==
    /\ At(r, "accepting")
    /\ moves' = {IF [by |-> m.by, line |-> m.line] = req[r].move
                 THEN [m EXCEPT !.accepts = @ + 1] ELSE m : m \in moves}
    /\ Goto(r, Done)
    /\ UNCHANGED <<session, paused, countVars, status, drafted, snapshot, locked>>

(* A call ends at any await; its open transaction is rolled back.          *)
Abort(r) ==
    /\ req[r].stage \notin {"unsent", "done"}
    /\ locked' = IF locked = r THEN Nobody ELSE locked
    /\ Goto(r, Done)
    /\ UNCHANGED <<session, paused, countVars, status, drafted, snapshot, moves>>

-----------------------------------------------------------------------------
Floor ==
    \/ \E l \in Lines : \/ ScanUnit(l)
                        \/ \E n \in 0..(Expected[l] + 1) : CorrectQuantity(l, n)
    \/ PauseSession

Send(r) ==
    \/ SaveDraft(r) \/ SubmitReport(r) \/ Review(r) \/ Close(r)
    \/ \E l \in Lines, q \in Damages : MarkDamage(r, l, q)
    \/ \E m \in moves : Accept(r, m)

Continue(r) ==
    \/ WriteDraft(r) \/ WriteDamage(r)
    \/ ComputeLive(r) \/ WriteReport(r) \/ Tally(r) \/ CommitSubmit(r)
    \/ WriteReview(r) \/ WriteClose(r) \/ WriteAccept(r)

Next == Floor \/ \E r \in Requests : Send(r) \/ Continue(r) \/ Abort(r)

Spec == Init /\ [][Next]_vars

-----------------------------------------------------------------------------
(* When no draft came before the submission, the goods of a line enter the *)
(* STAGING pool once, however many submits of the session overlap: the     *)
(* unique index on the session lets one create win.                        *)
HandedOffOnce ==
    ~drafted => \A m, n \in moves : m.line = n.line => m.by = n.by

-----------------------------------------------------------------------------
(* A claim of the source that its interleavings do not keep.               *)

(* submitReport: idempotent guard, one locked report; the handoff is       *)
(* idempotent per session.                                                 *)
OneHandoffPerSession ==
    \A m, n \in moves : m.line = n.line => m.by = n.by
=============================================================================
