--------------------------- MODULE ReceivingProofs ---------------------------
(***************************************************************************)
(* Theorems about the floor at which goods arrive: receiving sessions, for *)
(* every number of sessions, cards, cartons, operation ids and concurrent  *)
(* handler calls; the tasks of the workers, for every number of workers,   *)
(* stations, jobs, tasks and calls; the screens at the stations, for every *)
(* number of displays, pages, administrators and calls.                    *)
(***************************************************************************)
EXTENDS FloorDay, Integers, Sequences, TLAPS

(* A day of each scene is a behaviour of its module: in the other scenes   *)
(* its variables stay as they are.                                         *)
LEMMA ReceivingScene == FloorSpec => Spec
  <1>1. FloorInit => Init
    BY DEF FloorInit
  <1>2. [FloorNext]_floorVars => [Next]_vars
    BY DEF FloorNext, floorVars
  <1> QED
    BY <1>1, <1>2, PTL DEF FloorSpec, Spec

LEMMA TaskScene == FloorSpec => TD!Spec
  <1>1. FloorInit => TD!Init
    BY DEF FloorInit
  <1>2. [FloorNext]_floorVars => [TD!Next]_TD!vars
    BY DEF FloorNext, floorVars, taskScene, TD!vars
  <1> QED
    BY <1>1, <1>2, PTL DEF FloorSpec, TD!Spec

LEMMA ScreenScene == FloorSpec => Scr!Spec
  <1>1. FloorInit => Scr!Init
    BY DEF FloorInit
  <1>2. [FloorNext]_floorVars => [Scr!Next]_Scr!vars
    BY DEF FloorNext, floorVars, screenScene, Scr!vars, Scr!rows, Scr!station, Scr!screen
  <1> QED
    BY <1>1, <1>2, PTL DEF FloorSpec, Scr!Spec

-----------------------------------------------------------------------------
(* Stages whose call has read a session.                                   *)
SessionStages ==
    {"pausing", "resuming", "reopening", "flagging", "scan", "rescan", "match",
     "carton", "tally", "closing"}

(* A call in flight works on a session that exists.                        *)
CallsHaveSession ==
    \A r \in Requests :
        req[r].stage \in SessionStages => session[req[r].sess] # "none"

(* Nothing was counted on a session before it exists.                      *)
NothingBeforeStart ==
    \A s \in Sessions : session[s] = "none" =>
        \A l \in Lines : matched[s][l] = 0

(* A scan on its way to the database saw an incomplete card.               *)
MatchSawIncomplete ==
    \A r \in Requests :
        req[r].stage = "match" => req[r].seen < Expected[req[r].line]

(* A completion that read a clean tally: it is still clean.                *)
CleanTallyStaysExact ==
    \A r \in Requests :
        req[r].stage = "closing" /\ ~req[r].dirty =>
            \A l \in Lines :
                ~corrected[req[r].sess][l] =>
                    line[req[r].sess][l].received = Expected[l]

(* A line counted beyond its card says so.                                 *)
ExcessIsOverage ==
    \A s \in Sessions, l \in Lines :
        line[s][l].received > Expected[l] => line[s][l].status = "OVERAGE"

CountInv ==
    /\ TypeOK
    /\ CallsHaveSession
    /\ NothingBeforeStart
    /\ NoLostReceipt

ExactInv ==
    /\ TypeOK
    /\ CallsHaveSession
    /\ MatchSawIncomplete
    /\ CleanTallyStaysExact
    /\ ExcessIsOverage
    /\ CleanMeansExact

-----------------------------------------------------------------------------
(* The locals a call holds are determined by its stage.                    *)
LEMMA CallFields ==
    ASSUME TypeOK, NEW r \in Requests
    PROVE  /\ req[r].stage \in {"scan", "rescan"} => req[r] \in ScanCall
           /\ At(r, "match") => req[r] \in MatchCall
           /\ At(r, "carton") => req[r] \in CartonCall
           /\ At(r, "tally") => req[r] \in TallyCall
           /\ At(r, "closing") => req[r] \in ClosingCall
           /\ At(r, "reversing") => req[r] \in ReverseCall
           /\ req[r].stage \in {"pausing", "resuming", "reopening", "flagging"}
                => req[r] \in SessionCall
  <1>1. req[r] \in Call
    BY DEF TypeOK
  <1> QED
    BY <1>1 DEF Call, IdleCall, SessionCall, ScanCall, MatchCall, CartonCall,
                TallyCall, ClosingCall, ReverseCall, At

(* Moving a call to a well-formed stage keeps the calls well-formed.       *)
LEMMA GotoType ==
    ASSUME TypeOK, NEW r \in Requests, NEW c \in Call, Goto(r, c)
    PROVE  req' \in [Requests -> Call]
  BY DEF TypeOK, Goto

(* A status assigned by a scan or a correction is one of the enum.         *)
LEMMA CountedStatusType ==
    ASSUME NEW l \in Lines, NEW n \in Nat
    PROVE  CountedStatus(l, n) \in LineStatus
  BY DEF CountedStatus, LineStatus

(* A step that only reads moves its call and leaves the database alone.    *)
LEMMA ReadKeepsType ==
    ASSUME TypeOK, NEW r \in Requests, NEW c \in Call, Goto(r, c),
           UNCHANGED dbVars
    PROVE  TypeOK'
  <1>1. req' \in [Requests -> Call]
    BY GotoType
  <1> QED
    BY <1>1 DEF TypeOK, dbVars, cartonVars, logVars

(* The reading step of every handler.                                      *)
LEMMA SendKeepsType ==
    ASSUME TypeOK, NEW r \in Requests, Send(r)
    PROVE  TypeOK'
  <1> USE ReceivingAssumption
  <1>1. CASE Start(r)
    <2>1. [stage |-> "starting"] \in Call
      BY DEF Call, IdleCall
    <2> QED
      BY <1>1, <2>1, ReadKeepsType DEF Start
  <1>2. CASE Scan(r)
    <2>1. ASSUME NEW s \in Sessions, NEW l \in Lines, NEW o \in OpIds \cup {None},
                 NEW q \in Nat, ConfirmProduct(r, s, l, o, q)
          PROVE  TypeOK'
      <3>1. [stage |-> "scan", sess |-> s, line |-> l, op |-> o,
             origin |-> o, qty |-> q] \in Call
        BY DEF Call, ScanCall
      <3> QED
        BY <2>1, <3>1, ReadKeepsType DEF ConfirmProduct
    <2>2. ASSUME NEW s \in Sessions, NEW c \in Cartons,
                 NEW o \in OpIds \cup {None}, ConfirmCarton(r, s, c, o)
          PROVE  TypeOK'
      <3>1. [stage |-> "carton", sess |-> s, carton |-> c, op |-> o] \in Call
        BY DEF Call, CartonCall
      <3> QED
        BY <2>2, <3>1, ReadKeepsType DEF ConfirmCarton
    <2> QED
      BY <1>2, <2>1, <2>2 DEF Scan, ConfirmByTracking
  <1>3. ASSUME NEW s \in Sessions, Pause(r, s) \/ Resume(r, s) \/ Flag(r, s)
                                   \/ ReopenSession(r, s)
        PROVE  TypeOK'
    <2>1. \A st \in {"pausing", "resuming", "reopening", "flagging"} :
            [stage |-> st, sess |-> s] \in Call
      BY DEF Call, SessionCall
    <2> QED
      BY <1>3, <2>1, ReadKeepsType DEF Pause, Resume, Flag, ReopenSession
  <1>4. ASSUME NEW s \in Sessions, ResolveDiscrepancy(r, s)
        PROVE  TypeOK'
    <2>1. Done \in Call
      BY DEF Call, IdleCall, Done
    <2>2. req' \in [Requests -> Call]
      BY <1>4, <2>1, GotoType DEF ResolveDiscrepancy
    <2>3. openDisc' \in [Sessions -> Nat]
      BY <1>4 DEF ResolveDiscrepancy, TypeOK
    <2> QED
      BY <1>4, <2>2, <2>3
      DEF ResolveDiscrepancy, TypeOK, cartonVars, logVars
  <1>5. ASSUME NEW s \in Sessions, NEW b \in BOOLEAN,
               Complete(r, s, b) \/ RecoverStuckSession(r, s)
        PROVE  TypeOK'
    <2>1. /\ [stage |-> "tally", sess |-> s, supervisor |-> b] \in Call
          /\ [stage |-> "tally", sess |-> s, supervisor |-> TRUE] \in Call
      BY DEF Call, TallyCall
    <2> QED
      BY <1>5, <2>1, ReadKeepsType DEF Complete, RecoverStuckSession
  <1>6. ASSUME NEW s \in Sessions, NEW l \in Lines, NEW n \in Quantities,
               CorrectQuantity(r, s, l, n)
        PROVE  TypeOK'
    <2>1. Done \in Call
      BY DEF Call, IdleCall, Done
    <2>2. req' \in [Requests -> Call]
      BY <1>6, <2>1, GotoType DEF CorrectQuantity
    <2> DEFINE st == IF n = 0 THEN "EXPECTED" ELSE CountedStatus(l, n)
    <2>3. /\ n \in Nat
          /\ st \in LineStatus
      BY CountedStatusType DEF LineStatus
    <2>4. [received |-> n, status |-> st] \in LineRow
      BY <2>3 DEF LineRow
    <2> HIDE DEF st
    <2>5. line' \in [Sessions -> [Lines -> LineRow]]
      BY <1>6, <2>4 DEF CorrectQuantity, TypeOK, st
    <2>6. corrected' \in [Sessions -> [Lines -> BOOLEAN]]
      BY <1>6 DEF CorrectQuantity, TypeOK
    <2> QED
      BY <1>6, <2>2, <2>5, <2>6 DEF CorrectQuantity, TypeOK, cartonVars
  <1>7. ASSUME NEW row \in receipt, ReverseCarton(r, row)
        PROVE  TypeOK'
    <2>1. [stage |-> "reversing", row |-> row] \in Call
      BY DEF Call, ReverseCall, TypeOK
    <2> QED
      BY <1>7, <2>1, ReadKeepsType DEF ReverseCarton
  <1> QED
    BY <1>1, <1>2, <1>3, <1>4, <1>5, <1>6, <1>7 DEF Send

(* Marking lines SHORT keeps them well-formed.                             *)
LEMMA MarkShortType ==
    ASSUME TypeOK, NEW s \in Sessions, NEW d \in BOOLEAN
    PROVE  MarkShort(s, d) \in [Lines -> LineRow]
  <1>1. ASSUME NEW l \in Lines
        PROVE  line[s][l].received \in Nat /\ line[s][l].status \in LineStatus
    BY DEF TypeOK, LineRow
  <1> QED
    BY <1>1 DEF MarkShort, LineRow, LineStatus

(* The later steps of every handler.                                       *)
LEMMA ContinueKeepsType ==
    ASSUME TypeOK, NEW r \in Requests, Continue(r) \/ Abort(r)
    PROVE  TypeOK'
  <1> USE ReceivingAssumption
  <1>0. Done \in Call
    BY DEF Call, IdleCall, Done
  <1>1. ASSUME NEW s \in Sessions, CreateSession(r, s)
        PROVE  TypeOK'
    <2>1. req' \in [Requests -> Call]
      BY <1>0, <1>1, GotoType DEF CreateSession
    <2>2. SeedLines \in [Lines -> LineRow]
      BY DEF SeedLines, LineRow, LineStatus
    <2>3. line' \in [Sessions -> [Lines -> LineRow]]
      BY <1>1, <2>2 DEF CreateSession, TypeOK
    <2> QED
      BY <1>1, <2>1, <2>3
      DEF CreateSession, TypeOK, SessionStatus, ArrivalStatus, cartonVars, logVars
  <1>2. CASE ReadCard(r)
    <2>1. req[r] \in ScanCall
      BY <1>2, CallFields DEF ReadCard, At
    <2>2. line[req[r].sess][req[r].line].received \in Nat
      BY <2>1 DEF TypeOK, ScanCall, LineRow
    <2>3. [stage |-> "match", sess |-> req[r].sess, line |-> req[r].line,
           op |-> req[r].op, origin |-> req[r].origin, qty |-> req[r].qty,
           seen |-> line[req[r].sess][req[r].line].received] \in Call
      BY <2>1, <2>2 DEF Call, ScanCall, MatchCall
    <2> QED
      BY <1>0, <1>2, <2>3, ReadKeepsType DEF ReadCard
  <1>3. CASE WriteProduct(r)
    <2>1. req[r] \in MatchCall
      BY <1>3, CallFields DEF WriteProduct
    <2>2. req' \in [Requests -> Call]
      BY <1>0, <1>3, GotoType DEF WriteProduct
    <2> DEFINE n == req[r].seen + req[r].qty
    <2>3. n \in Nat /\ req[r].line \in Lines /\ req[r].sess \in Sessions
      BY <2>1 DEF MatchCall
    <2>4. [received |-> n, status |-> CountedStatus(req[r].line, n)] \in LineRow
      BY <2>3, CountedStatusType DEF LineRow
    <2>5. line' \in [Sessions -> [Lines -> LineRow]]
      BY <1>3, <2>3, <2>4 DEF WriteProduct, CountScan, TypeOK
    <2>6. /\ scanEvent' \in [OpIds -> Sessions \cup {None}]
          /\ openDisc' \in [Sessions -> Nat]
          /\ applied' \in [OpIds -> Nat]
      BY <1>3, <2>1, <2>3 DEF WriteProduct, CountScan, TypeOK, MatchCall
    <2>7. matched' \in [Sessions -> [Lines -> Nat]]
      BY <1>3, <2>1, <2>3 DEF WriteProduct, CountScan, TypeOK, MatchCall
    <2> QED
      BY <1>3, <2>2, <2>5, <2>6, <2>7 DEF WriteProduct, TypeOK, cartonVars
  <1>4. CASE ProductRaced(r)
    <2>1. req[r] \in MatchCall
      BY <1>4, CallFields DEF ProductRaced
    <2>2. [stage |-> "rescan", sess |-> req[r].sess, line |-> req[r].line,
           op |-> None, origin |-> req[r].origin, qty |-> req[r].qty] \in Call
      BY <2>1 DEF Call, ScanCall, MatchCall
    <2> QED
      BY <1>4, <2>2, ReadKeepsType DEF ProductRaced
  <1>5. CASE Rescan(r)
    <2>1. req[r] \in ScanCall
      BY <1>5, CallFields DEF Rescan, At
    <2>2. [req[r] EXCEPT !.stage = "scan"] \in Call
      BY <2>1 DEF Call, ScanCall
    <2> QED
      BY <1>0, <1>5, <2>2, ReadKeepsType DEF Rescan
  <1>6. CASE WriteCarton(r)
    <2>1. req[r] \in CartonCall
      BY <1>6, CallFields DEF WriteCarton
    <2>2. req' \in [Requests -> Call]
      BY <1>0, <1>6, GotoType DEF WriteCarton
    <2>3. [id |-> r, sess |-> req[r].sess, carton |-> req[r].carton,
           op |-> req[r].op, status |-> "RECEIVED"] \in ReceiptRow
      BY <2>1 DEF CartonCall, ReceiptRow
    <2>4. /\ receipt' \in SUBSET ReceiptRow
          /\ carton' \in [Cartons -> {"EXPECTED", "RECEIVED"}]
      BY <1>6, <2>1, <2>3 DEF WriteCarton, TypeOK, CartonCall
    <2> QED
      BY <1>6, <2>2, <2>4 DEF WriteCarton, TypeOK, logVars
  <1>7. CASE WritePause(r) \/ WriteResume(r) \/ WriteReopen(r)
    <2>1. req[r].sess \in Sessions
      BY <1>7, CallFields DEF WritePause, WriteResume, WriteReopen, At, SessionCall
    <2>2. req' \in [Requests -> Call]
      BY <1>0, <1>7, GotoType DEF WritePause, WriteResume, WriteReopen
    <2> QED
      BY <1>7, <2>1, <2>2
      DEF WritePause, WriteResume, WriteReopen, TypeOK, SessionStatus,
          ArrivalStatus, cartonVars, logVars
  <1>8. CASE WriteFlag(r)
    <2>1. req[r].sess \in Sessions
      BY <1>8, CallFields DEF WriteFlag, At, SessionCall
    <2>2. req' \in [Requests -> Call]
      BY <1>0, <1>8, GotoType DEF WriteFlag
    <2> QED
      BY <1>8, <2>1, <2>2 DEF WriteFlag, TypeOK, cartonVars, logVars
  <1>9. CASE Tally(r)
    <2>1. req[r] \in TallyCall
      BY <1>9, CallFields DEF Tally
    <2>2. Reconcile(req[r].sess) \in BOOLEAN
      BY DEF Reconcile
    <2>3. [stage |-> "closing", sess |-> req[r].sess,
           dirty |-> Reconcile(req[r].sess)] \in Call
      BY <2>1, <2>2 DEF Call, TallyCall, ClosingCall
    <2> QED
      BY <1>0, <1>9, <2>3, ReadKeepsType DEF Tally
  <1>10. CASE WriteCompletion(r)
    <2>1. req[r] \in ClosingCall
      BY <1>10, CallFields DEF WriteCompletion
    <2>2. req' \in [Requests -> Call]
      BY <1>0, <1>10, GotoType DEF WriteCompletion
    <2>3. req[r].sess \in Sessions
      BY <2>1 DEF ClosingCall
    <2>4. MarkShort(req[r].sess, req[r].dirty) \in [Lines -> LineRow]
      BY <2>1, <2>3, MarkShortType DEF ClosingCall
    <2> DEFINE s == req[r].sess
               short == MarkShort(s, req[r].dirty)
               final == IF req[r].dirty THEN "COMPLETED_WITH_DISCREPANCY"
                        ELSE "COMPLETED"
               received == IF req[r].dirty THEN "RECEIVED_WITH_DISCREPANCY"
                           ELSE "RECEIVED"
    <2>5. \/ /\ session' = [session EXCEPT ![s] = final]
             /\ arrival' = received
             /\ line' = [line EXCEPT ![s] = short]
             /\ completions' = [completions EXCEPT ![s] = @ + 1]
          \/ UNCHANGED <<session, arrival, line, completions>>
      BY <1>10 DEF WriteCompletion, ApplyCompletionTx
    <2>6. final \in SessionStatus /\ received \in ArrivalStatus
      BY DEF SessionStatus, ArrivalStatus
    <2>7. short \in [Lines -> LineRow]
      BY <2>4
    <2> HIDE DEF short, final, received
    <2>8. /\ line' \in [Sessions -> [Lines -> LineRow]]
          /\ session' \in [Sessions -> SessionStatus]
          /\ arrival' \in ArrivalStatus
          /\ completions' \in [Sessions -> Nat]
      <3>1. CASE UNCHANGED <<session, arrival, line, completions>>
        BY <3>1 DEF TypeOK
      <3>2. CASE ~UNCHANGED <<session, arrival, line, completions>>
        <4>1. line' \in [Sessions -> [Lines -> LineRow]]
          BY SMTT(40), <2>3, <2>5, <2>7, <3>2 DEF TypeOK
        <4>2. completions' \in [Sessions -> Nat]
          BY SMTT(40), <2>3, <2>5, <3>2 DEF TypeOK
        <4>3. arrival' \in ArrivalStatus
          BY <2>5, <2>6, <3>2
        <4>4. session' \in [Sessions -> SessionStatus]
          BY SMTT(40), <2>3, <2>5, <2>6, <3>2 DEF TypeOK
        <4> QED
          BY <4>1, <4>2, <4>3, <4>4
      <3> QED
        BY <3>1, <3>2
    <2> QED
      BY <1>10, <2>2, <2>8 DEF WriteCompletion, TypeOK, cartonVars, logVars
  <1>11. CASE WriteReverse(r)
    <2>1. req[r].row \in ReceiptRow
      BY <1>11, CallFields DEF WriteReverse, ReverseCall
    <2>2. req' \in [Requests -> Call]
      BY <1>0, <1>11, GotoType DEF WriteReverse
    <2>3. [req[r].row EXCEPT !.status = "REVERSED"] \in ReceiptRow
      BY <2>1 DEF ReceiptRow
    <2>4. /\ receipt' \in SUBSET ReceiptRow
          /\ carton' \in [Cartons -> {"EXPECTED", "RECEIVED"}]
      BY <1>11, <2>1, <2>3 DEF WriteReverse, TypeOK, ReceiptRow
    <2> QED
      BY <1>11, <2>2, <2>4 DEF WriteReverse, TypeOK, logVars
  <1>12. CASE Abort(r)
    BY <1>0, <1>12, ReadKeepsType DEF Abort
  <1> QED
    BY <1>1, <1>2, <1>3, <1>4, <1>5, <1>6, <1>7, <1>8, <1>9, <1>10, <1>11,
       <1>12 DEF Continue

(* Every reachable state is well-formed: statuses stay inside the enums of *)
(* the database schema, quantities stay natural numbers, and a handler     *)
(* call always holds exactly the locals its stage needs.                   *)
THEOREM TypeCorrect == FloorSpec => []TypeOK
  <1>1. Init => TypeOK
    BY ReceivingAssumption
    DEF Init, TypeOK, ArrivalStatus, SessionStatus, LineRow, LineStatus,
        SeedLines, Call, IdleCall, Unsent
  <1>2. TypeOK /\ [Next]_vars => TypeOK'
    <2>1. ASSUME TypeOK, UNCHANGED vars PROVE TypeOK'
      BY <2>1 DEF TypeOK, vars
    <2> QED
      BY <2>1, SendKeepsType, ContinueKeepsType DEF Next
  <1> QED
    BY <1>1, <1>2, ReceivingScene, PTL DEF Spec

-----------------------------------------------------------------------------
(* A call past its session check holds the identity of a session.          *)
LEMMA CallSession ==
    ASSUME TypeOK, NEW r \in Requests, req[r].stage \in SessionStages
    PROVE  req[r].sess \in Sessions
  BY CallFields DEF SessionStages, SessionCall, ScanCall, MatchCall, CartonCall,
                    TallyCall, ClosingCall, At

(* A session that exists goes on existing: no step writes "none".          *)
LEMMA SessionsStay ==
    ASSUME TypeOK, NEW r \in Requests, Send(r) \/ Continue(r) \/ Abort(r),
           NEW s \in Sessions, session[s] # "none"
    PROVE  session'[s] # "none"
  <1>1. CASE UNCHANGED session
    BY <1>1
  <1>2. CASE \E t \in Sessions : CreateSession(r, t)
    BY <1>2 DEF CreateSession, TypeOK
  <1>3. CASE WritePause(r) \/ WriteResume(r) \/ WriteReopen(r)
    BY <1>3 DEF WritePause, WriteResume, WriteReopen, TypeOK
  <1>4. CASE WriteCompletion(r)
    <2> DEFINE final == IF req[r].dirty THEN "COMPLETED_WITH_DISCREPANCY"
                        ELSE "COMPLETED"
    <2>1. \/ session' = [session EXCEPT ![req[r].sess] = final]
          \/ UNCHANGED session
      BY <1>4 DEF WriteCompletion, ApplyCompletionTx
    <2>2. final # "none"
      OBVIOUS
    <2> HIDE DEF final
    <2> QED
      BY <2>1, <2>2 DEF TypeOK
  <1>5. ASSUME Send(r) PROVE UNCHANGED session
    BY <1>5 DEF Send, Start, Scan, ConfirmProduct, ConfirmByTracking,
        ConfirmCarton, Pause, Resume, Flag, ResolveDiscrepancy, Complete,
        RecoverStuckSession, ReopenSession, CorrectQuantity, ReverseCarton,
        dbVars
  <1>6. ASSUME \/ ReadCard(r) \/ WriteProduct(r) \/ ProductRaced(r) \/ Rescan(r)
               \/ WriteCarton(r) \/ WriteFlag(r) \/ Tally(r) \/ WriteReverse(r)
               \/ Abort(r)
        PROVE  UNCHANGED session
    BY <1>6 DEF ReadCard, WriteProduct, ProductRaced, Rescan, WriteCarton,
        WriteFlag, Tally, WriteReverse, Abort, dbVars
  <1> QED
    BY <1>1, <1>2, <1>3, <1>4, <1>5, <1>6 DEF Continue

(* What the call of a step becomes.                                        *)
LEMMA NextCall ==
    ASSUME TypeOK, CallsHaveSession, NEW r \in Requests,
           Send(r) \/ Continue(r) \/ Abort(r)
    PROVE  \E c : /\ Goto(r, c)
                  /\ c.stage \in SessionStages =>
                        c.sess \in Sessions /\ session[c.sess] # "none"
  <1>1. Done.stage \notin SessionStages
    BY DEF Done, SessionStages
  <1>2. CASE Start(r)
    BY <1>2 DEF Start, SessionStages
  <1>3. CASE Scan(r)
    <2>1. ASSUME NEW s \in Sessions, NEW l, NEW o, NEW q,
                 ConfirmProduct(r, s, l, o, q)
          PROVE  \E c : /\ Goto(r, c)
                        /\ c.stage \in SessionStages =>
                              c.sess \in Sessions /\ session[c.sess] # "none"
      <3> WITNESS [stage |-> "scan", sess |-> s, line |-> l, op |-> o,
                   origin |-> o, qty |-> q]
      <3> QED
        BY <2>1 DEF ConfirmProduct
    <2>2. ASSUME NEW s \in Sessions, NEW d, NEW o, ConfirmCarton(r, s, d, o)
          PROVE  \E c : /\ Goto(r, c)
                        /\ c.stage \in SessionStages =>
                              c.sess \in Sessions /\ session[c.sess] # "none"
      <3> WITNESS [stage |-> "carton", sess |-> s, carton |-> d, op |-> o]
      <3> QED
        BY <2>2 DEF ConfirmCarton
    <2> QED
      BY <1>3, <2>1, <2>2 DEF Scan, ConfirmByTracking
  <1>4. ASSUME NEW s \in Sessions,
               \/ Pause(r, s) \/ Resume(r, s) \/ Flag(r, s)
               \/ ReopenSession(r, s)
               \/ \E b \in BOOLEAN : Complete(r, s, b)
               \/ RecoverStuckSession(r, s)
        PROVE  \E c : /\ Goto(r, c)
                      /\ c.stage \in SessionStages =>
                            c.sess \in Sessions /\ session[c.sess] # "none"
    <2>1. session[s] # "none"
      BY <1>4 DEF Pause, Resume, Flag, ReopenSession, Complete,
          RecoverStuckSession, Active, Closed
    <2>2. CASE Pause(r, s) \/ Resume(r, s) \/ Flag(r, s) \/ ReopenSession(r, s)
      <3>1. PICK st : Goto(r, [stage |-> st, sess |-> s])
        BY <2>2 DEF Pause, Resume, Flag, ReopenSession
      <3> WITNESS [stage |-> st, sess |-> s]
      <3> QED
        BY <2>1, <3>1
    <2>3. CASE RecoverStuckSession(r, s) \/ \E b \in BOOLEAN : Complete(r, s, b)
      <3>1. PICK b \in BOOLEAN :
                Goto(r, [stage |-> "tally", sess |-> s, supervisor |-> b])
        BY <2>3 DEF RecoverStuckSession, Complete
      <3> WITNESS [stage |-> "tally", sess |-> s, supervisor |-> b]
      <3> QED
        BY <2>1, <3>1
    <2> QED
      BY <1>4, <2>2, <2>3
  <1>5. CASE \E s \in Sessions :
                \/ ResolveDiscrepancy(r, s)
                \/ \E l \in Lines, n \in Quantities : CorrectQuantity(r, s, l, n)
                \/ CreateSession(r, s)
    BY <1>1, <1>5 DEF ResolveDiscrepancy, CorrectQuantity, CreateSession
  <1>6. CASE \E row \in receipt : ReverseCarton(r, row)
    BY <1>6 DEF ReverseCarton, SessionStages
  <1>7. CASE ReadCard(r) \/ ProductRaced(r) \/ Rescan(r) \/ Tally(r)
    <2>1. req[r].sess \in Sessions /\ session[req[r].sess] # "none"
      BY <1>7, CallSession
      DEF ReadCard, ProductRaced, Rescan, Tally, At, SessionStages,
          CallsHaveSession
    <2>2. CASE ReadCard(r)
      BY <1>1, <2>1, <2>2 DEF ReadCard
    <2>3. CASE ProductRaced(r)
      BY <2>1, <2>3 DEF ProductRaced
    <2>4. CASE Rescan(r)
      <3>1. [req[r] EXCEPT !.stage = "scan"].sess = req[r].sess
        BY <2>4, CallFields DEF Rescan, At, ScanCall
      <3> QED
        BY <1>1, <2>1, <2>4, <3>1 DEF Rescan
    <2>5. CASE Tally(r)
      BY <1>1, <2>1, <2>5 DEF Tally
    <2> QED
      BY <1>7, <2>2, <2>3, <2>4, <2>5
  <1>8. CASE \/ WriteProduct(r) \/ WriteCarton(r) \/ WritePause(r)
             \/ WriteResume(r) \/ WriteFlag(r) \/ WriteCompletion(r)
             \/ WriteReverse(r) \/ WriteReopen(r) \/ Abort(r)
    BY <1>1, <1>8 DEF WriteProduct, WriteCarton, WritePause, WriteResume,
        WriteFlag, WriteCompletion, WriteReverse, WriteReopen, Abort
  <1> QED
    BY <1>2, <1>3, <1>4, <1>5, <1>6, <1>7, <1>8 DEF Send, Continue

(* Calls work on sessions that exist, whatever else happens meanwhile.     *)
LEMMA CallsKeepSession ==
    ASSUME TypeOK, CallsHaveSession, NEW r \in Requests,
           Send(r) \/ Continue(r) \/ Abort(r)
    PROVE  CallsHaveSession'
  <1>1. PICK c : /\ Goto(r, c)
                 /\ c.stage \in SessionStages =>
                        c.sess \in Sessions /\ session[c.sess] # "none"
    BY NextCall
  <1>2. SUFFICES ASSUME NEW q \in Requests, req'[q].stage \in SessionStages
                 PROVE  session'[req'[q].sess] # "none"
    BY DEF CallsHaveSession
  <1>3. CASE q = r
    BY <1>1, <1>2, <1>3, SessionsStay DEF Goto, TypeOK
  <1>4. CASE q # r
    <2>1. req'[q] = req[q]
      BY <1>1, <1>4 DEF Goto, TypeOK
    <2> QED
      BY <1>2, <2>1, CallSession, SessionsStay DEF CallsHaveSession
  <1> QED
    BY <1>3, <1>4

-----------------------------------------------------------------------------
(* Only a scan, a correction and the seeding of a session write            *)
(* quantities; a completion changes line statuses, never from or to        *)
(* OVERAGE.                                                                *)
LEMMA QuantityWriters ==
    ASSUME TypeOK, NEW r \in Requests, Send(r) \/ Continue(r) \/ Abort(r),
           ~WriteProduct(r),
           ~\E s \in Sessions, l \in Lines, n \in Quantities :
                CorrectQuantity(r, s, l, n),
           ~\E s \in Sessions : CreateSession(r, s)
    PROVE  /\ UNCHANGED <<matched, corrected>>
           /\ \A s \in Sessions, l \in Lines :
                /\ line'[s][l].received = line[s][l].received
                /\ line'[s][l].status = "OVERAGE"
                     <=> line[s][l].status = "OVERAGE"
  <1>1. CASE WriteCompletion(r)
    <2>1. req[r] \in ClosingCall
      BY <1>1, CallFields DEF WriteCompletion
    <2>2. UNCHANGED <<matched, corrected>>
      BY <1>1 DEF WriteCompletion, logVars
    <2>3. SUFFICES ASSUME NEW s \in Sessions, NEW l \in Lines
                   PROVE  /\ line'[s][l].received = line[s][l].received
                          /\ line'[s][l].status = "OVERAGE"
                               <=> line[s][l].status = "OVERAGE"
      BY <2>2
    <2>4. \/ line' = [line EXCEPT ![req[r].sess] =
                          MarkShort(req[r].sess, req[r].dirty)]
          \/ line' = line
      BY <1>1 DEF WriteCompletion, ApplyCompletionTx
    <2>5. \/ line'[s][l] = line[s][l]
          \/ /\ s = req[r].sess
             /\ line'[s][l] = MarkShort(s, req[r].dirty)[l]
      BY <2>1, <2>4 DEF TypeOK, ClosingCall
    <2>6. /\ MarkShort(s, req[r].dirty)[l].received = line[s][l].received
          /\ MarkShort(s, req[r].dirty)[l].status = "OVERAGE"
               <=> line[s][l].status = "OVERAGE"
      BY DEF MarkShort
    <2> QED
      BY <2>5, <2>6
  <1>2. ASSUME Send(r) PROVE UNCHANGED <<matched, corrected, line>>
    BY <1>2 DEF Send, Start, Scan, ConfirmProduct, ConfirmByTracking,
        ConfirmCarton, Pause, Resume, Flag, ResolveDiscrepancy, Complete,
        RecoverStuckSession, ReopenSession, ReverseCarton, dbVars, logVars
  <1>3. ASSUME \/ ReadCard(r) \/ ProductRaced(r) \/ Rescan(r) \/ Tally(r)
               \/ WriteCarton(r) \/ WritePause(r) \/ WriteResume(r)
               \/ WriteFlag(r) \/ WriteReverse(r) \/ WriteReopen(r) \/ Abort(r)
        PROVE  UNCHANGED <<matched, corrected, line>>
    BY <1>3 DEF ReadCard, ProductRaced, Rescan, Tally, WriteCarton, WritePause,
        WriteResume, WriteFlag, WriteReverse, WriteReopen, Abort, dbVars, logVars
  <1> QED
    BY <1>1, <1>2, <1>3 DEF Continue

(* A scan adds its quantity to the row it was computed from.               *)
LEMMA CountScanEffect ==
    ASSUME TypeOK, NEW r \in Requests, WriteProduct(r),
           NEW s \in Sessions, NEW l \in Lines
    PROVE  LET c == req[r]
               here == s = c.sess /\ l = c.line
           IN  /\ corrected' = corrected
               /\ ~here => /\ line'[s][l] = line[s][l]
                           /\ matched'[s][l] = matched[s][l]
               /\ here => /\ line[s][l].received = c.seen
                          /\ line'[s][l].received = line[s][l].received + c.qty
                          /\ line'[s][l].status =
                                CountedStatus(l, line'[s][l].received)
                          /\ matched'[s][l] = matched[s][l] + c.qty
  <1>1. req[r] \in MatchCall
    BY CallFields DEF WriteProduct
  <1> DEFINE c == req[r]
             row == [received |-> c.seen + c.qty,
                     status |-> CountedStatus(c.line, c.seen + c.qty)]
  <1>2. /\ line' = [line EXCEPT ![c.sess][c.line] = row]
        /\ matched' = [matched EXCEPT ![c.sess][c.line] = @ + c.qty]
        /\ corrected' = corrected
        /\ line[c.sess][c.line].received = c.seen
    BY DEF WriteProduct, CountScan
  <1>3. row.received = c.seen + c.qty
        /\ row.status = CountedStatus(c.line, c.seen + c.qty)
    OBVIOUS
  <1>4. c.sess \in Sessions /\ c.line \in Lines
    BY <1>1 DEF MatchCall
  <1> HIDE DEF row, c
  <1>5. s = c.sess /\ l = c.line => line'[s][l] = row
    BY <1>2, <1>4 DEF TypeOK
  <1>6. ~(s = c.sess /\ l = c.line) => line'[s][l] = line[s][l]
    BY <1>2, <1>4 DEF TypeOK
  <1>7. /\ s = c.sess /\ l = c.line => matched'[s][l] = matched[s][l] + c.qty
        /\ ~(s = c.sess /\ l = c.line) => matched'[s][l] = matched[s][l]
    BY <1>2, <1>4 DEF TypeOK
  <1> QED
    BY <1>2, <1>3, <1>5, <1>6, <1>7 DEF c

(* The step of the counting invariant.                                     *)
LEMMA CountStep ==
    ASSUME CountInv, NEW r \in Requests, Send(r) \/ Continue(r) \/ Abort(r)
    PROVE  CountInv'
  <1> USE ReceivingAssumption DEF CountInv
  <1>1. TypeOK'
    BY SendKeepsType, ContinueKeepsType
  <1>2. CallsHaveSession'
    BY CallsKeepSession
  <1>3. CASE WriteProduct(r)
    <2>1. req[r].sess \in Sessions /\ session[req[r].sess] # "none"
      BY <1>3, CallSession
      DEF WriteProduct, At, SessionStages, CallsHaveSession
    <2>2. session' = session
      BY <1>3 DEF WriteProduct
    <2>3. NothingBeforeStart'
      BY <1>3, <2>1, <2>2, CountScanEffect DEF NothingBeforeStart
    <2>4. NoLostReceipt'
      <3>1. SUFFICES ASSUME NEW s \in Sessions, NEW l \in Lines,
                            ~corrected'[s][l]
                     PROVE  line'[s][l].received = matched'[s][l]
        BY DEF NoLostReceipt
      <3>2. line[s][l].received = matched[s][l]
        BY <1>3, <3>1, CountScanEffect DEF NoLostReceipt
      <3> QED
        BY <1>3, <3>2, CountScanEffect
    <2> QED
      BY <1>1, <1>2, <2>3, <2>4
  <1>4. ASSUME NEW s \in Sessions, NEW l \in Lines, NEW n \in Quantities,
               CorrectQuantity(r, s, l, n)
        PROVE  CountInv'
    <2>1. /\ corrected'[s][l]
          /\ \A t \in Sessions, m \in Lines : ~(t = s /\ m = l) =>
                /\ corrected'[t][m] = corrected[t][m]
                /\ line'[t][m] = line[t][m]
          /\ UNCHANGED <<matched, session>>
      BY <1>4 DEF CorrectQuantity, TypeOK
    <2> QED
      BY <1>1, <1>2, <2>1 DEF NoLostReceipt, NothingBeforeStart
  <1>5. ASSUME NEW s \in Sessions, CreateSession(r, s)
        PROVE  CountInv'
    <2>1. /\ \A l \in Lines : line'[s][l].received = 0 /\ matched[s][l] = 0
          /\ \A t \in Sessions \ {s} : line'[t] = line[t]
                                       /\ session'[t] = session[t]
          /\ session'[s] # "none"
          /\ UNCHANGED <<matched, corrected>>
      BY <1>5 DEF CreateSession, TypeOK, SeedLines, NothingBeforeStart, logVars
    <2> QED
      BY <1>1, <1>2, <2>1 DEF NoLostReceipt, NothingBeforeStart
  <1>6. CASE /\ ~WriteProduct(r)
             /\ ~\E s \in Sessions, l \in Lines, n \in Quantities :
                    CorrectQuantity(r, s, l, n)
             /\ ~\E s \in Sessions : CreateSession(r, s)
    <2>1. NoLostReceipt'
      BY <1>6, QuantityWriters DEF NoLostReceipt
    <2>2. NothingBeforeStart'
      BY <1>6, QuantityWriters, SessionsStay DEF NothingBeforeStart
    <2> QED
      BY <1>1, <1>2, <2>1, <2>2
  <1> QED
    BY <1>3, <1>4, <1>5, <1>6

(* No receipt is lost, for any number of workers, cards and quantities: on *)
(* a line no operator corrected, the quantity is the sum of what the       *)
(* confirmProduct transactions reported they added.                        *)
THEOREM ReceiptsNotLost == FloorSpec => []NoLostReceipt
  <1>1. Init => CountInv
    <2>1. Init => TypeOK
      BY ReceivingAssumption
      DEF Init, TypeOK, ArrivalStatus, SessionStatus, LineRow, LineStatus,
          SeedLines, Call, IdleCall, Unsent
    <2>2. Init => CallsHaveSession /\ NothingBeforeStart /\ NoLostReceipt
      BY DEF Init, CallsHaveSession, NothingBeforeStart, NoLostReceipt,
             SessionStages, Unsent, SeedLines
    <2> QED
      BY <2>1, <2>2 DEF CountInv
  <1>2. CountInv /\ [Next]_vars => CountInv'
    <2>1. ASSUME CountInv, UNCHANGED vars PROVE CountInv'
      BY <2>1 DEF CountInv, TypeOK, CallsHaveSession, NothingBeforeStart,
                  NoLostReceipt, vars
    <2> QED
      BY <2>1, CountStep DEF Next
  <1>3. CountInv => NoLostReceipt
    BY DEF CountInv
  <1> QED
    BY <1>1, <1>2, <1>3, ReceivingScene, PTL DEF Spec

-----------------------------------------------------------------------------
(* A step moves only its own call; it enters "match" only by reading a     *)
(* card and "closing" only by reading a tally.                             *)
LEMMA StageEntry ==
    ASSUME TypeOK, CallsHaveSession, NEW r \in Requests,
           Send(r) \/ Continue(r) \/ Abort(r)
    PROVE  /\ \A q \in Requests : q # r => req'[q] = req[q]
           /\ req'[r].stage = "match" => ReadCard(r)
           /\ req'[r].stage = "closing" => Tally(r)
  <1>1. \A q \in Requests : q # r => req'[q] = req[q]
    BY NextCall DEF Goto, TypeOK
  <1>2. \A c : Goto(r, c) => req'[r] = c
    BY DEF Goto, TypeOK
  <1>3. ASSUME Goto(r, Done) PROVE req'[r].stage = "done"
    BY <1>2, <1>3 DEF Done
  <1>4. ASSUME Send(r) PROVE req'[r].stage \notin {"match", "closing"}
    <2>1. ASSUME \/ Start(r)
                 \/ \E s \in Sessions :
                        \/ Pause(r, s) \/ Resume(r, s) \/ Flag(r, s)
                        \/ ReopenSession(r, s)
          PROVE  req'[r].stage \notin {"match", "closing"}
      <3>1. CASE Start(r)
        BY <1>2, <3>1 DEF Start
      <3>2. ASSUME NEW s \in Sessions, Pause(r, s)
            PROVE  req'[r].stage \notin {"match", "closing"}
        BY <1>2, <3>2 DEF Pause
      <3>3. ASSUME NEW s \in Sessions, Resume(r, s)
            PROVE  req'[r].stage \notin {"match", "closing"}
        BY <1>2, <3>3 DEF Resume
      <3>4. ASSUME NEW s \in Sessions, Flag(r, s)
            PROVE  req'[r].stage \notin {"match", "closing"}
        BY <1>2, <3>4 DEF Flag
      <3>5. ASSUME NEW s \in Sessions, ReopenSession(r, s)
            PROVE  req'[r].stage \notin {"match", "closing"}
        BY <1>2, <3>5 DEF ReopenSession
      <3> QED
        BY <2>1, <3>1, <3>2, <3>3, <3>4, <3>5
    <2>2. ASSUME NEW s \in Sessions, NEW b \in BOOLEAN,
                 Complete(r, s, b) \/ RecoverStuckSession(r, s)
          PROVE  req'[r].stage \notin {"match", "closing"}
      BY <1>2, <2>2 DEF Complete, RecoverStuckSession
    <2>3. ASSUME NEW s, NEW l, NEW o, NEW n, ConfirmProduct(r, s, l, o, n)
          PROVE  req'[r].stage \notin {"match", "closing"}
      BY <1>2, <2>3 DEF ConfirmProduct
    <2>4. ASSUME NEW s, NEW c, NEW o, ConfirmCarton(r, s, c, o)
          PROVE  req'[r].stage \notin {"match", "closing"}
      BY <1>2, <2>4 DEF ConfirmCarton
    <2>5. ASSUME NEW row, ReverseCarton(r, row)
          PROVE  req'[r].stage \notin {"match", "closing"}
      BY <1>2, <2>5 DEF ReverseCarton
    <2>6. ASSUME \E s \in Sessions :
                    \/ ResolveDiscrepancy(r, s)
                    \/ \E l \in Lines, n \in Quantities :
                            CorrectQuantity(r, s, l, n)
          PROVE  req'[r].stage \notin {"match", "closing"}
      BY <1>3, <2>6 DEF ResolveDiscrepancy, CorrectQuantity
    <2> QED
      BY <1>4, <2>1, <2>2, <2>3, <2>4, <2>5, <2>6
      DEF Send, Scan, ConfirmByTracking
  <1>5. ASSUME \/ \E s \in Sessions : CreateSession(r, s)
               \/ WriteProduct(r) \/ WriteCarton(r) \/ WritePause(r)
               \/ WriteResume(r) \/ WriteFlag(r) \/ WriteCompletion(r)
               \/ WriteReverse(r) \/ WriteReopen(r) \/ Abort(r)
        PROVE  req'[r].stage = "done"
    BY <1>3, <1>5 DEF CreateSession, WriteProduct, WriteCarton, WritePause,
        WriteResume, WriteFlag, WriteCompletion, WriteReverse, WriteReopen, Abort
  <1>6. ASSUME ProductRaced(r) PROVE req'[r].stage = "rescan"
    BY <1>2, <1>6 DEF ProductRaced
  <1>7. ASSUME Rescan(r) PROVE req'[r].stage \in {"scan", "done"}
    <2>1. [req[r] EXCEPT !.stage = "scan"].stage = "scan"
      BY <1>7, CallFields DEF Rescan, At, ScanCall
    <2> QED
      BY <1>2, <1>3, <1>7, <2>1 DEF Rescan
  <1>8. ASSUME ReadCard(r) PROVE req'[r].stage # "closing"
    BY <1>2, <1>3, <1>8 DEF ReadCard
  <1>9. ASSUME Tally(r) PROVE req'[r].stage # "match"
    BY <1>2, <1>3, <1>9 DEF Tally
  <1> QED
    BY <1>1, <1>4, <1>5, <1>6, <1>7, <1>8, <1>9 DEF Continue

(* A clean tally: every line holds exactly what its card expects.          *)
LEMMA CleanTally ==
    ASSUME TypeOK, ExcessIsOverage, NEW s \in Sessions, ~Reconcile(s),
           NEW l \in Lines
    PROVE  line[s][l].received = Expected[l]
  <1>1. line[s][l].received \in Nat /\ Expected[l] \in Nat
    BY ReceivingAssumption DEF TypeOK, LineRow
  <1>2. ~(line[s][l].received < Expected[l]) /\ line[s][l].status # "OVERAGE"
    BY DEF Reconcile
  <1> QED
    BY <1>1, <1>2 DEF ExcessIsOverage

(* What a step may do to the quantity of a line that is exact.             *)
LEMMA ExactStays ==
    ASSUME ExactInv, NEW r \in Requests, Send(r) \/ Continue(r) \/ Abort(r),
           NEW s \in Sessions, session[s] # "none", NEW l \in Lines,
           ~corrected[s][l] => line[s][l].received = Expected[l],
           ~corrected'[s][l]
    PROVE  line'[s][l].received = Expected[l]
  <1> USE DEF ExactInv
  <1>1. CASE WriteProduct(r)
    <2>1. corrected' = corrected
      BY <1>1, CountScanEffect
    <2>2. line[s][l].received = Expected[l]
      BY <2>1
    <2>3. req[r].seen < Expected[req[r].line]
      BY <1>1 DEF MatchSawIncomplete, WriteProduct, At
    <2>4. Expected[l] \in Nat
      BY ReceivingAssumption
    <2>5. ~(s = req[r].sess /\ l = req[r].line)
      BY <1>1, <2>2, <2>3, <2>4, CountScanEffect
    <2> QED
      BY <1>1, <2>2, <2>5, CountScanEffect
  <1>2. ASSUME NEW t \in Sessions, NEW m \in Lines, NEW n \in Quantities,
               CorrectQuantity(r, t, m, n)
        PROVE  line'[s][l].received = Expected[l]
    <2>1. ~(t = s /\ m = l)
      BY <1>2 DEF CorrectQuantity, TypeOK
    <2>2. line'[s][l] = line[s][l] /\ corrected'[s][l] = corrected[s][l]
      BY <1>2, <2>1 DEF CorrectQuantity, TypeOK
    <2> QED
      BY <2>2
  <1>3. ASSUME NEW t \in Sessions, CreateSession(r, t)
        PROVE  line'[s][l].received = Expected[l]
    <2>1. t # s
      BY <1>3 DEF CreateSession
    <2> QED
      BY <1>3, <2>1 DEF CreateSession, TypeOK, logVars
  <1>4. CASE /\ ~WriteProduct(r)
             /\ ~\E t \in Sessions, m \in Lines, n \in Quantities :
                    CorrectQuantity(r, t, m, n)
             /\ ~\E t \in Sessions : CreateSession(r, t)
    BY <1>4, QuantityWriters
  <1> QED
    BY <1>1, <1>2, <1>3, <1>4

(* A line counted beyond its card is marked OVERAGE by whoever counts.     *)
LEMMA OverageStep ==
    ASSUME ExactInv, NEW r \in Requests, Send(r) \/ Continue(r) \/ Abort(r)
    PROVE  ExcessIsOverage'
  <1> USE DEF ExactInv
  <1>1. SUFFICES ASSUME NEW s \in Sessions, NEW l \in Lines,
                        line'[s][l].received > Expected[l]
                 PROVE  line'[s][l].status = "OVERAGE"
    BY DEF ExcessIsOverage
  <1>2. line'[s][l].received \in Nat /\ Expected[l] \in Nat
    BY ReceivingAssumption, SendKeepsType, ContinueKeepsType DEF TypeOK, LineRow
  <1>3. CASE WriteProduct(r)
    <2>1. CASE s = req[r].sess /\ l = req[r].line
      BY <1>1, <1>2, <1>3, <2>1, CountScanEffect DEF CountedStatus
    <2>2. CASE ~(s = req[r].sess /\ l = req[r].line)
      BY <1>1, <1>3, <2>2, CountScanEffect DEF ExcessIsOverage
    <2> QED
      BY <2>1, <2>2
  <1>4. ASSUME NEW t \in Sessions, NEW m \in Lines, NEW n \in Quantities,
               CorrectQuantity(r, t, m, n)
        PROVE  line'[s][l].status = "OVERAGE"
    <2> DEFINE st == IF n = 0 THEN "EXPECTED" ELSE CountedStatus(m, n)
               row == [received |-> n, status |-> st]
    <2>1. line' = [line EXCEPT ![t][m] = row]
      BY <1>4 DEF CorrectQuantity
    <2>2. row.received = n /\ row.status = st
      OBVIOUS
    <2> HIDE DEF row
    <2>3. CASE s = t /\ l = m
      <3>1. line'[s][l] = row
        BY <2>1, <2>3 DEF TypeOK
      <3> QED
        BY <1>1, <1>2, <2>2, <2>3, <3>1 DEF CountedStatus
    <2>4. CASE ~(s = t /\ l = m)
      <3>1. line'[s][l] = line[s][l]
        BY <2>1, <2>4 DEF TypeOK
      <3> QED
        BY <1>1, <3>1 DEF ExcessIsOverage
    <2> QED
      BY <2>3, <2>4
  <1>5. ASSUME NEW t \in Sessions, CreateSession(r, t)
        PROVE  line'[s][l].status = "OVERAGE"
    <2>1. CASE s = t
      <3>1. line'[s][l].received = 0
        BY <1>5, <2>1 DEF CreateSession, TypeOK, SeedLines
      <3> QED
        BY <1>1, <1>2, <3>1
    <2>2. CASE s # t
      <3>1. line'[s][l] = line[s][l]
        BY <1>5, <2>2 DEF CreateSession, TypeOK
      <3> QED
        BY <1>1, <3>1 DEF ExcessIsOverage
    <2> QED
      BY <2>1, <2>2
  <1>6. CASE /\ ~WriteProduct(r)
             /\ ~\E t \in Sessions, m \in Lines, n \in Quantities :
                    CorrectQuantity(r, t, m, n)
             /\ ~\E t \in Sessions : CreateSession(r, t)
    BY <1>1, <1>6, QuantityWriters DEF ExcessIsOverage
  <1> QED
    BY <1>3, <1>4, <1>5, <1>6

(* Only a completion that read a clean tally makes a session COMPLETED.    *)
LEMMA CompletedBy ==
    ASSUME TypeOK, NEW r \in Requests, Send(r) \/ Continue(r) \/ Abort(r),
           NEW s \in Sessions, session[s] # "COMPLETED",
           session'[s] = "COMPLETED"
    PROVE  WriteCompletion(r) /\ s = req[r].sess /\ ~req[r].dirty
  <1>1. CASE WriteCompletion(r)
    <2> DEFINE final == IF req[r].dirty THEN "COMPLETED_WITH_DISCREPANCY"
                        ELSE "COMPLETED"
    <2>1. \/ session' = [session EXCEPT ![req[r].sess] = final]
          \/ UNCHANGED session
      BY <1>1 DEF WriteCompletion, ApplyCompletionTx
    <2>2. req[r].dirty \in BOOLEAN
      BY <1>1, CallFields DEF WriteCompletion, ClosingCall
    <2>3. final = "COMPLETED" => ~req[r].dirty
      BY <2>2
    <2> HIDE DEF final
    <2> QED
      BY <1>1, <2>1, <2>3 DEF TypeOK
  <1>2. ASSUME Send(r) PROVE UNCHANGED session
    BY <1>2 DEF Send, Start, Scan, ConfirmProduct, ConfirmByTracking,
        ConfirmCarton, Pause, Resume, Flag, ResolveDiscrepancy, Complete,
        RecoverStuckSession, ReopenSession, CorrectQuantity, ReverseCarton,
        dbVars
  <1>3. ASSUME \/ ReadCard(r) \/ WriteProduct(r) \/ ProductRaced(r) \/ Rescan(r)
               \/ WriteCarton(r) \/ WriteFlag(r) \/ Tally(r) \/ WriteReverse(r)
               \/ Abort(r)
        PROVE  UNCHANGED session
    BY <1>3 DEF ReadCard, WriteProduct, ProductRaced, Rescan, WriteCarton,
        WriteFlag, Tally, WriteReverse, Abort, dbVars
  <1>4. ASSUME \/ \E t \in Sessions : CreateSession(r, t)
               \/ WritePause(r) \/ WriteResume(r) \/ WriteReopen(r)
        PROVE  FALSE
    BY <1>4 DEF CreateSession, WritePause, WriteResume, WriteReopen, TypeOK
  <1> QED
    BY <1>1, <1>2, <1>3, <1>4 DEF Continue

(* The step of the invariant behind a clean completion.                    *)
LEMMA ExactStep ==
    ASSUME ExactInv, NEW r \in Requests, Send(r) \/ Continue(r) \/ Abort(r)
    PROVE  ExactInv'
  <1> USE DEF ExactInv
  <1>1. TypeOK'
    BY SendKeepsType, ContinueKeepsType
  <1>2. CallsHaveSession'
    BY CallsKeepSession
  <1>3. ExcessIsOverage'
    BY OverageStep
  <1>4. MatchSawIncomplete'
    <2>1. SUFFICES ASSUME NEW q \in Requests, req'[q].stage = "match"
                   PROVE  req'[q].seen < Expected[req'[q].line]
      BY DEF MatchSawIncomplete
    <2>2. CASE q # r
      BY <2>1, <2>2, StageEntry DEF MatchSawIncomplete
    <2>3. CASE q = r
      <3>1. ReadCard(r)
        BY <2>1, <2>3, StageEntry
      <3>2. req[r] \in ScanCall
        BY <3>1, CallFields DEF ReadCard, At
      <3> DEFINE seen == line[req[r].sess][req[r].line].received
      <3>3. seen \in Nat /\ Expected[req[r].line] \in Nat
        BY <3>2, ReceivingAssumption DEF TypeOK, LineRow, ScanCall
      <3>4. req' = [req EXCEPT ![r] =
                      IF seen >= Expected[req[r].line] THEN Done
                      ELSE [stage |-> "match", sess |-> req[r].sess,
                            line |-> req[r].line, op |-> req[r].op,
                            origin |-> req[r].origin, qty |-> req[r].qty,
                            seen |-> seen]]
        BY <3>1 DEF ReadCard, Goto
      <3>5. ~(seen >= Expected[req[r].line])
        BY <2>1, <2>3, <3>4 DEF TypeOK, Done
      <3> HIDE DEF seen
      <3>6. req'[r].seen = seen /\ req'[r].line = req[r].line
        BY <3>4, <3>5 DEF TypeOK
      <3> QED
        BY <2>3, <3>3, <3>5, <3>6
    <2> QED
      BY <2>2, <2>3
  <1>5. CleanTallyStaysExact'
    <2>1. SUFFICES ASSUME NEW q \in Requests, req'[q].stage = "closing",
                          ~req'[q].dirty, NEW l \in Lines,
                          ~corrected'[req'[q].sess][l]
                   PROVE  line'[req'[q].sess][l].received = Expected[l]
      BY DEF CleanTallyStaysExact
    <2>2. CASE q # r
      <3>1. req'[q] = req[q]
        BY <2>2, StageEntry
      <3>2. req[q].sess \in Sessions /\ session[req[q].sess] # "none"
        BY <2>1, <3>1, CallSession DEF SessionStages, CallsHaveSession
      <3>3. ~corrected[req[q].sess][l] =>
                line[req[q].sess][l].received = Expected[l]
        BY <2>1, <3>1 DEF CleanTallyStaysExact
      <3> QED
        BY <2>1, <3>1, <3>2, <3>3, ExactStays
    <2>3. CASE q = r
      <3>1. Tally(r)
        BY <2>1, <2>3, StageEntry
      <3>2. req[r].sess \in Sessions
        BY <3>1, CallFields DEF Tally, TallyCall
      <3>3. /\ req'[r].sess = req[r].sess
            /\ ~Reconcile(req[r].sess)
        BY <2>1, <2>3, <3>1 DEF Tally, Goto, TypeOK, Done
      <3>4. line' = line
        BY <3>1 DEF Tally, dbVars
      <3> QED
        BY <2>3, <3>2, <3>3, <3>4, CleanTally
    <2> QED
      BY <2>2, <2>3
  <1>6. CleanMeansExact'
    <2>1. SUFFICES ASSUME NEW s \in Sessions, session'[s] = "COMPLETED",
                          NEW l \in Lines, ~corrected'[s][l]
                   PROVE  line'[s][l].received = Expected[l]
      BY DEF CleanMeansExact
    <2>2. CASE session[s] = "COMPLETED"
      BY <2>1, <2>2, ExactStays DEF CleanMeansExact
    <2>3. CASE session[s] # "COMPLETED"
      <3>1. WriteCompletion(r) /\ s = req[r].sess /\ ~req[r].dirty
        BY <2>1, <2>3, CompletedBy
      <3>2. session[s] # "none"
        BY <3>1 DEF CallsHaveSession, SessionStages, WriteCompletion, At
      <3>3. ~corrected[s][l] => line[s][l].received = Expected[l]
        BY <3>1 DEF CleanTallyStaysExact, WriteCompletion, At
      <3> QED
        BY <2>1, <3>2, <3>3, ExactStays
    <2> QED
      BY <2>2, <2>3
  <1> QED
    BY <1>1, <1>2, <1>3, <1>4, <1>5, <1>6

(* A session closed clean has received exactly what every uncorrected      *)
(* product card expects, although the tally that decided it was read       *)
(* before the closing transaction and scans may still be in flight.        *)
THEOREM CleanCompletionExact == FloorSpec => []CleanMeansExact
  <1>1. Init => ExactInv
    <2>1. Init => TypeOK
      BY ReceivingAssumption
      DEF Init, TypeOK, ArrivalStatus, SessionStatus, LineRow, LineStatus,
          SeedLines, Call, IdleCall, Unsent
    <2>2. Init => /\ CallsHaveSession /\ MatchSawIncomplete
                  /\ CleanTallyStaysExact /\ CleanMeansExact
      BY DEF Init, CallsHaveSession, MatchSawIncomplete, CleanTallyStaysExact,
             CleanMeansExact, SessionStages, Unsent
    <2>3. Init => ExcessIsOverage
      BY ReceivingAssumption DEF Init, ExcessIsOverage, SeedLines
    <2> QED
      BY <2>1, <2>2, <2>3 DEF ExactInv
  <1>2. ExactInv /\ [Next]_vars => ExactInv'
    <2>1. ASSUME ExactInv, UNCHANGED vars PROVE ExactInv'
      BY <2>1 DEF ExactInv, TypeOK, CallsHaveSession, MatchSawIncomplete,
                  CleanTallyStaysExact, ExcessIsOverage, CleanMeansExact, vars
    <2> QED
      BY <2>1, ExactStep DEF Next
  <1>3. ExactInv => CleanMeansExact
    BY DEF ExactInv
  <1> QED
    BY <1>1, <1>2, <1>3, ReceivingScene, PTL DEF Spec
-----------------------------------------------------------------------------
(* Only two steps write carton cards: the receipt, which adds its own row, *)
(* and the reversal, which puts back the card of the row it reverses; it   *)
(* cannot take the row another card, or a later receipt, stands on.        *)
LEMMA CartonsKeepReceipts ==
    ASSUME TypeOK, ReceivedCartonHasReceipt, NEW r \in Requests,
           Send(r) \/ Continue(r) \/ Abort(r)
    PROVE  ReceivedCartonHasReceipt'
  <1>1. CASE UNCHANGED cartonVars
    BY <1>1 DEF cartonVars, ReceivedCartonHasReceipt
  <1>2. CASE WriteCarton(r)
    <2> DEFINE row == [id |-> r, sess |-> req[r].sess, carton |-> req[r].carton,
                       op |-> req[r].op, status |-> "RECEIVED"]
    <2>1. /\ receipt' = receipt \cup {row}
          /\ carton' = [carton EXCEPT ![req[r].carton] = "RECEIVED"]
          /\ row.carton = req[r].carton /\ row.status = "RECEIVED"
      BY <1>2 DEF WriteCarton
    <2> HIDE DEF row
    <2> SUFFICES ASSUME NEW c \in Cartons, carton'[c] = "RECEIVED"
                 PROVE  \E x \in receipt' : x.carton = c /\ x.status = "RECEIVED"
      BY DEF ReceivedCartonHasReceipt
    <2>2. CASE c = req[r].carton
      BY <2>1, <2>2
    <2>3. CASE c # req[r].carton
      BY <2>1, <2>3 DEF TypeOK, ReceivedCartonHasReceipt
    <2> QED
      BY <2>2, <2>3
  <1>3. CASE WriteReverse(r)
    <2>1. req[r].row \in ReceiptRow
      BY <1>3, CallFields DEF WriteReverse, ReverseCall
    <2>2. /\ receipt \ {req[r].row} \subseteq receipt'
          /\ carton' = [carton EXCEPT ![req[r].row.carton] = "EXPECTED"]
      BY <1>3 DEF WriteReverse
    <2> SUFFICES ASSUME NEW c \in Cartons, carton'[c] = "RECEIVED"
                 PROVE  \E x \in receipt' : x.carton = c /\ x.status = "RECEIVED"
      BY DEF ReceivedCartonHasReceipt
    <2>3. c # req[r].row.carton /\ carton[c] = "RECEIVED"
      BY <2>1, <2>2 DEF TypeOK, ReceiptRow
    <2>4. PICK x \in receipt : x.carton = c /\ x.status = "RECEIVED"
      BY <2>3 DEF ReceivedCartonHasReceipt
    <2> QED
      BY <2>2, <2>3, <2>4
  <1>4. ASSUME Send(r) PROVE UNCHANGED cartonVars
    BY <1>4 DEF Send, Start, Scan, ConfirmProduct, ConfirmByTracking,
        ConfirmCarton, Pause, Resume, Flag, ResolveDiscrepancy, Complete,
        RecoverStuckSession, ReopenSession, CorrectQuantity, ReverseCarton,
        dbVars
  <1>5. ASSUME \/ \E s \in Sessions : CreateSession(r, s)
               \/ ReadCard(r) \/ WriteProduct(r) \/ ProductRaced(r) \/ Rescan(r)
               \/ WritePause(r) \/ WriteResume(r) \/ WriteFlag(r) \/ Tally(r)
               \/ WriteCompletion(r) \/ WriteReopen(r) \/ Abort(r)
        PROVE  UNCHANGED cartonVars
    BY <1>5 DEF CreateSession, ReadCard, WriteProduct, ProductRaced, Rescan,
        WritePause, WriteResume, WriteFlag, Tally, WriteCompletion, WriteReopen,
        Abort, dbVars
  <1> QED
    BY <1>1, <1>2, <1>3, <1>4, <1>5 DEF Continue

(* A carton card that reads RECEIVED stands on a receipt row that was not  *)
(* reversed, however many confirmations and admin reversals of the same    *)
(* card overlap (confirmCarton, reverseCarton).                            *)
THEOREM CartonsStandOnReceipts == FloorSpec => []ReceivedCartonHasReceipt
  <1>1. Init => ReceivedCartonHasReceipt
    BY DEF Init, ReceivedCartonHasReceipt
  <1>2. TypeOK /\ ReceivedCartonHasReceipt /\ [Next]_vars
          => ReceivedCartonHasReceipt'
    <2>1. ASSUME ReceivedCartonHasReceipt, UNCHANGED vars
          PROVE  ReceivedCartonHasReceipt'
      BY <2>1 DEF ReceivedCartonHasReceipt, vars, cartonVars
    <2> QED
      BY <2>1, CartonsKeepReceipts DEF Next
  <1> QED
    BY <1>1, <1>2, TypeCorrect, ReceivingScene, PTL DEF Spec

-----------------------------------------------------------------------------
(* The tasks of the workers.                                               *)
TaskRow == [status : TD!Live \cup TD!Closed, worker : Workers, job : Jobs \cup {None}, auto : BOOLEAN,
            station : Stations \cup {None}]

(* What a call relies on when it writes.                                   *)
CallStands(c) ==
    /\ c.at \in {"cancel", "block", "unblock"} => task[c.task] # TD!NoRow
    /\ c.at = "card" => Key[c.job] = "receiving"
    /\ c.at = "stage" => Key[c.job] = "container" /\ work[c.job] # "later"
    /\ c.at = "finish" => Key[c.job] \in {"packing", "shipping", "putaway"}
    /\ c.at \in {"fill", "reopen"} => Key[c.job] = "packing"

(* Sorting waits until the tote is staged.                                 *)
NextWaits == \A j \in Jobs : TD!Opens(j) /\ work[j] # "done" => work[Following[j]] = "later"

DispatchInv ==
    /\ task \in [TD!Tasks -> TaskRow \cup {TD!NoRow}]
    /\ work \in [Jobs -> {"later", "open", "done"}]
    /\ call \in [Calls -> TD!Call]
    /\ \A r \in Calls : CallStands(call[r])
    /\ NextWaits

(* What every step does to the rows, and to what the calls are about to    *)
(* insert.                                                                 *)
RowsGoOn ==
    /\ task' \in [TD!Tasks -> TaskRow \cup {TD!NoRow}]
    /\ \A t \in TD!Tasks : task[t] # TD!NoRow =>
          task'[t] # TD!NoRow /\ task'[t].job = task[t].job /\ task'[t].auto = task[t].auto
    /\ \A t \in TD!Tasks : task[t] = TD!NoRow /\ task'[t] # TD!NoRow =>
          task'[t].auto = FALSE \/ \E r \in Calls : TD!Inserts(r, task'[t].job)
CallGoesOn(r) ==
    \A j \in Jobs :
       /\ TD!Inserts(r, j)' => TD!Inserts(r, j) \/ TD!LiveRows(j) = {}
       /\ TD!Dispatches(r, j)' => TD!Dispatches(r, j) \/ work[j] # "done" \/ work'[j] # "done"
DispatchGoesOn == DispatchInv' /\ RowsGoOn /\ \A r \in Calls : CallGoesOn(r)

LEMMA TaskCallFields ==
    ASSUME DispatchInv, NEW r \in Calls
    PROVE  /\ call[r].at \in {"idle", "create", "cancel", "block", "unblock", "assign", "finish",
                              "stage", "card", "insert", "totes", "dispatch", "fill", "reopen"}
           /\ TD!At(r, "create") => /\ call[r].worker \in Workers /\ call[r].job \in Jobs
                                    /\ call[r].station \in Stations \cup {None}
           /\ call[r].at \in {"cancel", "block", "unblock"} => call[r].task \in TD!Tasks
           /\ TD!At(r, "assign") => call[r].station \in Stations /\ call[r].worker \in Workers
           /\ TD!At(r, "finish") => call[r].worker \in Workers /\ call[r].job \in Jobs
           /\ call[r].at \in {"stage", "card", "insert"} =>
                call[r].job \in Jobs /\ call[r].next \in Workers \cup {None}
           /\ call[r].at \in {"totes", "dispatch", "fill", "reopen"} => call[r].job \in Jobs
  <1>1. call[r] \in TD!Call
    BY DEF DispatchInv
  <1> QED
    BY <1>1 DEF TD!Call, TD!At, TD!Idle

LEMMA ChoiceIsWorker ==
    ASSUME NEW j, NEW w \in TD!Choices(j)
    PROVE  /\ w \in Workers \cup {None}
           /\ w # None => TD!LiveRows(j) = {}
  BY DEF TD!Choices, TD!Eligible, TD!Existing

LEMMA FollowsIn ==
    ASSUME TD!DispatchAssumption, NEW j \in Jobs, TD!Opens(j)
    PROVE  /\ Following[j] \in Jobs
           /\ Key[j] = "container" /\ Key[Following[j]] = "sorting"
           /\ ~TD!Opens(Following[j])
           /\ \A i \in Jobs : Following[i] = Following[j] => i = j
  BY DEF TD!DispatchAssumption, TD!Follows, TD!Opens

(* A step that only changes rows in place.                                 *)
LEMMA RowsInPlace ==
    ASSUME DispatchInv, task' \in [TD!Tasks -> TaskRow \cup {TD!NoRow}],
           \A t \in TD!Tasks : IF task[t] = TD!NoRow THEN task'[t] = TD!NoRow
                            ELSE /\ task'[t] # TD!NoRow /\ task'[t].job = task[t].job
                                 /\ task'[t].auto = task[t].auto
    PROVE  RowsGoOn
  BY DEF RowsGoOn

LEMMA StatusInPlace ==
    ASSUME DispatchInv, NEW t \in TD!Tasks, task[t] # TD!NoRow, NEW s \in TD!Live \cup TD!Closed
    PROVE  LET row == [task[t] EXCEPT !.status = s]
           IN  row \in TaskRow /\ row # TD!NoRow /\ row.job = task[t].job /\ row.auto = task[t].auto
  <1>1. task[t] \in TaskRow
    BY DEF DispatchInv
  <1>2. [task[t] EXCEPT !.status = s] \in TaskRow
    BY <1>1 DEF TaskRow
  <1> QED
    BY <1>1, <1>2 DEF TaskRow, TD!NoRow

LEMMA CompletedInPlace ==
    ASSUME DispatchInv, NEW R, \A t \in R \cap TD!Tasks : task[t] # TD!NoRow
    PROVE  /\ TD!Completed(R) \in [TD!Tasks -> TaskRow \cup {TD!NoRow}]
           /\ \A t \in TD!Tasks :
                IF task[t] = TD!NoRow THEN TD!Completed(R)[t] = TD!NoRow
                ELSE /\ TD!Completed(R)[t] # TD!NoRow /\ TD!Completed(R)[t].job = task[t].job
                     /\ TD!Completed(R)[t].auto = task[t].auto
  <1> DEFINE new(t) == IF t \in R THEN [task[t] EXCEPT !.status = "COMPLETED"] ELSE task[t]
  <1>1. ASSUME NEW t \in TD!Tasks
        PROVE  /\ new(t) \in TaskRow \cup {TD!NoRow}
               /\ IF task[t] = TD!NoRow THEN new(t) = TD!NoRow
                  ELSE new(t) # TD!NoRow /\ new(t).job = task[t].job /\ new(t).auto = task[t].auto
    BY StatusInPlace DEF DispatchInv, TD!Closed
  <1>2. TD!Completed(R) = [t \in TD!Tasks |-> new(t)]
    BY DEF TD!Completed
  <1> HIDE DEF new
  <1> QED
    BY <1>1, <1>2

(* A row is inserted beside rows that only changed in place.               *)
LEMMA InsertedGoesOn ==
    ASSUME TD!DispatchAssumption, DispatchInv, NEW kept \in [TD!Tasks -> TaskRow \cup {TD!NoRow}],
           \A t \in TD!Tasks : IF task[t] = TD!NoRow THEN kept[t] = TD!NoRow
                            ELSE /\ kept[t] # TD!NoRow /\ kept[t].job = task[t].job
                                 /\ kept[t].auto = task[t].auto,
           NEW w \in Workers \cup {None}, NEW j \in Jobs \cup {None}, NEW auto \in BOOLEAN,
           NEW s \in Stations \cup {None},
           w # None => auto = FALSE \/ \E r \in Calls : TD!Inserts(r, j),
           task' = TD!InsertedAt(kept, w, j, auto, s)
    PROVE  RowsGoOn
  <1>1. CASE w = None
    BY <1>1, RowsInPlace DEF TD!InsertedAt
  <1>2. CASE w # None
    <2> DEFINE row == [status |-> "ASSIGNED", worker |-> w, job |-> j, auto |-> auto, station |-> s]
    <2>1. row \in TaskRow /\ row # TD!NoRow /\ row.job = j /\ row.auto = auto
      BY <1>2 DEF TaskRow, TD!NoRow, TD!Live, TD!Open
    <2>2. task' = [t \in TD!Tasks |-> IF t \in TD!Free /\ \A u \in TD!Free : t <= u THEN row ELSE kept[t]]
      BY <1>2 DEF TD!InsertedAt
    <2> HIDE DEF row
    <2>3. ASSUME NEW t \in TD!Tasks
          PROVE  /\ task'[t] \in TaskRow \cup {TD!NoRow}
                 /\ task[t] # TD!NoRow => task'[t] = kept[t]
                 /\ task[t] = TD!NoRow => task'[t] \in {row, TD!NoRow}
      BY <2>1, <2>2 DEF TD!Free
    <2> QED
      BY <1>2, <2>1, <2>2, <2>3 DEF RowsGoOn
  <1> QED
    BY <1>1, <1>2

(* What the steps do to the work.                                          *)
WorkGoesOn ==
    /\ work' \in [Jobs -> {"later", "open", "done"}]
    /\ NextWaits'
    /\ \A j \in Jobs : Key[j] = "container" /\ work[j] # "later" => work'[j] # "later"

(* Totes and their sorting are left alone.                                 *)
LEMMA WorkElsewhere ==
    ASSUME TD!DispatchAssumption, DispatchInv, work' \in [Jobs -> {"later", "open", "done"}],
           \A i \in Jobs : Key[i] \in {"container", "sorting"} => work'[i] = work[i]
    PROVE  WorkGoesOn
  <1>1. ASSUME NEW i \in Jobs, TD!Opens(i), work'[i] # "done"
        PROVE  work'[Following[i]] = "later"
    BY <1>1, FollowsIn DEF DispatchInv, NextWaits
  <1> QED
    BY <1>1 DEF WorkGoesOn, NextWaits, TD!Opens

(* One job changes, and it is no tote and no sorting.                      *)
LEMMA OneWorkElsewhere ==
    ASSUME TD!DispatchAssumption, DispatchInv, NEW j \in Jobs, Key[j] \notin {"container", "sorting"},
           NEW x \in {"later", "open", "done"}, work' = [work EXCEPT ![j] = x]
    PROVE  WorkGoesOn
  <1>1. work \in [Jobs -> {"later", "open", "done"}]
    BY DEF DispatchInv
  <1> QED
    BY <1>1, WorkElsewhere

LEMMA ToteCloses ==
    ASSUME TD!DispatchAssumption, DispatchInv, NEW j \in Jobs, Key[j] = "container", work[j] = "later",
           work' = [work EXCEPT ![j] = "open"]
    PROVE  WorkGoesOn
  <1>1. work \in [Jobs -> {"later", "open", "done"}] /\ NextWaits
    BY DEF DispatchInv
  <1>2. ASSUME NEW i \in Jobs, TD!Opens(i), work'[i] # "done"
        PROVE  work'[Following[i]] = "later"
    <2>1. Following[i] \in Jobs /\ Following[i] # j
      BY <1>2, FollowsIn
    <2>2. work[i] # "done"
      BY <1>1, <1>2
    <2> QED
      BY <1>1, <1>2, <2>1, <2>2 DEF NextWaits
  <1> QED
    BY <1>1, <1>2 DEF WorkGoesOn, NextWaits, TD!Opens

LEMMA WorkIsDone ==
    ASSUME TD!DispatchAssumption, DispatchInv, NEW j \in Jobs, work[j] # "later", work' = TD!Done(j)
    PROVE  WorkGoesOn
  <1> DEFINE k == Following[j]
  <1>1. /\ work \in [Jobs -> {"later", "open", "done"}]
        /\ NextWaits
    BY DEF DispatchInv
  <1>2. TD!Opens(j) => k \in Jobs /\ k # j
    BY FollowsIn
  <1>3. work' = [i \in Jobs |-> IF i = j THEN "done"
                                ELSE IF TD!Opens(j) /\ i = k /\ work[k] = "later" THEN "open" ELSE work[i]]
    BY <1>1, <1>2 DEF TD!Done, TD!DoneAndOpened
  <1>4. ASSUME NEW i \in Jobs, TD!Opens(i), work'[i] # "done"
        PROVE  work'[Following[i]] = "later"
    <2>1. i # j /\ Following[i] \in Jobs
      BY <1>3, <1>4, FollowsIn
    <2>2. work[i] # "done"
      BY <1>1, <1>3, <1>4
    <2>3. work[Following[i]] = "later" /\ Following[i] # j
      BY <1>1, <1>4, <2>2 DEF NextWaits
    <2>4. Following[i] # k
      BY <1>4, <2>1, FollowsIn
    <2> QED
      BY <1>3, <2>1, <2>3, <2>4
  <1>5. NextWaits'
    BY <1>4 DEF NextWaits, TD!Opens
  <1> QED
    BY <1>1, <1>3, <1>5 DEF WorkGoesOn

(* The job for which a call in state c is about to insert a task.          *)
Puts(c, j) ==
    /\ c.at \in {"card", "insert", "stage"}
    /\ c.next # None
    /\ j = IF c.at = "stage" THEN Following[c.job] ELSE c.job

(* One call moves on.                                                      *)
LEMMA OneCallMoves ==
    ASSUME DispatchInv, RowsGoOn, WorkGoesOn, NEW r \in Calls, NEW c \in TD!Call,
           call' = [call EXCEPT ![r] = c],
           c.at \in {"cancel", "block", "unblock"} => task'[c.task] # TD!NoRow,
           c.at = "card" => Key[c.job] = "receiving",
           c.at = "stage" => Key[c.job] = "container" /\ work'[c.job] # "later",
           c.at = "finish" => Key[c.job] \in {"packing", "shipping", "putaway"},
           c.at \in {"fill", "reopen"} => Key[c.job] = "packing",
           \A j \in Jobs :
              /\ Puts(c, j) => TD!Inserts(r, j) \/ TD!LiveRows(j) = {}
              /\ Puts(c, j) \/ (c.at = "dispatch" /\ c.job = j) =>
                    TD!Dispatches(r, j) \/ work[j] # "done" \/ work'[j] # "done"
    PROVE  DispatchGoesOn
  <1>1. call \in [Calls -> TD!Call] /\ call' \in [Calls -> TD!Call] /\ call'[r] = c
    BY DEF DispatchInv
  <1>2. \A q \in Calls : q # r => call'[q] = call[q]
    BY <1>1
  <1>3. \A q \in Calls : CallStands(call[q])
    BY DEF DispatchInv
  <1>4. CallStands(call[r])'
    BY <1>1 DEF CallStands
  <1>5. ASSUME NEW q \in Calls, q # r
        PROVE  CallStands(call[q])'
    <2>1. call'[q] = call[q]
      BY <1>2, <1>5
    <2>2. call[q].at \in {"cancel", "block", "unblock"} => call[q].task \in TD!Tasks
      BY TaskCallFields
    <2>3. TD!At(q, "stage") => call[q].job \in Jobs
      BY TaskCallFields DEF TD!At
    <2> QED
      BY <1>3, <1>5, <2>1, <2>2, <2>3 DEF CallStands, TD!At, RowsGoOn, WorkGoesOn
  <1>7. DispatchInv'
    BY <1>1, <1>4, <1>5 DEF DispatchInv, RowsGoOn, WorkGoesOn
  <1>8. CallGoesOn(r)
    BY <1>1 DEF CallGoesOn, Puts, TD!Inserts, TD!Dispatches, TD!At
  <1>9. ASSUME NEW q \in Calls, q # r
        PROVE  CallGoesOn(q)
    BY <1>2, <1>9 DEF CallGoesOn, TD!Inserts, TD!Dispatches, TD!At
  <1> QED
    BY <1>7, <1>8, <1>9 DEF DispatchGoesOn

(* A call returns.                                                         *)
LEMMA CallReturns ==
    ASSUME DispatchInv, RowsGoOn, WorkGoesOn, NEW r \in Calls, TD!Return(r)
    PROVE  DispatchGoesOn
  <1>1. TD!Idle \in TD!Call /\ TD!Idle.at = "idle" /\ call' = [call EXCEPT ![r] = TD!Idle]
    BY DEF TD!Call, TD!Idle, TD!Return, TD!Goto
  <1>2. \A j \in Jobs : ~Puts(TD!Idle, j)
    BY <1>1 DEF Puts
  <1> QED
    BY <1>1, <1>2, OneCallMoves

(* No call moves on.                                                       *)
LEMMA NoCallMoves ==
    ASSUME DispatchInv, RowsGoOn, WorkGoesOn, call' = call
    PROVE  DispatchGoesOn
  <1>1. ASSUME NEW q \in Calls
        PROVE  CallStands(call[q])'
    <2>1. call[q].at \in {"cancel", "block", "unblock"} => call[q].task \in TD!Tasks
      BY TaskCallFields
    <2>2. TD!At(q, "stage") => call[q].job \in Jobs
      BY TaskCallFields DEF TD!At
    <2> QED
      BY <2>1, <2>2 DEF CallStands, TD!At, RowsGoOn, WorkGoesOn, DispatchInv
  <1>3. DispatchInv'
    BY <1>1 DEF DispatchInv, RowsGoOn, WorkGoesOn
  <1>4. \A q \in Calls : CallGoesOn(q)
    BY DEF CallGoesOn, TD!Inserts, TD!Dispatches, TD!At
  <1> QED
    BY <1>3, <1>4 DEF DispatchGoesOn

(* Work and rows that stay as they are.                                    *)
LEMMA RowsStay ==
    ASSUME DispatchInv, task' = task
    PROVE  RowsGoOn
  BY DEF DispatchInv, RowsGoOn

LEMMA WorkStays ==
    ASSUME DispatchInv, work' = work
    PROVE  WorkGoesOn
  BY DEF DispatchInv, WorkGoesOn, NextWaits

(* The steps, one after the other.                                         *)
LEMMA CreateSteps ==
    ASSUME TD!DispatchAssumption, DispatchInv, NEW r \in Calls
    PROVE  /\ \A w \in Workers, j \in Jobs, s \in Stations \cup {None} :
                 TD!Create(r, w, j, s) => DispatchGoesOn
           /\ TD!WriteCreate(r) => DispatchGoesOn
  <1>1. ASSUME NEW w \in Workers, NEW j \in Jobs, NEW s \in Stations \cup {None}, TD!Create(r, w, j, s)
        PROVE  DispatchGoesOn
    <2> DEFINE c == [at |-> "create", worker |-> w, job |-> j, station |-> s]
    <2>1. c \in TD!Call /\ c.at = "create" /\ call' = [call EXCEPT ![r] = c] /\ task' = task /\ work' = work
      BY <1>1 DEF TD!Create, TD!Goto, TD!Call
    <2>2. \A i \in Jobs : ~Puts(c, i)
      BY <2>1 DEF Puts
    <2> HIDE DEF c
    <2> QED
      BY <2>1, <2>2, RowsStay, WorkStays, OneCallMoves
  <1>2. ASSUME TD!WriteCreate(r)
        PROVE  DispatchGoesOn
    <2>1. /\ call[r].worker \in Workers /\ call[r].job \in Jobs /\ work' = work /\ TD!Return(r)
          /\ call[r].station \in Stations \cup {None}
      BY <1>2, TaskCallFields DEF TD!WriteCreate
    <2>2. task \in [TD!Tasks -> TaskRow \cup {TD!NoRow}]
      BY DEF DispatchInv
    <2>3. RowsGoOn
      <3>1. task' = TD!InsertedAt(task, call[r].worker, call[r].job, FALSE, call[r].station)
        BY <1>2 DEF TD!WriteCreate
      <3>2. \A t \in TD!Tasks : IF task[t] = TD!NoRow THEN task[t] = TD!NoRow
                              ELSE /\ task[t] # TD!NoRow /\ task[t].job = task[t].job
                                   /\ task[t].auto = task[t].auto
        OBVIOUS
      <3> QED
        BY <2>1, <2>2, <3>1, <3>2, InsertedGoesOn
    <2> QED
      BY <2>1, <2>3, WorkStays, CallReturns
  <1> QED
    BY <1>1, <1>2

LEMMA StatusSteps ==
    ASSUME DispatchInv, NEW r \in Calls
    PROVE  /\ \A t \in TD!Tasks : TD!Cancel(r, t) => DispatchGoesOn
           /\ \A t \in TD!Tasks : TD!SetBlocked(r, t) => DispatchGoesOn
           /\ TD!WriteStatus(r) => DispatchGoesOn
  <1>1. ASSUME NEW t \in TD!Tasks, NEW at \in {"cancel", "block", "unblock"},
               TD!Goto(r, [at |-> at, task |-> t]), task[t] # TD!NoRow, task' = task, work' = work
        PROVE  DispatchGoesOn
    <2> DEFINE c == [at |-> at, task |-> t]
    <2>1. c \in TD!Call /\ c.at = at /\ c.task = t /\ call' = [call EXCEPT ![r] = c]
      BY <1>1 DEF TD!Goto, TD!Call
    <2>2. \A i \in Jobs : ~Puts(c, i)
      BY <2>1 DEF Puts
    <2> HIDE DEF c
    <2> QED
      BY <1>1, <2>1, <2>2, RowsStay, WorkStays, OneCallMoves
  <1>2. ASSUME NEW t \in TD!Tasks, task[t].status \in TD!Live
        PROVE  task[t] # TD!NoRow
    BY <1>2 DEF TD!NoRow, TD!Live, TD!Open
  <1>3. ASSUME NEW t \in TD!Tasks, TD!Cancel(r, t)
        PROVE  DispatchGoesOn
    <2>1. task[t] # TD!NoRow /\ TD!Goto(r, [at |-> "cancel", task |-> t]) /\ task' = task /\ work' = work
      BY <1>2, <1>3 DEF TD!Cancel, TD!Cancellable
    <2> QED
      BY <1>1, <2>1
  <1>4. ASSUME NEW t \in TD!Tasks, TD!SetBlocked(r, t)
        PROVE  DispatchGoesOn
    <2>1. task[t].status \in TD!Live /\ task' = task /\ work' = work
      BY <1>4 DEF TD!SetBlocked, TD!Live
    <2>2. \/ TD!Goto(r, [at |-> "block", task |-> t])
          \/ TD!Goto(r, [at |-> "unblock", task |-> t])
      BY <1>4 DEF TD!SetBlocked
    <2> QED
      BY <1>1, <1>2, <2>1, <2>2
  <1>5. ASSUME TD!WriteStatus(r)
        PROVE  DispatchGoesOn
    <2> DEFINE t == call[r].task
    <2>1. t \in TD!Tasks /\ task[t] # TD!NoRow
      BY <1>5, TaskCallFields DEF TD!WriteStatus, TD!At, DispatchInv, CallStands
    <2>2. PICK s \in TD!Live \cup TD!Closed : task' = [task EXCEPT ![t].status = s]
      BY <1>5 DEF TD!WriteStatus, TD!Live, TD!Open, TD!Closed
    <2>3. LET row == [task[t] EXCEPT !.status = s]
          IN  row \in TaskRow /\ row # TD!NoRow /\ row.job = task[t].job /\ row.auto = task[t].auto
      BY <2>1, StatusInPlace
    <2>4. RowsGoOn
      BY <2>1, <2>2, <2>3, RowsInPlace DEF DispatchInv
    <2>5. TD!Return(r) /\ work' = work
      BY <1>5 DEF TD!WriteStatus
    <2> QED
      BY <2>4, <2>5, WorkStays, CallReturns
  <1> QED
    BY <1>3, <1>4, <1>5

LEMMA WorkerSteps ==
    ASSUME DispatchInv
    PROVE  /\ \A t \in TD!Tasks : TD!CompleteAssignment(t) => DispatchGoesOn
           /\ \A w \in Workers, j \in Jobs : TD!StartReceiving(w, j) => DispatchGoesOn
  <1>1. ASSUME NEW t \in TD!Tasks, TD!CompleteAssignment(t)
        PROVE  DispatchGoesOn
    <2>1. LET row == [task[t] EXCEPT !.status = "COMPLETED"]
          IN  row \in TaskRow /\ row # TD!NoRow /\ row.job = task[t].job /\ row.auto = task[t].auto
      BY <1>1, StatusInPlace DEF TD!CompleteAssignment, TD!Closed
    <2>2. task' = [task EXCEPT ![t].status = "COMPLETED"] /\ task[t] # TD!NoRow
      BY <1>1 DEF TD!CompleteAssignment
    <2>3. RowsGoOn
      BY <2>1, <2>2, RowsInPlace DEF DispatchInv
    <2> QED
      BY <1>1, <2>3, WorkStays, NoCallMoves DEF TD!CompleteAssignment
  <1>2. ASSUME NEW w \in Workers, NEW j \in Jobs, TD!StartReceiving(w, j)
        PROVE  DispatchGoesOn
    <2> DEFINE new(t) == IF t \in TD!OwnOpen(j, w) THEN [task[t] EXCEPT !.status = "IN_PROGRESS"] ELSE task[t]
    <2>1. ASSUME NEW t \in TD!Tasks
          PROVE  /\ new(t) \in TaskRow \cup {TD!NoRow}
                 /\ IF task[t] = TD!NoRow THEN new(t) = TD!NoRow
                    ELSE new(t) # TD!NoRow /\ new(t).job = task[t].job /\ new(t).auto = task[t].auto
      <3>1. CASE t \in TD!OwnOpen(j, w)
        <4>1. task[t] # TD!NoRow
          BY <3>1 DEF TD!OwnOpen, TD!OpenRows, TD!Rows
        <4> QED
          BY <3>1, <4>1, StatusInPlace DEF TD!Live, TD!Open
      <3>2. CASE t \notin TD!OwnOpen(j, w)
        BY <3>2 DEF DispatchInv
      <3> QED
        BY <3>1, <3>2
    <2>2. task' = [t \in TD!Tasks |-> new(t)] /\ work' = work /\ call' = call
      BY <1>2 DEF TD!StartReceiving
    <2> HIDE DEF new
    <2>3. RowsGoOn
      BY <2>1, <2>2, RowsInPlace
    <2> QED
      BY <2>2, <2>3, WorkStays, NoCallMoves
  <1> QED
    BY <1>1, <1>2

(* Rows that are inserted beside those of task.                            *)
LEMMA InsertedAlone ==
    ASSUME TD!DispatchAssumption, DispatchInv,
           NEW w \in Workers \cup {None}, NEW j \in Jobs, w # None => \E r \in Calls : TD!Inserts(r, j),
           task' = TD!Inserted(task, w, j)
    PROVE  RowsGoOn
  <1>1. task \in [TD!Tasks -> TaskRow \cup {TD!NoRow}]
    BY DEF DispatchInv
  <1>2. \A t \in TD!Tasks : IF task[t] = TD!NoRow THEN task[t] = TD!NoRow
                          ELSE task[t] # TD!NoRow /\ task[t].job = task[t].job /\ task[t].auto = task[t].auto
    OBVIOUS
  <1>3. task' = TD!InsertedAt(task, w, j, TRUE, None)
    BY DEF TD!Inserted
  <1> QED
    BY <1>1, <1>2, <1>3, InsertedGoesOn

LEMMA CardSteps ==
    ASSUME TD!DispatchAssumption, DispatchInv, NEW r \in Calls
    PROVE  /\ \A j \in Jobs : TD!CardArrives(r, j) => DispatchGoesOn
           /\ TD!WriteCard(r) => DispatchGoesOn
  <1>1. ASSUME NEW j \in Jobs, TD!CardArrives(r, j)
        PROVE  DispatchGoesOn
    <2>1. PICK w \in TD!Choices(j) : TD!Goto(r, [at |-> "card", job |-> j, next |-> w])
      BY <1>1 DEF TD!CardArrives
    <2> DEFINE c == [at |-> "card", job |-> j, next |-> w]
    <2>2. w \in Workers \cup {None} /\ (w # None => TD!LiveRows(j) = {})
      BY ChoiceIsWorker
    <2>3. c \in TD!Call /\ call' = [call EXCEPT ![r] = c] /\ c.at = "card" /\ c.job = j /\ c.next = w
      BY <2>1, <2>2 DEF TD!Goto, TD!Call
    <2>4. task' = task /\ work' = work /\ Key[j] = "receiving" /\ work[j] = "later"
      BY <1>1 DEF TD!CardArrives
    <2>5. \A i \in Jobs : Puts(c, i) => i = j /\ w # None
      BY <2>3 DEF Puts
    <2> HIDE DEF c
    <2> QED
      BY <2>2, <2>3, <2>4, <2>5, RowsStay, WorkStays, OneCallMoves
  <1>2. ASSUME TD!WriteCard(r)
        PROVE  DispatchGoesOn
    <2>1. PICK j \in Jobs : j = call[r].job /\ Key[j] = "receiving"
      BY <1>2, TaskCallFields DEF TD!WriteCard, TD!At, DispatchInv, CallStands
    <2>2. PICK w \in Workers \cup {None} : w = call[r].next
      BY <1>2, TaskCallFields DEF TD!WriteCard, TD!At
    <2>3. w # None => TD!Inserts(r, j)
      BY <1>2, <2>1, <2>2 DEF TD!WriteCard, TD!At, TD!Inserts
    <2>4. /\ task' = TD!Inserted(task, w, j) /\ TD!Return(r)
          /\ work[j] = "later" /\ work' = [work EXCEPT ![j] = "open"]
      BY <1>2, <2>1, <2>2 DEF TD!WriteCard
    <2>5. RowsGoOn
      BY <2>3, <2>4, InsertedAlone
    <2>6. WorkGoesOn
      BY <2>1, <2>4, OneWorkElsewhere
    <2> QED
      BY <2>4, <2>5, <2>6, CallReturns
  <1> QED
    BY <1>1, <1>2

LEMMA DispatchSteps ==
    ASSUME TD!DispatchAssumption, DispatchInv, NEW r \in Calls
    PROVE  /\ TD!Dispatch(r) => DispatchGoesOn
           /\ TD!WriteDispatch(r) => DispatchGoesOn
  <1>2. ASSUME TD!Dispatch(r)
        PROVE  DispatchGoesOn
    <2>1. PICK j \in Jobs : j = call[r].job
      BY <1>2, TaskCallFields DEF TD!Dispatch, TD!At
    <2>2. PICK w \in TD!Choices(j) : IF w = None THEN TD!Return(r)
                                  ELSE TD!Goto(r, [at |-> "insert", job |-> j, next |-> w])
      BY <1>2, <2>1 DEF TD!Dispatch
    <2>3. task' = task /\ work' = work /\ TD!Dispatches(r, j)
      BY <1>2, <2>1 DEF TD!Dispatch, TD!Dispatches
    <2>4. CASE w = None
      BY <2>2, <2>3, <2>4, RowsStay, WorkStays, CallReturns
    <2>5. CASE w # None
      <3> DEFINE c == [at |-> "insert", job |-> j, next |-> w]
      <3>1. w \in Workers /\ TD!LiveRows(j) = {}
        BY <2>5, ChoiceIsWorker
      <3>2. c \in TD!Call /\ call' = [call EXCEPT ![r] = c] /\ c.at = "insert" /\ c.job = j
        BY <2>2, <2>5, <3>1 DEF TD!Goto, TD!Call
      <3>3. \A i \in Jobs : Puts(c, i) => i = j
        BY <3>2 DEF Puts
      <3> HIDE DEF c
      <3> QED
        BY <2>3, <3>1, <3>2, <3>3, RowsStay, WorkStays, OneCallMoves
    <2> QED
      BY <2>4, <2>5
  <1>3. ASSUME TD!WriteDispatch(r)
        PROVE  DispatchGoesOn
    <2>1. PICK j \in Jobs : j = call[r].job
      BY <1>3, TaskCallFields DEF TD!WriteDispatch, TD!At
    <2>2. PICK w \in Workers \cup {None} : w = call[r].next
      BY <1>3, TaskCallFields DEF TD!WriteDispatch, TD!At
    <2>3. w # None => TD!Inserts(r, j)
      BY <1>3, <2>1, <2>2 DEF TD!WriteDispatch, TD!At, TD!Inserts
    <2>4. task' = TD!Inserted(task, w, j) /\ TD!Return(r) /\ work' = work
      BY <1>3, <2>1, <2>2 DEF TD!WriteDispatch
    <2>5. RowsGoOn
      BY <2>3, <2>4, InsertedAlone
    <2> QED
      BY <2>4, <2>5, WorkStays, CallReturns
  <1> QED
    BY <1>2, <1>3

(* A bin is locked, perhaps once more, and dispatched; or opened again.    *)
LEMMA BinSteps ==
    ASSUME TD!DispatchAssumption, DispatchInv, NEW r \in Calls
    PROVE  /\ \A j \in Jobs : TD!FillBin(r, j) \/ TD!ReopenBin(r, j) => DispatchGoesOn
           /\ TD!WriteFill(r) => DispatchGoesOn
           /\ TD!WriteReopen(r) => DispatchGoesOn
  <1>1. ASSUME NEW j \in Jobs, TD!FillBin(r, j) \/ TD!ReopenBin(r, j)
        PROVE  DispatchGoesOn
    <2>1. PICK at \in {"fill", "reopen"} : TD!Goto(r, [at |-> at, job |-> j])
      BY <1>1 DEF TD!FillBin, TD!ReopenBin
    <2> DEFINE c == [at |-> at, job |-> j]
    <2>2. c \in TD!Call /\ call' = [call EXCEPT ![r] = c] /\ c.at = at /\ c.job = j
      BY <2>1 DEF TD!Goto, TD!Call
    <2>3. task' = task /\ work' = work /\ Key[j] = "packing"
      BY <1>1 DEF TD!FillBin, TD!ReopenBin
    <2>4. \A i \in Jobs : ~Puts(c, i)
      BY <2>2 DEF Puts
    <2> HIDE DEF c
    <2> QED
      BY <2>2, <2>3, <2>4, RowsStay, WorkStays, OneCallMoves
  <1>2. ASSUME TD!WriteFill(r)
        PROVE  DispatchGoesOn
    <2>1. PICK j \in Jobs : j = call[r].job /\ Key[j] = "packing"
      BY <1>2, TaskCallFields DEF TD!WriteFill, TD!At, DispatchInv, CallStands
    <2>2. task' = task
      BY <1>2 DEF TD!WriteFill
    <2>3. CASE TD!Return(r) /\ work' = work
      BY <2>2, <2>3, RowsStay, WorkStays, CallReturns
    <2>4. CASE work' = [work EXCEPT ![j] = "open"] /\ TD!Goto(r, [at |-> "dispatch", job |-> j])
      <3> DEFINE c == [at |-> "dispatch", job |-> j]
      <3>1. c \in TD!Call /\ call' = [call EXCEPT ![r] = c] /\ c.at = "dispatch" /\ c.job = j
        BY <2>4 DEF TD!Goto, TD!Call
      <3>2. \A i \in Jobs : ~Puts(c, i)
        BY <3>1 DEF Puts
      <3>3. WorkGoesOn
        BY <2>1, <2>4, OneWorkElsewhere
      <3>4. work'[j] # "done"
        BY <2>4 DEF DispatchInv
      <3> HIDE DEF c
      <3> QED
        BY <2>2, <3>1, <3>2, <3>3, <3>4, RowsStay, OneCallMoves
    <2> QED
      BY <1>2, <2>1, <2>3, <2>4 DEF TD!WriteFill
  <1>3. ASSUME TD!WriteReopen(r)
        PROVE  DispatchGoesOn
    <2>1. PICK j \in Jobs : j = call[r].job /\ Key[j] = "packing"
      BY <1>3, TaskCallFields DEF TD!WriteReopen, TD!At, DispatchInv, CallStands
    <2>2. task' = task /\ work' = [work EXCEPT ![j] = "later"] /\ TD!Return(r)
      BY <1>3, <2>1 DEF TD!WriteReopen
    <2> QED
      BY <2>1, <2>2, OneWorkElsewhere, RowsStay, CallReturns
  <1> QED
    BY <1>1, <1>2, <1>3

LEMMA FinishSteps ==
    ASSUME TD!DispatchAssumption, DispatchInv, NEW r \in Calls
    PROVE  /\ \A j \in Jobs, w \in Workers : TD!CompleteReceiving(r, w, j) => DispatchGoesOn
           /\ TD!FindTotes(r) => DispatchGoesOn
           /\ \A j \in Jobs, w \in Workers : TD!Begin(r, w, j) => DispatchGoesOn
           /\ TD!Pack(r) \/ TD!Finish(r) => DispatchGoesOn
  <1>1. ASSUME NEW j \in Jobs, NEW w \in Workers, task' = TD!Completed(TD!CompletedBy(j, w))
        PROVE  RowsGoOn
    <2>1. \A t \in TD!CompletedBy(j, w) \cap TD!Tasks : task[t] # TD!NoRow
      BY DEF TD!CompletedBy, TD!OwnOpen, TD!OpenRows, TD!Rows
    <2> QED
      BY <1>1, <2>1, CompletedInPlace, RowsInPlace
  <1>2. ASSUME NEW j \in Jobs, NEW w \in Workers, TD!CompleteReceiving(r, w, j)
        PROVE  DispatchGoesOn
    <2>1. /\ Key[j] = "receiving" /\ work[j] = "open" /\ work' = TD!Done(j)
          /\ task' = TD!Completed(TD!CompletedBy(j, w)) /\ TD!Goto(r, [at |-> "totes", job |-> j])
      BY <1>2 DEF TD!CompleteReceiving
    <2>3. WorkGoesOn
      BY <2>1, WorkIsDone
    <2> DEFINE c == [at |-> "totes", job |-> j]
    <2>4. c \in TD!Call /\ call' = [call EXCEPT ![r] = c] /\ c.at = "totes"
      BY <2>1 DEF TD!Goto, TD!Call
    <2>5. \A i \in Jobs : ~Puts(c, i)
      BY <2>4 DEF Puts
    <2> HIDE DEF c
    <2> QED
      BY <1>1, <2>1, <2>3, <2>4, <2>5, OneCallMoves
  <1>5. ASSUME TD!FindTotes(r)
        PROVE  DispatchGoesOn
    <2>1. task' = task /\ work' = work
      BY <1>5 DEF TD!FindTotes
    <2>2. CASE TD!Finds(Following[call[r].job])
      <3>1. call[r].job \in Jobs
        BY <1>5, TaskCallFields DEF TD!FindTotes, TD!At
      <3>2. PICK k \in Jobs : k = Following[call[r].job] /\ work[k] # "done"
        BY <2>2, <3>1 DEF TD!Finds, TD!DispatchAssumption
      <3> DEFINE c == [at |-> "dispatch", job |-> k]
      <3>3. c \in TD!Call /\ call' = [call EXCEPT ![r] = c] /\ c.at = "dispatch" /\ c.job = k
        BY <1>5, <2>2, <3>2 DEF TD!FindTotes, TD!Goto, TD!Call
      <3>4. \A i \in Jobs : ~Puts(c, i)
        BY <3>3 DEF Puts
      <3> HIDE DEF c
      <3> QED
        <4>1. RowsGoOn /\ WorkGoesOn
          BY <2>1, RowsStay, WorkStays
        <4>2. \A i \in Jobs :
                /\ Puts(c, i) => TD!Inserts(r, i) \/ TD!LiveRows(i) = {}
                /\ Puts(c, i) \/ (c.at = "dispatch" /\ c.job = i) =>
                      TD!Dispatches(r, i) \/ work[i] # "done" \/ work'[i] # "done"
          BY <3>2, <3>3, <3>4
        <4> QED
          BY <3>3, <4>1, <4>2, OneCallMoves
    <2>3. CASE ~TD!Finds(Following[call[r].job])
      <3>1. TD!Return(r)
        BY <1>5, <2>3 DEF TD!FindTotes
      <3> QED
        BY <2>1, <3>1, RowsStay, WorkStays, CallReturns
    <2> QED
      BY <2>2, <2>3
  <1>3. ASSUME NEW j \in Jobs, NEW w \in Workers, TD!Begin(r, w, j)
        PROVE  DispatchGoesOn
    <2> DEFINE c == [at |-> "finish", job |-> j, worker |-> w]
    <2>1. c \in TD!Call /\ call' = [call EXCEPT ![r] = c] /\ c.at = "finish" /\ c.job = j
      BY <1>3 DEF TD!Begin, TD!Goto, TD!Call
    <2>2. \A i \in Jobs : ~Puts(c, i)
      BY <2>1 DEF Puts
    <2>3. task' = task /\ work' = work /\ Key[j] \in {"packing", "shipping", "putaway"}
      BY <1>3 DEF TD!Begin
    <2> HIDE DEF c
    <2> QED
      BY <2>1, <2>2, <2>3, RowsStay, WorkStays, OneCallMoves
  <1>4. ASSUME TD!Pack(r)
        PROVE  DispatchGoesOn
    <2>1. PICK j \in Jobs : j = call[r].job /\ Key[j] = "packing"
      BY <1>4, TaskCallFields DEF TD!Pack
    <2>2. PICK w \in Workers : w = call[r].worker
      BY <1>4, TaskCallFields DEF TD!Pack
    <2>3. PICK n \in TD!Spare(j) : work' = TD!DoneAndOpened(j, n) /\ TD!DispatchNext(r, n)
      BY <1>4, <2>1 DEF TD!Pack
    <2>4. n \in Jobs /\ work[n] = "later" /\ Key[n] = "shipping" /\ n # j
      BY <2>1 DEF TD!Spare, TD!DispatchAssumption
    <2>5. RowsGoOn
      <3>1. task' = TD!Completed(TD!CompletedBy(j, w))
        BY <1>4, <2>1, <2>2 DEF TD!Pack
      <3> QED
        BY <1>1, <3>1
    <2>6. WorkGoesOn
      <3>1. work \in [Jobs -> {"later", "open", "done"}]
        BY DEF DispatchInv
      <3>2. work' = [i \in Jobs |-> IF i = n THEN "open" ELSE IF i = j THEN "done" ELSE work[i]]
        BY <2>3, <2>4, <3>1 DEF TD!DoneAndOpened
      <3>3. work' \in [Jobs -> {"later", "open", "done"}]
        BY <3>1, <3>2
      <3>4. \A i \in Jobs : Key[i] \in {"container", "sorting"} => work'[i] = work[i]
        BY <2>1, <2>4, <3>2
      <3> QED
        BY <3>3, <3>4, WorkElsewhere
    <2> DEFINE c == [at |-> "dispatch", job |-> n]
    <2>7. c \in TD!Call /\ call' = [call EXCEPT ![r] = c] /\ c.at = "dispatch" /\ c.job = n
      BY <2>3, <2>4 DEF TD!DispatchNext, TD!Goto, TD!Call
    <2>8. \A i \in Jobs : ~Puts(c, i)
      BY <2>7 DEF Puts
    <2> HIDE DEF c
    <2> QED
      BY <2>4, <2>5, <2>6, <2>7, <2>8, OneCallMoves
  <1>6. ASSUME TD!Finish(r)
        PROVE  DispatchGoesOn
    <2>1. PICK j \in Jobs : j = call[r].job /\ Key[j] \in {"shipping", "putaway"}
      BY <1>6, TaskCallFields DEF TD!Finish, TD!At, DispatchInv, CallStands
    <2>2. PICK w \in Workers : w = call[r].worker
      BY <1>6, TaskCallFields DEF TD!Finish
    <2> DEFINE over == {i \in Jobs : i = j \/ j \in Parcels[i]}
    <2>3. /\ work' = [i \in Jobs |-> IF i \in over THEN "done" ELSE work[i]]
          /\ task' = TD!Completed(TD!CompletedBy(j, w)) /\ TD!Return(r)
      BY <1>6, <2>1, <2>2 DEF TD!Finish
    <2>4. \A i \in over : Key[i] \in {"packing", "shipping", "putaway"}
      BY <2>1 DEF TD!DispatchAssumption
    <2> HIDE DEF over
    <2>5. WorkGoesOn
      <3>1. work \in [Jobs -> {"later", "open", "done"}]
        BY DEF DispatchInv
      <3>2. work' \in [Jobs -> {"later", "open", "done"}]
        BY <2>3, <3>1
      <3>3. \A i \in Jobs : Key[i] \in {"container", "sorting"} => work'[i] = work[i]
        BY <2>3, <2>4
      <3> QED
        BY <3>2, <3>3, WorkElsewhere
    <2> QED
      BY <1>1, <2>3, <2>5, CallReturns
  <1> QED
    BY <1>2, <1>3, <1>4, <1>5, <1>6

LEMMA StageSteps ==
    ASSUME TD!DispatchAssumption, DispatchInv, NEW r \in Calls
    PROVE  /\ \A j \in Jobs : TD!Stage(r, j) => DispatchGoesOn
           /\ TD!WriteStage(r) => DispatchGoesOn
  <1>1. ASSUME NEW j \in Jobs, TD!Stage(r, j)
        PROVE  DispatchGoesOn
    <2>1. PICK w \in TD!Choices(Following[j]) : TD!Goto(r, [at |-> "stage", job |-> j, next |-> w])
      BY <1>1 DEF TD!Stage
    <2> DEFINE c == [at |-> "stage", job |-> j, next |-> w]
    <2>2. w \in Workers \cup {None} /\ (w # None => TD!LiveRows(Following[j]) = {})
      BY ChoiceIsWorker
    <2>3. c \in TD!Call /\ call' = [call EXCEPT ![r] = c] /\ c.at = "stage" /\ c.job = j /\ c.next = w
      BY <2>1, <2>2 DEF TD!Goto, TD!Call
    <2>4. task' = task /\ work' = work /\ Key[j] = "container" /\ work[j] = "open"
      BY <1>1 DEF TD!Stage, TD!Stageable
    <2>5. \A i \in Jobs : Puts(c, i) => i = Following[j] /\ w # None
      BY <2>3 DEF Puts
    <2>6. \A i \in Jobs : i = Following[j] => work[i] # "done"
      BY <2>4 DEF DispatchInv, NextWaits, TD!Opens, TD!DispatchAssumption
    <2> HIDE DEF c
    <2> QED
      BY <2>2, <2>3, <2>4, <2>5, <2>6, RowsStay, WorkStays, OneCallMoves
  <1>2. ASSUME TD!WriteStage(r)
        PROVE  DispatchGoesOn
    <2>1. PICK j \in Jobs : j = call[r].job /\ Key[j] = "container" /\ work[j] # "later"
      BY <1>2, TaskCallFields DEF TD!WriteStage, TD!At, DispatchInv, CallStands
    <2>2. PICK w \in Workers \cup {None} : w = call[r].next
      BY <1>2, TaskCallFields DEF TD!WriteStage, TD!At
    <2>3. PICK k \in Jobs \cup {None} : k = Following[j]
      BY DEF TD!DispatchAssumption
    <2>4. w # None => TD!Inserts(r, k)
      BY <1>2, <2>1, <2>2, <2>3 DEF TD!WriteStage, TD!At, TD!Inserts
    <2>5. /\ task' = TD!InsertedAt(TD!Completed(TD!OpenRows(j)), w, k, TRUE, None)
          /\ work' = TD!Done(j) /\ TD!Return(r)
      BY <1>2, <2>1, <2>2, <2>3 DEF TD!WriteStage, TD!Inserted
    <2>6. \A t \in TD!OpenRows(j) \cap TD!Tasks : task[t] # TD!NoRow
      BY DEF TD!OpenRows, TD!Rows
    <2>7. RowsGoOn
      BY <2>4, <2>5, <2>6, CompletedInPlace, InsertedGoesOn
    <2> QED
      BY <2>1, <2>5, <2>7, WorkIsDone, CallReturns
  <1> QED
    BY <1>1, <1>2

LEMMA FloorSteps ==
    ASSUME TD!DispatchAssumption, DispatchInv
    PROVE  \A j \in Jobs : TD!CartonReceived(j) \/ TD!CloseContainer(j) \/ TD!Sort(j) => DispatchGoesOn
  <1>1. ASSUME NEW j \in Jobs, TD!CartonReceived(j) \/ TD!CloseContainer(j)
        PROVE  DispatchGoesOn
    <2>1. /\ Key[j] \in {"container", "putaway"} /\ work[j] = "later" /\ work' = [work EXCEPT ![j] = "open"]
          /\ task' = task /\ call' = call
      BY <1>1 DEF TD!CartonReceived, TD!CloseContainer
    <2>2. WorkGoesOn
      BY <2>1, ToteCloses, OneWorkElsewhere
    <2> QED
      BY <2>1, <2>2, RowsStay, NoCallMoves
  <1>2. ASSUME NEW j \in Jobs, TD!Sort(j)
        PROVE  DispatchGoesOn
    <2>1. /\ Key[j] = "sorting" /\ work[j] = "open" /\ work' = TD!Done(j)
          /\ task' = task /\ call' = call
      BY <1>2 DEF TD!Sort
    <2> QED
      BY <2>1, WorkIsDone, RowsStay, NoCallMoves
  <1> QED
    BY <1>1, <1>2

LEMMA StaffSteps ==
    ASSUME DispatchInv
    PROVE  /\ \A r \in Calls, s \in Stations, w \in Workers : TD!AssignStation(r, s, w) => DispatchGoesOn
           /\ \A r \in Calls : TD!WriteAssignStation(r) \/ TD!Abort(r) => DispatchGoesOn
           /\ \A s \in Stations : TD!ChangeStation(s) => DispatchGoesOn
           /\ \A w \in Workers, status \in {"ACTIVE", "DISABLED"} : TD!SetUserStatus(w, status) => DispatchGoesOn
  <1>1. ASSUME NEW r \in Calls, NEW s \in Stations, NEW w \in Workers, TD!AssignStation(r, s, w)
        PROVE  DispatchGoesOn
    <2> DEFINE c == [at |-> "assign", station |-> s, worker |-> w]
    <2>1. c \in TD!Call /\ c.at = "assign" /\ call' = [call EXCEPT ![r] = c] /\ task' = task /\ work' = work
      BY <1>1 DEF TD!AssignStation, TD!Goto, TD!Call
    <2>2. \A i \in Jobs : ~Puts(c, i)
      BY <2>1 DEF Puts
    <2> HIDE DEF c
    <2> QED
      BY <2>1, <2>2, RowsStay, WorkStays, OneCallMoves
  <1>2. ASSUME NEW r \in Calls, TD!WriteAssignStation(r) \/ TD!Abort(r)
        PROVE  DispatchGoesOn
    <2>1. TD!Return(r) /\ task' = task /\ work' = work
      BY <1>2 DEF TD!WriteAssignStation, TD!Abort
    <2> QED
      BY <2>1, RowsStay, WorkStays, CallReturns
  <1>3. ASSUME call' = call, task' = task, work' = work
        PROVE  DispatchGoesOn
    BY <1>3, RowsStay, WorkStays, NoCallMoves
  <1>4. \A s \in Stations : TD!ChangeStation(s) => call' = call /\ task' = task /\ work' = work
    BY DEF TD!ChangeStation
  <1>5. \A w \in Workers, status \in {"ACTIVE", "DISABLED"} :
           TD!SetUserStatus(w, status) => call' = call /\ task' = task /\ work' = work
    BY DEF TD!SetUserStatus
  <1> QED
    BY <1>1, <1>2, <1>3, <1>4, <1>5

LEMMA DispatchStep ==
    ASSUME TD!DispatchAssumption, DispatchInv, [TD!Next]_TD!vars
    PROVE  DispatchGoesOn
  <1>1. ASSUME NEW r \in Calls, TD!Continue(r) \/ TD!Abort(r)
        PROVE  DispatchGoesOn
    BY <1>1, CreateSteps, StatusSteps, CardSteps, DispatchSteps, BinSteps, FinishSteps, StageSteps, StaffSteps
       DEF TD!Continue
  <1>2. ASSUME NEW r \in Calls, NEW j \in Jobs,
               TD!CardArrives(r, j) \/ TD!FillBin(r, j) \/ TD!ReopenBin(r, j) \/ TD!Stage(r, j)
        PROVE  DispatchGoesOn
    BY <1>2, CardSteps, BinSteps, StageSteps
  <1>3. ASSUME NEW r \in Calls, NEW j \in Jobs, NEW w \in Workers,
               \/ TD!CompleteReceiving(r, w, j) \/ TD!Begin(r, w, j)
               \/ \E s \in Stations \cup {None} : TD!Create(r, w, j, s)
        PROVE  DispatchGoesOn
    BY <1>3, CreateSteps, FinishSteps
  <1>4. ASSUME NEW r \in Calls, NEW t \in TD!Tasks, TD!Cancel(r, t) \/ TD!SetBlocked(r, t)
        PROVE  DispatchGoesOn
    BY <1>4, StatusSteps
  <1>5. ASSUME NEW r \in Calls, NEW s \in Stations, NEW w \in Workers, TD!AssignStation(r, s, w)
        PROVE  DispatchGoesOn
    BY <1>5, StaffSteps
  <1>6. ASSUME NEW j \in Jobs,
               \/ TD!CartonReceived(j) \/ TD!CloseContainer(j) \/ TD!Sort(j)
               \/ \E w \in Workers : TD!StartReceiving(w, j)
        PROVE  DispatchGoesOn
    BY <1>6, FloorSteps, WorkerSteps
  <1>7. ASSUME NEW t \in TD!Tasks, TD!CompleteAssignment(t)
        PROVE  DispatchGoesOn
    BY <1>7, WorkerSteps
  <1>8. ASSUME NEW s \in Stations, TD!ChangeStation(s)
        PROVE  DispatchGoesOn
    BY <1>8, StaffSteps
  <1>9. ASSUME NEW w \in Workers, NEW status \in {"ACTIVE", "DISABLED"}, TD!SetUserStatus(w, status)
        PROVE  DispatchGoesOn
    BY <1>9, StaffSteps
  <1>10. CASE UNCHANGED TD!vars
    BY <1>10, RowsStay, WorkStays, NoCallMoves DEF TD!vars
  <1> QED
    BY <1>1, <1>2, <1>3, <1>4, <1>5, <1>6, <1>7, <1>8, <1>9, <1>10 DEF TD!Next

(* The rows of a job that dispatch made, and those it is about to make.    *)
LEMMA RowsOfJob ==
    ASSUME DispatchInv, DispatchGoesOn, NEW j \in Jobs, ~\E r \in Calls : TD!Inserts(r, j)
    PROVE  TD!AutoRows(j)' = TD!AutoRows(j)
  <1> DEFINE Mine(t) == t \in TD!Tasks /\ task[t] # TD!NoRow /\ task[t].job = j /\ task[t].auto
  <1>1. TD!AutoRows(j) = {t \in TD!Tasks : Mine(t)}
    BY DEF TD!AutoRows, TD!Rows
  <1>2. TD!AutoRows(j)' = {t \in TD!Tasks : Mine(t)'}
    BY DEF TD!AutoRows, TD!Rows
  <1>3. ASSUME NEW t \in TD!Tasks
        PROVE  Mine(t)' <=> Mine(t)
    <2>1. CASE task[t] # TD!NoRow
      BY <2>1 DEF DispatchGoesOn, RowsGoOn
    <2>2. CASE task[t] = TD!NoRow /\ task'[t] # TD!NoRow
      BY <2>2 DEF DispatchGoesOn, RowsGoOn
    <2>3. CASE task[t] = TD!NoRow /\ task'[t] = TD!NoRow
      BY <2>3
    <2> QED
      BY <2>1, <2>2, <2>3
  <1> HIDE DEF Mine
  <1> QED
    BY <1>1, <1>2, <1>3

(* Nobody but an administrator makes a task that is not needed: while a    *)
(* job has a live task, or stays done, dispatch makes none of it, except   *)
(* in a call that was under way before; a bin that is locked again from a  *)
(* stale copy is done no more, and is dispatched again.                    *)
THEOREM TasksAreNeeded == FloorSpec => NoNeedlessTask
  <1> TD!DispatchAssumption
    BY FloorAssumption
  <1>1. TD!Init => DispatchInv
    <2> SUFFICES ASSUME TD!Init
                 PROVE  DispatchInv
      OBVIOUS
    <2>1. /\ task \in [TD!Tasks -> TaskRow \cup {TD!NoRow}] /\ work \in [Jobs -> {"later", "open", "done"}]
          /\ call \in [Calls -> TD!Call] /\ \A r \in Calls : call[r].at = "idle"
      BY DEF TD!Init, TD!Call, TD!Idle
    <2>2. NextWaits
      BY FollowsIn DEF TD!Init, NextWaits
    <2> QED
      BY <2>1, <2>2 DEF DispatchInv, CallStands, TD!At
  <1>2. DispatchInv /\ [TD!Next]_TD!vars => DispatchInv'
    BY DispatchStep DEF DispatchGoesOn
  <1>3. ASSUME DispatchInv, [TD!Next]_TD!vars
        PROVE  \A j \in Jobs :
                  /\ (TD!LiveRows(j) # {} /\ ~\E r \in Calls : TD!Inserts(r, j)) =>
                        /\ TD!AutoRows(j)' = TD!AutoRows(j)
                        /\ ~\E r \in Calls : TD!Inserts(r, j)'
                  /\ (work[j] = "done" /\ work'[j] = "done" /\ ~\E r \in Calls : TD!Dispatches(r, j)) =>
                        /\ TD!AutoRows(j)' = TD!AutoRows(j)
                        /\ ~\E r \in Calls : TD!Dispatches(r, j)'
    <2> SUFFICES ASSUME NEW j \in Jobs
                 PROVE  /\ (TD!LiveRows(j) # {} /\ ~\E r \in Calls : TD!Inserts(r, j)) =>
                              /\ TD!AutoRows(j)' = TD!AutoRows(j)
                              /\ ~\E r \in Calls : TD!Inserts(r, j)'
                        /\ (work[j] = "done" /\ work'[j] = "done" /\ ~\E r \in Calls : TD!Dispatches(r, j)) =>
                              /\ TD!AutoRows(j)' = TD!AutoRows(j)
                              /\ ~\E r \in Calls : TD!Dispatches(r, j)'
      OBVIOUS
    <2>1. DispatchGoesOn
      BY <1>3, DispatchStep
    <2>2. (~\E r \in Calls : TD!Dispatches(r, j)) => ~\E r \in Calls : TD!Inserts(r, j)
      BY DEF TD!Dispatches
    <2>3. (~\E r \in Calls : TD!Inserts(r, j)) => TD!AutoRows(j)' = TD!AutoRows(j)
      BY <1>3, <2>1, RowsOfJob
    <2>4. TD!LiveRows(j) # {} => \A r \in Calls : TD!Inserts(r, j)' => TD!Inserts(r, j)
      BY <2>1 DEF DispatchGoesOn, CallGoesOn
    <2>5. work[j] = "done" /\ work'[j] = "done" => \A r \in Calls : TD!Dispatches(r, j)' => TD!Dispatches(r, j)
      BY <2>1 DEF DispatchGoesOn, CallGoesOn
    <2> QED
      BY <2>2, <2>3, <2>4, <2>5
  <1> QED
    BY <1>1, <1>2, <1>3, TaskScene, PTL DEF TD!Spec, NoNeedlessTask, TD!NoNeedlessTask

-----------------------------------------------------------------------------
(* The screens at the stations.                                            *)
(* A row has its four fields, an administration call those of its kind.    *)
RowOK(w) ==
    \/ w = Scr!NoRow
    \/ /\ {"station", "link", "enabled", "config"} \subseteq DOMAIN w
       /\ "view" \in DOMAIN w.config

CallOK(c) ==
    \/ c = Scr!Idle
    \/ /\ {"at", "late"} \subseteq DOMAIN c
       /\ \/ c.at = "update" /\ {"display", "input", "view"} \subseteq DOMAIN c
             /\ c.display \in Scr!Screens /\ c.input \in Scr!Inputs
          \/ c.at = "create" /\ {"kind", "todo"} \subseteq DOMAIN c
             /\ \A t \in c.todo : "view" \in DOMAIN t[2]
          \/ c.at = "apply" /\ {"rows", "config"} \subseteq DOMAIN c
             /\ "view" \in DOMAIN c.config
          \/ c.at = "enable" /\ {"rows", "on"} \subseteq DOMAIN c
          \/ c.at = "interactive" /\ {"rest", "on"} \subseteq DOMAIN c
             /\ \A d \in DOMAIN c.rest : d \in Scr!Screens /\ "view" \in DOMAIN c.rest[d]

(* What a call has read of the roles is as it was, but for the rows that   *)
(* somebody else wrote.                                                    *)
ReadStands(c) ==
    /\ c.at = "update" /\ Scr!Exists(c.display) /\ c.display \notin c.late =>
          display[c.display].config.view = c.view
    /\ c.at = "interactive" =>
          \A d \in DOMAIN c.rest \ c.late : Scr!Exists(d) => display[d].config.view = c.rest[d].view
    /\ c.at = "create" /\ c.kind = "set" =>
          /\ \A t \in c.todo : \A d \in Scr!At(t[1]) \ c.late : display[d].config.view # t[2].view
          /\ \A t, u \in c.todo : t[1] = u[1] /\ t[2].view = u[2].view => t = u

ScreenInv ==
    /\ DOMAIN display = Scr!Screens /\ \A d \in Scr!Screens : RowOK(display[d])
    /\ created \in Nat /\ \A d \in Scr!Screens : Scr!Exists(d) => d <= created
    /\ DOMAIN admin = Admins /\ \A a \in Admins : CallOK(admin[a])
    /\ \A a \in Admins : ReadStands(admin[a])

LEMMA NormalizedView ==
    ASSUME NEW raw
    PROVE  /\ "view" \in DOMAIN Scr!Normalize(raw)
           /\ Scr!Normalize(raw).view = IF "view" \in DOMAIN raw THEN raw.view ELSE "BOARD"
  BY DEF Scr!Normalize, Scr!DefaultConfig

LEMMA RoleIsKept ==
    ASSUME NEW raw, NEW v
    PROVE  Scr!Normalize(Scr!WithRole(raw, v)).view = IF "view" \in DOMAIN raw THEN raw.view ELSE v
  <1>1. CASE "view" \in DOMAIN raw
    BY <1>1, NormalizedView DEF Scr!WithRole
  <1>2. CASE "view" \notin DOMAIN raw
    <2>1. "view" \in DOMAIN Scr!WithRole(raw, v) /\ Scr!WithRole(raw, v).view = v
      BY <1>2 DEF Scr!WithRole
    <2> QED
      BY <1>2, <2>1, NormalizedView
  <1> QED
    BY <1>1, <1>2

(* Others learn that a row was written.                                    *)
LEMMA LateOK ==
    ASSUME ScreenInv, NEW W, NEW b \in Admins
    PROVE  LET c == Scr!Late(W)[b]
           IN  /\ c.at = admin[b].at /\ CallOK(c)
               /\ c.at = "update" => c.display = admin[b].display /\ c.view = admin[b].view
               /\ c.at = "create" => c.kind = admin[b].kind /\ c.todo = admin[b].todo
               /\ c.at = "interactive" => c.rest = admin[b].rest
               /\ c.at # "idle" => c.late = admin[b].late \cup W
  <1>1. CASE admin[b] = Scr!Idle
    BY <1>1 DEF Scr!Late, CallOK, Scr!Idle
  <1>2. CASE admin[b] # Scr!Idle
    <2> DEFINE c == [admin[b] EXCEPT !.late = @ \cup W]
    <2>1. Scr!Late(W)[b] = c
      BY <1>2 DEF Scr!Late
    <2>2. CallOK(admin[b])
      BY DEF ScreenInv
    <2>3. /\ {"at", "late"} \subseteq DOMAIN admin[b] /\ DOMAIN c = DOMAIN admin[b]
          /\ c.late = admin[b].late \cup W
          /\ \A f \in DOMAIN admin[b] : f # "late" => c[f] = admin[b][f]
      BY <1>2, <2>2 DEF CallOK
    <2>4. /\ c.at = admin[b].at
          /\ "display" \in DOMAIN admin[b] => c.display = admin[b].display
          /\ "input" \in DOMAIN admin[b] => c.input = admin[b].input
          /\ "view" \in DOMAIN admin[b] => c.view = admin[b].view
          /\ "kind" \in DOMAIN admin[b] => c.kind = admin[b].kind
          /\ "todo" \in DOMAIN admin[b] => c.todo = admin[b].todo
          /\ "config" \in DOMAIN admin[b] => c.config = admin[b].config
          /\ "rest" \in DOMAIN admin[b] => c.rest = admin[b].rest
      BY <2>3
    <2> HIDE DEF c
    <2> QED
      BY <1>2, <2>1, <2>2, <2>3, <2>4 DEF CallOK, Scr!Idle
  <1> QED
    BY <1>1, <1>2

LEMMA OthersRead ==
    ASSUME ScreenInv, NEW W, NEW b \in Admins, \A d \in Scr!Screens \ W : display'[d] = display[d],
           admin'[b] = Scr!Late(W)[b]
    PROVE  CallOK(admin'[b]) /\ ReadStands(admin[b])'
  <1>1. /\ admin'[b].at = admin[b].at /\ CallOK(admin'[b])
        /\ admin[b].at = "update" => admin'[b].display = admin[b].display /\ admin'[b].view = admin[b].view
        /\ admin[b].at = "create" => admin'[b].kind = admin[b].kind /\ admin'[b].todo = admin[b].todo
        /\ admin[b].at = "interactive" => admin'[b].rest = admin[b].rest
        /\ admin[b].at # "idle" => admin'[b].late = admin[b].late \cup W
    BY LateOK
  <1>2. ReadStands(admin[b]) /\ CallOK(admin[b])
    BY DEF ScreenInv
  <1>3. ASSUME NEW d \in Scr!Screens \ W
        PROVE  (Scr!Exists(d)' <=> Scr!Exists(d)) /\ display'[d] = display[d]
    BY DEF Scr!Exists
  <1>4. CASE admin[b].at = "update"
    BY <1>1, <1>2, <1>3, <1>4 DEF ReadStands, CallOK, Scr!Idle
  <1>5. CASE admin[b].at = "interactive"
    BY <1>1, <1>2, <1>3, <1>5 DEF ReadStands, CallOK, Scr!Idle
  <1>6. CASE admin[b].at = "create"
    <2>1. ASSUME NEW t, NEW d \in Scr!At(t[1])' \ W
          PROVE  d \in Scr!At(t[1]) /\ display'[d] = display[d]
      BY <1>3, <2>1 DEF Scr!At
    <2>2. ASSUME NEW t \in admin[b].todo, NEW d \in Scr!At(t[1])' \ admin'[b].late, admin[b].kind = "set"
          PROVE  display'[d].config.view # t[2].view
      BY <1>1, <1>2, <1>6, <2>1, <2>2 DEF ReadStands
    <2> QED
      BY <1>1, <1>2, <1>6, <2>2 DEF ReadStands
  <1>7. CASE admin[b].at \notin {"update", "interactive", "create"}
    BY <1>1, <1>7 DEF ReadStands
  <1> QED
    BY <1>4, <1>5, <1>6, <1>7

(* The two sides of RolesAsAsked.                                          *)
RoleIsAsked(d) ==
    Scr!Exists(d) /\ Scr!Exists(d)' /\ display[d].config.view # display'[d].config.view =>
       \E a \in Admins :
          \/ admin[a].at = "update" /\ admin[a].display = d /\ "config" \in DOMAIN admin[a].input
             /\ ("view" \in DOMAIN admin[a].input.config \/ d \in admin[a].late)
          \/ admin[a].at = "apply" /\ d \in admin[a].rows
          \/ admin[a].at = "interactive" /\ d \in admin[a].late
RoleIsNew(a) ==
    (created' # created /\ Scr!MakesScreenOf(a)) =>
       \A d \in Scr!At(display'[created'].station) :
          display[d].config.view = display'[created'].config.view => d \in admin[a].late
ScreensGoOn == ScreenInv' /\ (\A d \in Scr!Screens : RoleIsAsked(d)) /\ (\A a \in Admins : RoleIsNew(a))

(* Nothing is written.                                                     *)
LEMMA NothingWritten ==
    ASSUME ScreenInv, UNCHANGED <<display, created>>,
           DOMAIN admin' = Admins,
           \A a \in Admins : CallOK(admin'[a]) /\ ReadStands(admin[a])'
    PROVE  ScreensGoOn
  <1>1. ScreenInv'
    BY DEF ScreenInv, Scr!Exists
  <1>2. \A d \in Scr!Screens : RoleIsAsked(d)
    BY DEF RoleIsAsked
  <1>3. \A a \in Admins : RoleIsNew(a)
    BY DEF RoleIsNew
  <1> QED
    BY <1>1, <1>2, <1>3 DEF ScreensGoOn

LEMMA NothingHappens ==
    ASSUME ScreenInv, UNCHANGED <<display, created, admin>>
    PROVE  ScreensGoOn
  <1>1. \A a \in Admins : CallOK(admin'[a]) /\ ReadStands(admin[a])'
    BY DEF ScreenInv, ReadStands, Scr!Exists, Scr!At
  <1> QED
    BY <1>1, NothingWritten DEF ScreenInv

LEMMA CallStarts ==
    ASSUME ScreenInv, NEW a \in Admins, NEW next, Scr!Start(a, next), CallOK(next), ReadStands(next)
    PROVE  ScreensGoOn
  <1>1. admin' = [admin EXCEPT ![a] = next] /\ display' = display /\ created' = created
    BY DEF Scr!Start, Scr!rows
  <1>2. DOMAIN admin' = Admins
    BY <1>1 DEF ScreenInv
  <1>3. ASSUME NEW b \in Admins
        PROVE  CallOK(admin'[b]) /\ ReadStands(admin[b])'
    <2>1. CASE b = a
      <3>1. admin'[b] = next
        BY <1>1, <2>1 DEF ScreenInv
      <3> QED
        BY <1>1, <3>1 DEF ReadStands, Scr!Exists, Scr!At
    <2>2. CASE b # a
      <3>1. admin'[b] = admin[b]
        BY <1>1, <2>2 DEF ScreenInv
      <3> QED
        BY <1>1, <3>1 DEF ScreenInv, ReadStands, Scr!Exists, Scr!At
    <2> QED
      BY <2>1, <2>2
  <1> QED
    BY <1>1, <1>2, <1>3, NothingWritten

LEMMA StartSteps ==
    ASSUME ScreenInv, NEW a \in Admins
    PROVE  /\ \A d \in Scr!Screens, i \in Scr!Inputs : Scr!Update(a, d, i) => ScreensGoOn
           /\ \A s \in Stations, raw \in Profiles : Scr!Create(a, s, raw) => ScreensGoOn
           /\ \A s \in Stations, v \in Sets : Scr!CreateScreenSet(a, s, v) => ScreensGoOn
           /\ \A ss \in SUBSET Stations :
                 \A config \in {Scr!DefaultConfig} \cup {Scr!Normalize(raw) : raw \in Profiles} :
                    Scr!CreateMissing(a, ss, config) => ScreensGoOn
           /\ \A ss \in SUBSET Stations, raw \in Profiles : Scr!ApplyConfig(a, ss, raw) => ScreensGoOn
           /\ \A ss \in SUBSET Stations, on \in BOOLEAN :
                 Scr!SetEnabled(a, ss, on) \/ Scr!SetInteractive(a, ss, on) => ScreensGoOn
  <1>1. ASSUME NEW d \in Scr!Screens, NEW i \in Scr!Inputs, Scr!Update(a, d, i)
        PROVE  ScreensGoOn
    <2> DEFINE c == [at |-> "update", display |-> d, input |-> i, view |-> display[d].config.view,
                     late |-> {}]
    <2>1. CallOK(c) /\ ReadStands(c)
      BY DEF CallOK, ReadStands
    <2>2. Scr!Start(a, c)
      BY <1>1 DEF Scr!Update
    <2> HIDE DEF c
    <2> QED
      BY <2>1, <2>2, CallStarts
  <1>2. ASSUME NEW s \in Stations, NEW raw \in Profiles, Scr!Create(a, s, raw)
        PROVE  ScreensGoOn
    <2> DEFINE c == Scr!Making("one", {<<s, Scr!Normalize(raw)>>})
    <2>1. CallOK(c) /\ ReadStands(c)
      BY NormalizedView DEF Scr!Making, CallOK, ReadStands
    <2>2. Scr!Start(a, c)
      BY <1>2 DEF Scr!Create
    <2> HIDE DEF c
    <2> QED
      BY <2>1, <2>2, CallStarts
  <1>3. ASSUME NEW s \in Stations, NEW v \in Sets, Scr!CreateScreenSet(a, s, v)
        PROVE  ScreensGoOn
    <2> DEFINE have == {display[d].config.view : d \in Scr!At(s)}
               todo == {<<s, Scr!Normalize([view |-> w])>> : w \in (Scr!Standard \cap v) \ have}
               c == Scr!Making("set", todo)
    <2>1. \A w : Scr!Normalize([view |-> w]).view = w /\ "view" \in DOMAIN Scr!Normalize([view |-> w])
      BY NormalizedView
    <2>2. ASSUME NEW t \in todo
          PROVE  /\ t[1] = s /\ t[2].view \notin have /\ "view" \in DOMAIN t[2]
                 /\ t = <<s, Scr!Normalize([view |-> t[2].view])>>
      <3>1. PICK w \in (Scr!Standard \cap v) \ have : t = <<s, Scr!Normalize([view |-> w])>>
        BY <2>2
      <3>2. t[1] = s /\ t[2] = Scr!Normalize([view |-> w]) /\ w \notin have
        BY <3>1
      <3> HIDE DEF have
      <3> QED
        BY <2>1, <3>1, <3>2
    <2>3. c.at = "create" /\ c.kind = "set" /\ c.todo = todo /\ c.late = {}
          /\ {"at", "late", "kind", "todo"} \subseteq DOMAIN c
      BY DEF Scr!Making
    <2>4. Scr!Start(a, c)
      BY <1>3 DEF Scr!CreateScreenSet
    <2>5. \A d \in Scr!At(s) : display[d].config.view \in have
      OBVIOUS
    <2> HIDE DEF c, todo, have
    <2>6. CallOK(c)
      BY <2>2, <2>3 DEF CallOK
    <2>7. ReadStands(c)
      BY <2>2, <2>3, <2>5 DEF ReadStands
    <2> QED
      BY <2>4, <2>6, <2>7, CallStarts
  <1>4. ASSUME NEW ss \in SUBSET Stations, NEW config \in {Scr!DefaultConfig} \cup {Scr!Normalize(raw) : raw \in Profiles},
               Scr!CreateMissing(a, ss, config)
        PROVE  ScreensGoOn
    <2> DEFINE todo == {<<s, config>> : s \in {s \in ss : Scr!At(s) = {}}}
               c == Scr!Making("missing", todo)
    <2>0. "view" \in DOMAIN config
      BY NormalizedView DEF Scr!DefaultConfig
    <2>1. CallOK(c) /\ ReadStands(c)
      BY <2>0 DEF Scr!Making, CallOK, ReadStands
    <2>2. Scr!Start(a, c)
      BY <1>4 DEF Scr!CreateMissing
    <2> HIDE DEF c
    <2> QED
      BY <2>1, <2>2, CallStarts
  <1>5. ASSUME NEW ss \in SUBSET Stations, NEW raw \in Profiles, Scr!ApplyConfig(a, ss, raw)
        PROVE  ScreensGoOn
    <2> DEFINE c == [at |-> "apply", rows |-> UNION {Scr!At(s) : s \in ss}, config |-> Scr!Normalize(raw),
                     late |-> {}]
    <2>1. CallOK(c) /\ ReadStands(c)
      BY NormalizedView DEF CallOK, ReadStands
    <2>2. Scr!Start(a, c)
      BY <1>5 DEF Scr!ApplyConfig
    <2> HIDE DEF c
    <2> QED
      BY <2>1, <2>2, CallStarts
  <1>6. ASSUME NEW ss \in SUBSET Stations, NEW on \in BOOLEAN, Scr!SetEnabled(a, ss, on)
        PROVE  ScreensGoOn
    <2> DEFINE c == [at |-> "enable", rows |-> UNION {Scr!At(s) : s \in ss}, on |-> on, late |-> {}]
    <2>1. CallOK(c) /\ ReadStands(c)
      BY DEF CallOK, ReadStands
    <2>2. Scr!Start(a, c)
      BY <1>6 DEF Scr!SetEnabled
    <2> HIDE DEF c
    <2> QED
      BY <2>1, <2>2, CallStarts
  <1>7. ASSUME NEW ss \in SUBSET Stations, NEW on \in BOOLEAN, Scr!SetInteractive(a, ss, on)
        PROVE  ScreensGoOn
    <2> DEFINE hit == UNION {Scr!At(s) : s \in ss}
               rest == [d \in hit |-> display[d].config]
               c == [at |-> "interactive", on |-> on, late |-> {}, rest |-> rest]
    <2>1. \A d \in hit : d \in Scr!Screens /\ Scr!Exists(d) /\ "view" \in DOMAIN display[d].config
      BY DEF Scr!At, ScreenInv, RowOK, Scr!Exists
    <2>2. DOMAIN rest = hit /\ \A d \in hit : rest[d] = display[d].config
      OBVIOUS
    <2>3. c.at = "interactive" /\ c.rest = rest /\ c.late = {}
          /\ {"at", "late", "rest", "on"} \subseteq DOMAIN c
      OBVIOUS
    <2>4. Scr!Start(a, c)
      BY <1>7 DEF Scr!SetInteractive
    <2> HIDE DEF c, rest, hit
    <2>5. CallOK(c) /\ ReadStands(c)
      BY <2>1, <2>2, <2>3 DEF CallOK, ReadStands
    <2> QED
      BY <2>4, <2>5, CallStarts
  <1> QED
    BY <1>1, <1>2, <1>3, <1>4, <1>5, <1>6, <1>7

LEMMA RowsWritten ==
    ASSUME ScreenInv, NEW W \in SUBSET Scr!Screens, created' = created,
           DOMAIN display' = Scr!Screens, \A d \in Scr!Screens \ W : display'[d] = display[d],
           \A d \in W : RowOK(display'[d]) /\ (Scr!Exists(d)' => Scr!Exists(d)) /\ RoleIsAsked(d),
           DOMAIN admin' = Admins,
           \A a \in Admins : CallOK(admin'[a]) /\ ReadStands(admin[a])'
    PROVE  ScreensGoOn
  <1>1. ScreenInv'
    BY DEF ScreenInv, Scr!Exists
  <1>2. ASSUME NEW d \in Scr!Screens
        PROVE  RoleIsAsked(d)
    BY <1>2 DEF RoleIsAsked
  <1>3. \A a \in Admins : RoleIsNew(a)
    BY DEF RoleIsNew
  <1> QED
    BY <1>1, <1>2, <1>3 DEF ScreensGoOn

(* A call is over, the others know what it wrote.                          *)
LEMMA CallEnds ==
    ASSUME ScreenInv, NEW a \in Admins, NEW W \in SUBSET Scr!Screens,
           \A d \in Scr!Screens \ W : display'[d] = display[d], Scr!Next1(a, W, Scr!Idle)
    PROVE  /\ DOMAIN admin' = Admins
           /\ \A b \in Admins : CallOK(admin'[b]) /\ ReadStands(admin[b])'
  <1>1. DOMAIN admin' = Admins /\ admin'[a] = Scr!Idle /\ \A b \in Admins \ {a} : admin'[b] = Scr!Late(W)[b]
    BY DEF Scr!Next1, Scr!Late
  <1>2. CallOK(admin'[a]) /\ ReadStands(admin[a])'
    BY <1>1 DEF CallOK, ReadStands, Scr!Idle
  <1> QED
    BY <1>1, <1>2, OthersRead

LEMMA UpdateStep ==
    ASSUME ScreenInv, NEW a \in Admins, Scr!WriteUpdate(a)
    PROVE  ScreensGoOn
  <1> DEFINE d == admin[a].display
             input == admin[a].input
  <1>1. /\ admin[a].at = "update" /\ created' = created /\ d \in Scr!Screens /\ input \in Scr!Inputs
        /\ ReadStands(admin[a])
    BY DEF Scr!WriteUpdate, ScreenInv, CallOK, Scr!Idle
  <1>2. CASE ~Scr!Exists(d)
    <2>1. display' = display /\ Scr!Next1(a, {}, Scr!Idle)
      BY <1>2 DEF Scr!WriteUpdate
    <2> QED
      BY <1>1, <2>1, CallEnds, NothingWritten
  <1>3. CASE Scr!Exists(d)
    <2> DEFINE new == IF "config" \in DOMAIN input
                      THEN Scr!Normalize(Scr!WithRole(input.config, admin[a].view)) ELSE display[d].config
    <2>1. /\ display' = [display EXCEPT
                 ![d].enabled = Scr!Given(input, "enabled", @),
                 ![d].station = Scr!Given(input, "station", @),
                 ![d].config = IF "config" \in DOMAIN input
                               THEN Scr!Normalize(Scr!WithRole(input.config, admin[a].view)) ELSE @]
          /\ Scr!Next1(a, {d}, Scr!Idle)
      BY <1>3 DEF Scr!WriteUpdate
    <2>2. /\ {"station", "link", "enabled", "config"} \subseteq DOMAIN display[d]
          /\ "view" \in DOMAIN display[d].config
          /\ DOMAIN display = Scr!Screens
      BY <1>1, <1>3 DEF ScreenInv, RowOK, Scr!Exists
    <2>3. /\ DOMAIN display' = Scr!Screens /\ \A e \in Scr!Screens \ {d} : display'[e] = display[e]
          /\ DOMAIN display'[d] = DOMAIN display[d] /\ display'[d].config = new
      BY <1>1, <2>1, <2>2
    <2>4. "view" \in DOMAIN new
      BY <2>2, NormalizedView
    <2>5. RowOK(display'[d])
      BY <2>2, <2>3, <2>4 DEF RowOK
    <2>6. RoleIsAsked(d)
      <3> SUFFICES ASSUME display[d].config.view # new.view
                   PROVE  /\ "config" \in DOMAIN input
                          /\ "view" \in DOMAIN input.config \/ d \in admin[a].late
        BY <1>1, <2>3 DEF RoleIsAsked
      <3>1. "config" \in DOMAIN input
        OBVIOUS
      <3>2. CASE "view" \notin DOMAIN input.config
        <4>1. new.view = admin[a].view
          BY <3>1, <3>2, RoleIsKept
        <4> QED
          BY <1>1, <1>3, <3>1, <4>1 DEF ReadStands
      <3> QED
        BY <3>1, <3>2
    <2> HIDE DEF d, new
    <2> QED
      BY <1>1, <1>3, <2>1, <2>3, <2>5, <2>6, CallEnds, RowsWritten
  <1> QED
    BY <1>2, <1>3

LEMMA ManyStep ==
    ASSUME ScreenInv, NEW a \in Admins, Scr!WriteMany(a)
    PROVE  ScreensGoOn
  <1> DEFINE hit == {d \in admin[a].rows : Scr!Exists(d)}
  <1>1. /\ display' = [d \in Scr!Screens |->
                IF d \notin hit THEN display[d]
                ELSE IF admin[a].at = "apply" THEN [display[d] EXCEPT !.config = admin[a].config]
                ELSE [display[d] EXCEPT !.enabled = admin[a].on]]
        /\ Scr!Next1(a, hit, Scr!Idle) /\ created' = created /\ admin[a].at \in {"apply", "enable"}
    BY DEF Scr!WriteMany
  <1>2. admin[a].at = "apply" => "view" \in DOMAIN admin[a].config
    BY DEF ScreenInv, CallOK, Scr!Idle
  <1> DEFINE W == hit \cap Scr!Screens
  <1>3. ASSUME NEW d \in W
        PROVE  /\ RowOK(display'[d]) /\ Scr!Exists(d)
               /\ admin[a].at = "enable" => display'[d].config = display[d].config
    <2>1. /\ {"station", "link", "enabled", "config"} \subseteq DOMAIN display[d]
          /\ "view" \in DOMAIN display[d].config /\ Scr!Exists(d)
      BY <1>3 DEF ScreenInv, RowOK, Scr!Exists
    <2>2. display'[d] = IF admin[a].at = "apply" THEN [display[d] EXCEPT !.config = admin[a].config]
                        ELSE [display[d] EXCEPT !.enabled = admin[a].on]
      BY <1>1, <1>3
    <2> HIDE DEF W
    <2> QED
      BY <1>1, <1>2, <2>1, <2>2 DEF RowOK
  <1>4. ASSUME NEW d \in W
        PROVE  RoleIsAsked(d)
    BY <1>1, <1>3, <1>4 DEF RoleIsAsked
  <1>5. DOMAIN display' = Scr!Screens /\ \A d \in Scr!Screens \ W : display'[d] = display[d]
    BY <1>1
  <1>6. /\ DOMAIN admin' = Admins /\ admin'[a] = Scr!Idle
        /\ \A b \in Admins \ {a} : admin'[b] = Scr!Late(hit)[b]
    BY <1>1 DEF Scr!Next1, Scr!Late
  <1>7. \A d \in Scr!Screens \ hit : display'[d] = display[d]
    BY <1>1
  <1>8. CallOK(admin'[a]) /\ ReadStands(admin[a])'
    BY <1>6 DEF CallOK, ReadStands, Scr!Idle
  <1>9. \A b \in Admins : CallOK(admin'[b]) /\ ReadStands(admin[b])'
    <2> HIDE DEF hit
    <2> QED
      BY <1>6, <1>7, <1>8, OthersRead
  <1>10. W \in SUBSET Scr!Screens
    OBVIOUS
  <1> HIDE DEF W, hit
  <1> QED
    BY <1>1, <1>3, <1>4, <1>5, <1>6, <1>9, <1>10, RowsWritten

LEMMA InteractiveStep ==
    ASSUME ScreenInv, NEW a \in Admins, Scr!WriteInteractive(a)
    PROVE  ScreensGoOn
  <1> DEFINE rest == admin[a].rest
  <1>1. PICK d \in DOMAIN rest :
          LET left == DOMAIN rest \ {d}
          IN IF ~Scr!Exists(d) THEN UNCHANGED display /\ Scr!Next1(a, {}, Scr!Idle)
             ELSE /\ display' = [display EXCEPT ![d].config =
                                    [rest[d] EXCEPT !.interactive = admin[a].on]]
                  /\ Scr!Next1(a, {d}, IF left = {} THEN Scr!Idle
                                   ELSE [admin[a] EXCEPT !.rest = [e \in left |-> rest[e]]])
    BY DEF Scr!WriteInteractive
  <1>2. /\ admin[a].at = "interactive" /\ created' = created /\ d \in Scr!Screens
        /\ {"at", "late", "rest", "on"} \subseteq DOMAIN admin[a]
        /\ \A e \in DOMAIN rest : e \in Scr!Screens /\ "view" \in DOMAIN rest[e]
        /\ \A e \in DOMAIN rest \ admin[a].late : Scr!Exists(e) => display[e].config.view = rest[e].view
    BY DEF Scr!WriteInteractive, ScreenInv, CallOK, ReadStands, Scr!Idle
  <1>3. CASE ~Scr!Exists(d)
    BY <1>1, <1>2, <1>3, CallEnds, NothingWritten
  <1>4. CASE Scr!Exists(d)
    <2> DEFINE left == DOMAIN rest \ {d}
               more == [admin[a] EXCEPT !.rest = [e \in left |-> rest[e]]]
               new == [rest[d] EXCEPT !.interactive = admin[a].on]
    <2>1. /\ display' = [display EXCEPT ![d].config = new]
          /\ Scr!Next1(a, {d}, IF left = {} THEN Scr!Idle ELSE more)
      BY <1>1, <1>4
    <2>2. "view" \in DOMAIN new /\ new.view = rest[d].view
      BY <1>2
    <2>3. /\ {"station", "link", "enabled", "config"} \subseteq DOMAIN display[d]
          /\ DOMAIN display = Scr!Screens
      BY <1>2, <1>4 DEF ScreenInv, RowOK, Scr!Exists
    <2>4. /\ more.at = "interactive" /\ more.late = admin[a].late /\ DOMAIN more = DOMAIN admin[a]
          /\ DOMAIN more.rest = left /\ \A e \in left : more.rest[e] = rest[e]
      BY <1>2
    <2> HIDE DEF new, more, left
    <2>5. /\ DOMAIN display' = Scr!Screens /\ \A e \in Scr!Screens \ {d} : display'[e] = display[e]
          /\ DOMAIN display'[d] = DOMAIN display[d] /\ display'[d].config = new
      BY <1>2, <2>1, <2>3
    <2>6. RowOK(display'[d])
      BY <2>2, <2>3, <2>5 DEF RowOK
    <2>7. RoleIsAsked(d)
      BY <1>2, <1>4, <2>2, <2>5 DEF RoleIsAsked
    <2>8. /\ DOMAIN admin' = Admins /\ \A b \in Admins \ {a} : admin'[b] = Scr!Late({d})[b]
          /\ admin'[a] = IF left = {} THEN Scr!Idle ELSE more
      BY <2>1 DEF Scr!Next1, Scr!Late
    <2>9. CallOK(admin'[a]) /\ ReadStands(admin[a])'
      <3>1. CASE left = {}
        BY <2>8, <3>1 DEF CallOK, ReadStands, Scr!Idle
      <3>2. CASE left # {}
        <4>1. left \subseteq DOMAIN rest \ {d}
          BY DEF left
        <4>2. \A e \in left : /\ e \in Scr!Screens /\ e # d
                             /\ (Scr!Exists(e)' <=> Scr!Exists(e)) /\ display'[e] = display[e]
          BY <1>2, <2>5, <4>1 DEF Scr!Exists
        <4>3. CallOK(more)
          BY <1>2, <2>4, <4>1 DEF CallOK
        <4>4. \A e \in left \ admin[a].late : Scr!Exists(e)' => display'[e].config.view = more.rest[e].view
          BY <1>2, <2>4, <4>1, <4>2
        <4> QED
          BY <2>4, <2>8, <3>2, <4>3, <4>4 DEF ReadStands
      <3> QED
        BY <3>1, <3>2
    <2>10. \A b \in Admins : CallOK(admin'[b]) /\ ReadStands(admin[b])'
      BY <2>5, <2>8, <2>9, OthersRead
    <2> QED
      BY <1>2, <1>4, <2>5, <2>6, <2>7, <2>8, <2>10, RowsWritten
  <1> QED
    BY <1>3, <1>4

LEMMA InsertStep ==
    ASSUME ScreenInv, Scr!ScreensAssumption, NEW a \in Admins, Scr!Insert(a)
    PROVE  ScreensGoOn
  <1> DEFINE n == created + 1
             todo == admin[a].todo
             more(t) == [admin[a] EXCEPT !.todo = @ \ {t}]
  <1>1. PICK t \in todo :
           /\ created' = n
           /\ display' = [display EXCEPT ![n] =
                 [station |-> t[1], link |-> issued + 1, enabled |-> TRUE, config |-> t[2]]]
           /\ Scr!Next1(a, {n}, IF todo = {t} THEN Scr!Idle ELSE more(t))
    BY DEF Scr!Insert
  <1>2. /\ admin[a].at = "create" /\ {"at", "late", "kind", "todo"} \subseteq DOMAIN admin[a]
        /\ \A u \in todo : "view" \in DOMAIN u[2]
        /\ admin[a].kind = "set" =>
              /\ \A u \in todo : \A d \in Scr!At(u[1]) \ admin[a].late : display[d].config.view # u[2].view
              /\ \A u, v \in todo : u[1] = v[1] /\ u[2].view = v[2].view => u = v
    BY DEF Scr!Insert, ScreenInv, CallOK, ReadStands, Scr!Idle
  <1>3. n \in Scr!Screens /\ created \in Nat /\ ~Scr!Exists(n)
    <2>1. created < MaxDisplays /\ created \in Nat /\ MaxDisplays \in Nat
      BY DEF Scr!Insert, ScreenInv, Scr!ScreensAssumption
    <2> QED
      BY <2>1 DEF Scr!Screens, ScreenInv
  <1> DEFINE new == [station |-> t[1], link |-> issued + 1, enabled |-> TRUE, config |-> t[2]]
  <1>4. /\ DOMAIN display' = Scr!Screens /\ display'[n] = new
        /\ \A d \in Scr!Screens \ {n} : display'[d] = display[d] /\ (Scr!Exists(d)' <=> Scr!Exists(d))
    BY <1>1, <1>3 DEF ScreenInv, Scr!Exists
  <1>5. RowOK(new)
    BY <1>2 DEF RowOK
  <1>6. /\ DOMAIN admin' = Admins /\ \A b \in Admins \ {a} : admin'[b] = Scr!Late({n})[b]
        /\ admin'[a] = IF todo = {t} THEN Scr!Idle ELSE more(t)
    BY <1>1 DEF Scr!Next1, Scr!Late
  <1>7. /\ more(t).at = "create" /\ more(t).kind = admin[a].kind /\ more(t).todo = todo \ {t}
        /\ more(t).late = admin[a].late /\ DOMAIN more(t) = DOMAIN admin[a]
    BY <1>2
  <1>8. new.station = t[1] /\ new.config = t[2]
    OBVIOUS
  <1> HIDE DEF more, new, n, todo
  <1>9. CallOK(admin'[a]) /\ ReadStands(admin[a])'
    <2>1. CASE todo = {t}
      BY <1>6, <2>1 DEF CallOK, ReadStands, Scr!Idle
    <2>2. CASE todo # {t}
      <3>1. CallOK(more(t))
        BY <1>2, <1>7 DEF CallOK
      <3>2. ASSUME admin[a].kind = "set", NEW u \in todo \ {t}, NEW d \in Scr!At(u[1])' \ admin[a].late
            PROVE  display'[d].config.view # u[2].view
        <4>1. CASE d = n
          <5>1. t[1] = u[1] /\ display'[d].config = t[2]
            BY <1>4, <1>8, <3>2, <4>1 DEF Scr!At
          <5> QED
            BY <1>2, <3>2, <5>1
        <4>2. CASE d # n
          <5>1. d \in Scr!At(u[1]) /\ display'[d] = display[d]
            BY <1>4, <3>2, <4>2 DEF Scr!At
          <5> QED
            BY <1>2, <3>2, <5>1
        <4> QED
          BY <4>1, <4>2
      <3>3. ReadStands(admin[a])'
        BY <1>2, <1>6, <1>7, <2>2, <3>2 DEF ReadStands
      <3> QED
        BY <1>6, <2>2, <3>1, <3>3
    <2> QED
      BY <2>1, <2>2
  <1>10. \A b \in Admins : CallOK(admin'[b]) /\ ReadStands(admin[b])'
    BY <1>4, <1>6, <1>9, OthersRead
  <1>11. ScreenInv'
    <2>1. created' = created + 1 /\ created' \in Nat /\ n = created'
      BY <1>1, <1>3 DEF n
    <2>2. \A d \in Scr!Screens : d \in Int
      BY DEF Scr!Screens
    <2>3. ASSUME NEW d \in Scr!Screens
          PROVE  RowOK(display'[d]) /\ (Scr!Exists(d)' => d <= created')
      <3>1. CASE d = n
        BY <1>4, <1>5, <2>1, <2>2, <3>1
      <3>2. CASE d # n
        <4>1. RowOK(display[d]) /\ (Scr!Exists(d) => d <= created)
          BY DEF ScreenInv
        <4>2. display'[d] = display[d] /\ (Scr!Exists(d)' => Scr!Exists(d))
          BY <1>4, <3>2
        <4>3. d <= created => d <= created'
          BY <1>3, <2>1, <2>2
        <4> QED
          BY <4>1, <4>2, <4>3
      <3> QED
        BY <3>1, <3>2
    <2> QED
      BY <1>4, <1>6, <1>10, <2>1, <2>3 DEF ScreenInv
  <1>12. ASSUME NEW d \in Scr!Screens
         PROVE  RoleIsAsked(d)
    BY <1>3, <1>4 DEF RoleIsAsked
  <1>13. ASSUME NEW b \in Admins
         PROVE  RoleIsNew(b)
    <2>1. CASE b # a
      <3>1. /\ admin'[b].at = admin[b].at
            /\ admin[b].at = "create" => admin'[b].todo = admin[b].todo
        BY <1>6, <2>1, LateOK
      <3> QED
        BY <3>1 DEF RoleIsNew, Scr!MakesScreenOf
    <2>2. CASE b = a
      <3> SUFFICES ASSUME admin[a].kind = "set", NEW d \in Scr!At(t[1]), display[d].config.view = t[2].view
                   PROVE  d \in admin[a].late
        BY <1>1, <1>4, <1>8, <2>2 DEF RoleIsNew, Scr!MakesScreenOf
      <3> QED
        BY <1>2
    <2> QED
      BY <2>1, <2>2
  <1> QED
    BY <1>11, <1>12, <1>13 DEF ScreensGoOn

LEMMA LinkSteps ==
    ASSUME ScreenInv, NEW d \in Scr!Screens, Scr!Regenerate(d) \/ Scr!Remove(d)
    PROVE  ScreensGoOn
  <1>1. created' = created /\ admin' = Scr!Late({d}) /\ Scr!Exists(d)
    BY DEF Scr!Regenerate, Scr!Remove
  <1>2. /\ {"station", "link", "enabled", "config"} \subseteq DOMAIN display[d]
        /\ "view" \in DOMAIN display[d].config /\ DOMAIN display = Scr!Screens
    BY <1>1 DEF ScreenInv, RowOK, Scr!Exists
  <1>3. display' = [display EXCEPT ![d].link = issued + 1] \/ display' = [display EXCEPT ![d] = Scr!NoRow]
    BY DEF Scr!Regenerate, Scr!Remove
  <1>4. /\ DOMAIN display' = Scr!Screens /\ \A e \in Scr!Screens \ {d} : display'[e] = display[e]
        /\ \/ display'[d] = Scr!NoRow
           \/ DOMAIN display'[d] = DOMAIN display[d] /\ display'[d].config = display[d].config
    BY <1>2, <1>3
  <1>5. RowOK(display'[d]) /\ RoleIsAsked(d)
    BY <1>2, <1>4 DEF RowOK, RoleIsAsked, Scr!Exists
  <1>6. DOMAIN admin' = Admins /\ \A b \in Admins : admin'[b] = Scr!Late({d})[b]
    BY <1>1 DEF Scr!Late
  <1>7. \A b \in Admins : CallOK(admin'[b]) /\ ReadStands(admin[b])'
    BY <1>4, <1>6, OthersRead
  <1> QED
    BY <1>1, <1>4, <1>5, <1>6, <1>7, RowsWritten

(* What happens at the stations, on the pages and on the way to them.      *)
LEMMA ElsewhereQuiet ==
    ASSUME NEW p,
           Scr!Server(p) \/ Scr!Poll(p) \/ Scr!Connect(p) \/ Scr!Refused(p)
              \/ Scr!Tick(p) \/ Scr!Forced(p) \/ Scr!Renew(p)
    PROVE  UNCHANGED <<display, created, admin>>
  <1>1. CASE Scr!Poll(p) \/ Scr!Connect(p) \/ Scr!Refused(p) \/ Scr!Tick(p) \/ Scr!Forced(p) \/ Scr!Renew(p)
    BY <1>1 DEF Scr!Poll, Scr!Connect, Scr!Refused, Scr!Tick, Scr!Forced, Scr!Renew, Scr!rows
  <1>2. CASE \E t \in Scr!Slots : Scr!PollAnswer(p, t) \/ Scr!Push(p, t)
    BY <1>2 DEF Scr!PollAnswer, Scr!Push, Scr!rows
  <1>3. CASE Scr!Connected(p) \/ Scr!PerformRefused(p) \/ Scr!Performed(p)
    BY <1>3 DEF Scr!Connected, Scr!PerformRefused, Scr!Performed, Scr!rows
  <1>4. CASE Scr!Perform(p)
    BY <1>4 DEF Scr!Perform, Scr!Acknowledge, Scr!RequestHelp, Scr!RaiseException,
                   Scr!AcknowledgeMessage, Scr!Performing
  <1> QED
    BY <1>1, <1>2, <1>3, <1>4 DEF Scr!Server

LEMMA StationQuiet ==
    ASSUME NEW s, Scr!Station(s)
    PROVE  UNCHANGED <<display, created, admin>>
  BY DEF Scr!Station, Scr!OpenSession, Scr!ScanProduct, Scr!Flag, Scr!Settle,
         Scr!CloseSession, Scr!TimePasses, Scr!FloorOnly, Scr!rows

LEMMA OthersQuiet ==
    /\ \A d \in Scr!Screens, text \in Texts :
          Scr!SendMessage(d, text) => UNCHANGED <<display, created, admin>>
    /\ \A d, i : Scr!Expire(d, i) => UNCHANGED <<display, created, admin>>
    /\ \A p, o : Scr!Press(p, o) => UNCHANGED <<display, created, admin>>
    /\ Scr!Restore => UNCHANGED <<display, created, admin>>
  BY DEF Scr!SendMessage, Scr!Expire, Scr!Press, Scr!Restore, Scr!rows

(* The calls that are under way when the server goes away are lost.        *)
LEMMA OutageStep ==
    ASSUME ScreenInv, Scr!Outage
    PROVE  ScreensGoOn
  <1>1. display' = display /\ created' = created /\ admin' = [a \in Admins |-> Scr!Idle]
    BY DEF Scr!Outage, Scr!rows
  <1>2. DOMAIN admin' = Admins /\ \A a \in Admins : CallOK(admin'[a]) /\ ReadStands(admin[a])'
    BY <1>1 DEF CallOK, ReadStands, Scr!Idle
  <1> QED
    BY <1>1, <1>2, NothingWritten

LEMMA ScreenStep ==
    ASSUME ScreenInv, Scr!ScreensAssumption, [Scr!Next]_Scr!vars
    PROVE  ScreensGoOn
  <1>1. CASE UNCHANGED Scr!vars
    BY <1>1, NothingHappens DEF Scr!vars, Scr!rows
  <1>2. CASE Scr!Administration
    BY <1>2, StartSteps, LinkSteps, OthersQuiet, NothingHappens DEF Scr!Administration
  <1>3. CASE \E a \in Admins : Scr!Writing(a)
    BY <1>3, UpdateStep, InsertStep, ManyStep, InteractiveStep DEF Scr!Writing
  <1>4. CASE \E d \in Scr!Screens : \E i \in 1 .. Len(message[d]) : Scr!Expire(d, i)
    BY <1>4, OthersQuiet, NothingHappens
  <1>5. CASE \E s \in Stations : Scr!Station(s)
    BY <1>5, StationQuiet, NothingHappens
  <1>6. CASE \E p \in Pages : \E o \in Scr!Offers(p) : Scr!Press(p, o)
    BY <1>6, OthersQuiet, NothingHappens
  <1>7. CASE \E p \in Pages : Scr!Server(p) \/ Scr!Poll(p) \/ Scr!Connect(p) \/ Scr!Refused(p)
                              \/ Scr!Tick(p) \/ Scr!Forced(p) \/ Scr!Renew(p)
    BY <1>7, ElsewhereQuiet, NothingHappens
  <1>8. CASE Scr!Outage \/ Scr!Restore
    BY <1>8, OutageStep, OthersQuiet, NothingHappens
  <1> QED
    BY <1>1, <1>2, <1>3, <1>4, <1>5, <1>6, <1>7, <1>8 DEF Scr!Next

(* The role of a screen changes only as an administrator asked, and a      *)
(* screen set adds only roles that its station lacks, unless somebody else *)
(* wrote the row after the call had read it: displays.service.ts, update,  *)
(* createScreenSet and bulk.  The configuration that leaves the role out   *)
(* keeps the one that was read, and so does SET_INTERACTIVE.               *)
THEOREM RolesStayAsAsked == FloorSpec => RolesAsAsked
  <1> Scr!ScreensAssumption
    BY FloorAssumption
  <1>1. Scr!Init => ScreenInv
    <2> SUFFICES ASSUME Scr!Init
                 PROVE  ScreenInv
      OBVIOUS
    <2>1. PICK s \in Stations :
            display = [d \in Scr!Screens |->
              IF d # 1 THEN Scr!NoRow
              ELSE [station |-> s, link |-> 1, enabled |-> TRUE,
                    config |-> Scr!Normalize([interactive |-> TRUE, actions |-> Scr!Actions])]]
      BY DEF Scr!Init
    <2>2. /\ DOMAIN display = Scr!Screens
          /\ \A d \in Scr!Screens : RowOK(display[d]) /\ (Scr!Exists(d) => d = 1)
      BY <2>1, NormalizedView DEF RowOK, Scr!Exists
    <2>3. created = 1 /\ DOMAIN admin = Admins /\ \A a \in Admins : admin[a] = Scr!Idle
      BY DEF Scr!Init
    <2> QED
      BY <2>2, <2>3 DEF ScreenInv, CallOK, ReadStands, Scr!Idle
  <1>2. ScreenInv /\ [Scr!Next]_Scr!vars => ScreenInv'
    BY ScreenStep DEF ScreensGoOn
  <1>3. ASSUME ScreenInv, [Scr!Next]_Scr!vars
        PROVE  /\ \A d \in Scr!Screens :
                     Scr!Exists(d) /\ Scr!Exists(d)' /\ display[d].config.view # display'[d].config.view =>
                        \E a \in Admins :
                           \/ admin[a].at = "update" /\ admin[a].display = d /\ "config" \in DOMAIN admin[a].input
                              /\ ("view" \in DOMAIN admin[a].input.config \/ d \in admin[a].late)
                           \/ admin[a].at = "apply" /\ d \in admin[a].rows
                           \/ admin[a].at = "interactive" /\ d \in admin[a].late
               /\ \A a \in Admins :
                     (created' # created /\ Scr!MakesScreenOf(a)) =>
                        \A d \in Scr!At(display'[created'].station) :
                           display[d].config.view = display'[created'].config.view => d \in admin[a].late
    BY <1>3, ScreenStep DEF ScreensGoOn, RoleIsAsked, RoleIsNew
  <1> QED
    BY <1>1, <1>2, <1>3, ScreenScene, PTL DEF Scr!Spec, RolesAsAsked, Scr!RolesAsAsked
=============================================================================
