------------------------------ MODULE PrintProofs ------------------------------
(***************************************************************************)
(* Theorems about PrintQueue, for every number of stations, displays,      *)
(* handhelds, bridge threads, jobs and copies, and every capacity of the   *)
(* window of a handheld.                                                   *)
(***************************************************************************)
EXTENDS PrintQueue, WellFoundedInduction, FiniteSetTheorems, SequenceTheorems, TLAPS

(* First picks the oldest job of a set of jobs.                            *)
LEMMA FirstIsOldest ==
    ASSUME NEW S \in SUBSET Jobs, S # {}
    PROVE  First(S) \in S
  <1> DEFINE Below(j) == {k \in S : k < j}
             T == {Below(j) : j \in S}
  <1>1. IsFiniteSet(S)
    <2>1. IsFiniteSet(Jobs)
      BY PrintAssumption, FS_Interval DEF Jobs
    <2> QED
      BY <2>1, FS_Subset
  <1>2. IsWellFoundedOn(StrictSubsetOrdering(S), FiniteSubsetsOf(S))
    BY FS_StrictSubsetOrderingWellFounded
  <1>3. T \subseteq FiniteSubsetsOf(S) /\ T # {}
    <2>1. \A j \in S : Below(j) \subseteq S
      OBVIOUS
    <2>2. \A j \in S : IsFiniteSet(Below(j))
      BY <1>1, <2>1, FS_Subset
    <2> QED
      BY <2>1, <2>2 DEF FiniteSubsetsOf
  <1>4. PICK t \in T : \A u \in T : ~(<<u, t>> \in StrictSubsetOrdering(S))
    <2> HIDE DEF T
    <2> QED
      BY <1>2, <1>3, WFMin
  <1>5. PICK j \in S : t = Below(j)
    BY <1>4
  <1>6. \A k \in S : k \in Int
    BY PrintAssumption DEF Jobs
  <1>7. ASSUME NEW k \in S, k < j
        PROVE  FALSE
    <2>1. Below(k) \subseteq Below(j)
      <3>1. ASSUME NEW i \in S, i < k
            PROVE  i < j
        <4>1. i \in Int /\ k \in Int /\ j \in Int
          BY <1>6
        <4> QED
          BY <1>7, <3>1, <4>1
      <3> QED
        BY <3>1
    <2>2. j \notin Below(k) /\ k \in Below(j) /\ k \notin Below(k)
      BY <1>6, <1>7
    <2>3. Below(k) \in SUBSET S /\ Below(j) \in SUBSET S /\ Below(k) \in T
      OBVIOUS
    <2> HIDE DEF Below, T
    <2>4. <<Below(k), Below(j)>> \in StrictSubsetOrdering(S)
      BY <2>1, <2>2, <2>3 DEF StrictSubsetOrdering
    <2> QED
      BY <1>4, <1>5, <2>3, <2>4
  <1>8. \A k \in S : j <= k
    BY <1>6, <1>7
  <1> QED
    BY <1>8 DEF First

-----------------------------------------------------------------------------
(* TYPE CORRECTNESS                                                        *)

Row(j) == job[j] # NoRow

(* What the page of a display, a bridge, a report, a handler call or an    *)
(* agent works on is a job that exists.                                    *)
PageStands == \A d \in Displays : page[d] # Idle => Row(page[d].job)
BridgeStands == \A d \in Displays : \A j \in bridged[d] : Row(j)
WireStands == \A m \in wire : Row(m.job)
CallStands ==
    \A r \in Calls :
       /\ call[r].at = "settle" => Row(call[r].report.job)
       /\ call[r].at = "claim" => call[r].todo # {} /\ \A j \in call[r].todo : Row(j)
AgentStands ==
    \A h \in Handhelds :
       agent[h] # Idle => agent[h].todo # {} /\ \A j \in agent[h].todo : Row(j)
RowsStand == PageStands /\ BridgeStands /\ WireStands /\ CallStands /\ AgentStands

TypeInv == TypeOK /\ RowsStand

LEMMA JobRows ==
    ASSUME TypeOK, NEW j \in Jobs
    PROVE  /\ Row(j) <=> job[j] \in Job
           /\ Row(j) <=> job[j].status # "none"
  <1>1. NoRow \notin Job /\ NoRow.status = "none" /\ \A x \in Job : x.status # "none"
    BY DEF NoRow, Job, Settled
  <1> QED
    BY <1>1 DEF TypeOK, Row

(* What an agent, a call, a page and a print call keep is determined by    *)
(* where they are.                                                         *)
AgentState ==
    {Idle} \cup [at : {"link", "next"}, todo : SUBSET Jobs]
           \cup [at : {"copy", "printing"}, todo : SUBSET Jobs, copy : 1 .. MaxCopies]
           \cup [at : {"report", "await"}, todo : SUBSET Jobs, status : Settled]

LEMMA AgentFields ==
    ASSUME TypeOK, NEW h \in Handhelds
    PROVE  /\ agent[h] = Idle <=> agent[h].at = "idle"
           /\ agent[h] # Idle => agent[h].todo \in SUBSET Jobs
           /\ agent[h].at \in {"copy", "printing"} => agent[h].copy \in 1 .. MaxCopies
           /\ agent[h].at \in {"report", "await"} => agent[h].status \in Settled
  <1>1. agent[h] \in AgentState
    BY DEF TypeOK, AgentState
  <1> QED
    BY <1>1 DEF AgentState, Idle

LEMMA AgentKinds ==
    ASSUME TypeOK, NEW h \in Handhelds
    PROVE  /\ agent[h].at \in {"copy", "printing"} =>
                 agent[h] \in [at : {"copy", "printing"}, todo : SUBSET Jobs, copy : 1 .. MaxCopies]
           /\ agent[h].at \in {"report", "await"} =>
                 agent[h] \in [at : {"report", "await"}, todo : SUBSET Jobs, status : Settled]
  <1>1. agent[h] \in AgentState
    BY DEF TypeOK, AgentState
  <1> QED
    BY <1>1 DEF AgentState, Idle

LEMMA CallFields ==
    ASSUME TypeOK, NEW r \in Calls
    PROVE  /\ call[r] = Idle <=> call[r].at = "idle"
           /\ call[r].at = "settle" => call[r].report \in Report
           /\ call[r].at = "claim" =>
                 call[r] \in [at : {"claim"}, display : Displays, todo : SUBSET Jobs]
  BY DEF TypeOK, Idle

LEMMA PageFields ==
    ASSUME TypeOK, NEW d \in Displays
    PROVE  /\ page[d] = Idle <=> page[d].at = "idle"
           /\ page[d] # Idle => page[d].job \in Jobs
           /\ page[d].at = "report" => page[d].status \in Settled
  BY DEF TypeOK, Idle

Place == [at : {"check", "claim", "write", "ok", "failed"}, label : Labels]

LEMMA PrintFields ==
    ASSUME TypeOK, NEW c \in Callers
    PROVE  /\ print[c] = Idle <=> print[c].at = "idle"
           /\ print[c] # Idle <=> print[c] \in Place
           /\ print[c] # Idle => print[c].label \in Labels
  BY DEF TypeOK, Idle, Place

LEMMA DeviceOf == ASSUME NEW c \in Callers PROVE On(c) \in Handhelds
  BY PrintAssumption DEF On, Callers

(* Every step leaves the jobs that exist where they are, with the station  *)
(* and the number of copies they were made with.                           *)
SameJob(j) == Row(j) => Row(j)' /\ job'[j].copies = job[j].copies
JobsKept == job' \in [Jobs -> Job \cup {NoRow}] /\ \A j \in Jobs : SameJob(j)

LEMMA OneJobChanges ==
    ASSUME TypeOK, NEW j \in Jobs, NEW row \in Job,
           Row(j) => row.copies = job[j].copies,
           job' = [job EXCEPT ![j] = row]
    PROVE  JobsKept
  <1>1. NoRow \notin Job
    BY DEF NoRow, Job, Settled
  <1>2. job'[j] = row /\ \A k \in Jobs \ {j} : job'[k] = job[k]
    BY DEF TypeOK
  <1>3. job' \in [Jobs -> Job \cup {NoRow}]
    BY DEF TypeOK
  <1> QED
    BY <1>1, <1>2, <1>3 DEF JobsKept, SameJob, Row

LEMMA StatusChanges ==
    ASSUME TypeOK, NEW j \in Jobs, Row(j),
           NEW s \in {"QUEUED", "CLAIMED"} \cup Settled, NEW b \in BOOLEAN,
           job' = [job EXCEPT ![j].status = s, ![j].agent = b]
    PROVE  /\ JobsKept
           /\ job'[j].status = s /\ job'[j].agent = b
           /\ \A k \in Jobs \ {j} : job'[k] = job[k]
  <1> DEFINE row == [job[j] EXCEPT !.status = s, !.agent = b]
  <1>1. job[j] \in Job
    BY JobRows
  <1>2. row \in Job /\ row.copies = job[j].copies /\ row.status = s /\ row.agent = b
    BY <1>1 DEF Job
  <1>3. job' = [job EXCEPT ![j] = row]
    BY DEF TypeOK
  <1> HIDE DEF row
  <1>4. job'[j] = row /\ \A k \in Jobs \ {j} : job'[k] = job[k]
    BY <1>3 DEF TypeOK
  <1> QED
    BY <1>2, <1>3, <1>4, OneJobChanges

LEMMA Unmoved ==
    ASSUME TypeInv
    PROVE  /\ UNCHANGED job => JobsKept
           /\ JobsKept => /\ UNCHANGED page => PageStands'
                          /\ UNCHANGED bridged => BridgeStands'
                          /\ UNCHANGED wire => WireStands'
                          /\ UNCHANGED call => CallStands'
                          /\ UNCHANGED agent => AgentStands'
  <1>1. UNCHANGED job => JobsKept
    BY DEF TypeInv, TypeOK, JobsKept, SameJob, Row
  <1>2. JobsKept /\ UNCHANGED page => PageStands'
    BY PageFields DEF TypeInv, RowsStand, PageStands, JobsKept, SameJob
  <1>3. JobsKept /\ UNCHANGED bridged => BridgeStands'
    BY DEF TypeInv, TypeOK, RowsStand, BridgeStands, JobsKept, SameJob
  <1>4. JobsKept /\ UNCHANGED wire => WireStands'
    BY DEF TypeInv, TypeOK, RowsStand, WireStands, JobsKept, SameJob, Report
  <1>5. JobsKept /\ UNCHANGED call => CallStands'
    BY CallFields DEF TypeInv, RowsStand, CallStands, JobsKept, SameJob, Report
  <1>6. JobsKept /\ UNCHANGED agent => AgentStands'
    BY AgentFields DEF TypeInv, RowsStand, AgentStands, JobsKept, SameJob
  <1> QED
    BY <1>1, <1>2, <1>3, <1>4, <1>5, <1>6

(* The steps of the display and of the server.                             *)
LEMMA RequestLabelTyped ==
    ASSUME TypeInv, NEW d \in Displays, NEW n \in 1 .. MaxCopies, RequestLabel(d, n)
    PROVE  TypeInv' /\ JobsKept
  <1>1. PICK j \in Jobs :
           /\ job[j] = NoRow
           /\ job' = [job EXCEPT ![j] = [status |-> "QUEUED", station |-> display[d].station,
                                         copies |-> n, agent |-> FALSE, page |-> FALSE]]
           /\ page' = IF "page" \in events THEN [page EXCEPT ![d] = [at |-> "print", job |-> j]] ELSE page
    BY DEF RequestLabel
  <1> DEFINE row == [status |-> "QUEUED", station |-> display[d].station,
                     copies |-> n, agent |-> FALSE, page |-> FALSE]
  <1>2. row \in Job
    BY DEF TypeInv, TypeOK, Job, Settled
  <1>3. JobsKept /\ Row(j)'
    <2>1. NoRow \notin Job /\ job'[j] = row
      BY <1>1 DEF TypeInv, TypeOK, NoRow, Job, Settled
    <2> HIDE DEF row
    <2> QED
      BY <1>1, <1>2, <2>1, OneJobChanges DEF TypeInv, Row
  <1>4. PageStands'
    <2>1. \A e \in Displays : page'[e] = page[e] \/ page'[e] = [at |-> "print", job |-> j]
      BY <1>1 DEF TypeInv, TypeOK
    <2> QED
      BY <1>3, <2>1, PageFields DEF TypeInv, RowsStand, PageStands, JobsKept, SameJob
  <1>5. TypeOK'
    BY <1>1, <1>3 DEF TypeInv, TypeOK, JobsKept, RequestLabel, Others, device
  <1> QED
    BY <1>3, <1>4, <1>5, Unmoved DEF TypeInv, RowsStand, RequestLabel, device

LEMMA PageTyped ==
    ASSUME TypeInv, NEW d \in Displays, PagePrints(d) \/ PageLeaves(d) \/ PageReports(d)
    PROVE  TypeInv' /\ JobsKept
  <1>1. page[d] # Idle /\ page[d].job \in Jobs /\ Row(page[d].job) /\ job[page[d].job] \in Job
    <2>1. page[d] # Idle
      BY DEF PagePrints, PageLeaves, PageReports, Idle
    <2> QED
      BY <2>1, PageFields, JobRows DEF TypeInv, RowsStand, PageStands
  <1>2. JobsKept
    <2>1. CASE PagePrints(d)
      <3>1. PICK s \in Settled :
               job' = [job EXCEPT ![page[d].job].page = (s = "PRINTED")]
        BY <2>1 DEF PagePrints
      <3> DEFINE row == [job[page[d].job] EXCEPT !.page = (s = "PRINTED")]
      <3>2. row \in Job /\ row.copies = job[page[d].job].copies
        BY <1>1 DEF Job
      <3>3. job' = [job EXCEPT ![page[d].job] = row]
        BY <1>1, <3>1 DEF TypeInv, TypeOK
      <3> HIDE DEF row
      <3> QED
        BY <1>1, <3>2, <3>3, OneJobChanges DEF TypeInv
    <2>2. CASE PageLeaves(d)
      BY <2>2, Unmoved DEF PageLeaves
    <2>3. CASE PageReports(d)
      <3>1. page[d].status \in Settled
        BY <2>3, PageFields DEF TypeInv, PageReports
      <3> QED
        BY <1>1, <2>3, <3>1, StatusChanges DEF TypeInv, PageReports, SetStatus
    <2> QED
      BY <2>1, <2>2, <2>3
  <1>3. \/ page' = [page EXCEPT ![d] = Idle]
        \/ \E s \in Settled :
              page' = [page EXCEPT ![d] = [at |-> "report", job |-> page[d].job, status |-> s]]
    BY DEF PagePrints, PageLeaves, PageReports
  <1>4. PageStands'
    <2>1. /\ \A e \in Displays : e # d => page'[e] = page[e]
          /\ page'[d] # Idle => page'[d].job = page[d].job
      BY <1>3 DEF TypeInv, TypeOK
    <2> QED
      BY <1>1, <1>2, <2>1, PageFields DEF TypeInv, RowsStand, PageStands, JobsKept, SameJob
  <1>5. page' \in [Displays -> {Idle} \cup [at : {"print"}, job : Jobs]
                                     \cup [at : {"report"}, job : Jobs, status : Settled]]
    BY <1>1, <1>3 DEF TypeInv, TypeOK
  <1>6. UNCHANGED <<display, post, bridged, wire, call, device>> /\ Others
    BY DEF PagePrints, PageLeaves, PageReports
  <1>7. TypeOK'
    BY <1>2, <1>5, <1>6 DEF TypeInv, TypeOK, JobsKept, Others, device
  <1> QED
    BY <1>2, <1>4, <1>6, <1>7, Unmoved DEF TypeInv, RowsStand, device

LEMMA ClaimTyped ==
    ASSUME TypeInv, NEW d \in Displays, NEW r \in Calls, ClaimPrintJobs(r, d)
    PROVE  TypeInv'
  <1>1. PICK todo \in SUBSET Jobs :
           /\ todo # {} /\ \A j \in todo : job[j].status = "QUEUED"
           /\ call' = [call EXCEPT ![r] = [at |-> "claim", display |-> d, todo |-> todo]]
    BY DEF ClaimPrintJobs, Goto
  <1>2. JobsKept
    BY Unmoved DEF ClaimPrintJobs
  <1>3. CallStands'
    <2>1. /\ \A q \in Calls : q # r => call'[q] = call[q]
          /\ call'[r].at = "claim" /\ call'[r].todo = todo
      BY <1>1 DEF TypeInv, TypeOK
    <2>2. \A j \in todo : Row(j)
      BY <1>1, JobRows DEF TypeInv
    <2> QED
      BY <1>1, <1>2, <2>1, <2>2, CallFields DEF TypeInv, RowsStand, CallStands, JobsKept, SameJob, Report
  <1>4. TypeOK'
    BY <1>1, <1>2 DEF TypeInv, TypeOK, JobsKept, ClaimPrintJobs, Occurs, device
  <1> QED
    BY <1>2, <1>3, <1>4, Unmoved DEF TypeInv, RowsStand, ClaimPrintJobs, device

LEMMA MarkTyped ==
    ASSUME TypeInv, NEW r \in Calls, MarkClaimed(r)
    PROVE  TypeInv' /\ JobsKept
  <1> DEFINE j == First(call[r].todo)
             d == call[r].display
  <1>1. /\ call[r].display \in Displays /\ call[r].todo \in SUBSET Jobs
        /\ call[r] \in [at : {"claim"}, display : Displays, todo : SUBSET Jobs]
        /\ call[r].todo # {} /\ \A k \in call[r].todo : Row(k)
    BY CallFields DEF TypeInv, RowsStand, CallStands, MarkClaimed
  <1>2. j \in call[r].todo /\ j \in Jobs /\ Row(j)
    BY <1>1, FirstIsOldest
  <1>3. /\ SetStatus(j, "CLAIMED")
        /\ bridged' = [bridged EXCEPT ![d] = @ \cup {j}]
        /\ Goto(r, IF call[r].todo = {j} THEN Idle ELSE [call[r] EXCEPT !.todo = @ \ {j}])
        /\ UNCHANGED <<display, post, page, wire, device>> /\ Others
    BY DEF MarkClaimed
  <1> HIDE DEF j
  <1>4. JobsKept
    BY <1>2, <1>3, StatusChanges DEF TypeInv, SetStatus
  <1>5. BridgeStands'
    BY <1>1, <1>2, <1>3, <1>4 DEF TypeInv, TypeOK, RowsStand, BridgeStands, JobsKept, SameJob
  <1>6. CASE call[r].todo = {j}
    <2>1. call' = [call EXCEPT ![r] = Idle]
      BY <1>3, <1>6 DEF Goto
    <2>2. TypeOK'
      BY <1>1, <1>2, <1>3, <1>4, <2>1 DEF TypeInv, TypeOK, JobsKept, Others, device
    <2>3. CallStands'
      <3>1. /\ \A q \in Calls : q # r => call'[q] = call[q]
            /\ call'[r].at = "idle"
        BY <2>1 DEF TypeInv, TypeOK, Idle
      <3> QED
        BY <1>4, <3>1, CallFields DEF TypeInv, RowsStand, CallStands, JobsKept, SameJob, Report
    <2> QED
      BY <1>3, <1>4, <1>5, <2>2, <2>3, Unmoved DEF TypeInv, RowsStand, device
  <1>7. CASE call[r].todo # {j}
    <2> DEFINE rest == [call[r] EXCEPT !.todo = @ \ {j}]
    <2>1. /\ rest \in [at : {"claim"}, display : Displays, todo : SUBSET Jobs]
          /\ rest.at = "claim" /\ rest.todo = call[r].todo \ {j}
      BY <1>1
    <2>2. call' = [call EXCEPT ![r] = rest]
      BY <1>3, <1>7 DEF Goto
    <2> HIDE DEF rest
    <2>3. rest.todo # {} /\ \A k \in rest.todo : Row(k)
      BY <1>1, <1>2, <1>7, <2>1
    <2>4. TypeOK'
      BY <1>1, <1>2, <1>3, <1>4, <2>1, <2>2 DEF TypeInv, TypeOK, JobsKept, Others, device
    <2>5. CallStands'
      <3>1. /\ \A q \in Calls : q # r => call'[q] = call[q]
            /\ call'[r].at = "claim" /\ call'[r].todo = rest.todo
        BY <2>1, <2>2 DEF TypeInv, TypeOK
      <3>2. rest.todo \subseteq Jobs
        BY <2>1
      <3> QED
        BY <1>4, <2>3, <3>1, <3>2, CallFields DEF TypeInv, RowsStand, CallStands, JobsKept, SameJob, Report
    <2> QED
      BY <1>3, <1>4, <1>5, <2>4, <2>5, Unmoved DEF TypeInv, RowsStand, device
  <1> QED
    BY <1>6, <1>7

LEMMA BridgeReportsTyped ==
    ASSUME TypeInv, NEW d \in Displays, NEW j \in Jobs, NEW s \in Settled, BridgeReports(d, j, s)
    PROVE  TypeInv' /\ JobsKept
  <1>1. Row(j)
    BY DEF TypeInv, RowsStand, BridgeStands, BridgeReports
  <1>2. JobsKept
    BY <1>1, StatusChanges DEF TypeInv, BridgeReports, SetStatus
  <1>3. bridged' \in [Displays -> SUBSET Jobs] /\ BridgeStands'
    BY <1>2 DEF TypeInv, TypeOK, RowsStand, BridgeStands, JobsKept, SameJob, BridgeReports
  <1>4. TypeOK'
    BY <1>2, <1>3 DEF TypeInv, TypeOK, JobsKept, BridgeReports, Others, device
  <1> QED
    BY <1>2, <1>3, <1>4, Unmoved DEF TypeInv, RowsStand, BridgeReports, device

LEMMA AdminTyped ==
    ASSUME TypeInv,
           \/ \E d \in Displays, s \in Stations, open \in BOOLEAN : SetDisplay(d, s, open)
           \/ \E s \in Stations, w \in Workers \cup {None} : Assign(s, w)
           \/ \E m \in wire : LoseReport(m)
    PROVE  TypeInv'
  <1>1. UNCHANGED <<job, page, bridged, call, device>>
    BY DEF SetDisplay, Assign, LoseReport
  <1>2. JobsKept
    BY <1>1, Unmoved
  <1>3. TypeOK'
    <2>1. CASE \E d \in Displays, s \in Stations, open \in BOOLEAN : SetDisplay(d, s, open)
      BY <2>1, PrintAssumption DEF TypeInv, TypeOK, SetDisplay, Occurs, device
    <2>2. CASE \E s \in Stations, w \in Workers \cup {None} : Assign(s, w)
      BY <2>2, PrintAssumption DEF TypeInv, TypeOK, Assign, Occurs, device
    <2>3. CASE \E m \in wire : LoseReport(m)
      BY <2>3, PrintAssumption DEF TypeInv, TypeOK, LoseReport, Lose, Occurs, device
    <2> QED
      BY <2>1, <2>2, <2>3
  <1>4. WireStands'
    <2>1. wire' \subseteq wire /\ wire \subseteq Report
      BY DEF SetDisplay, Assign, LoseReport, TypeInv, TypeOK
    <2> QED
      BY <1>2, <2>1 DEF TypeInv, RowsStand, WireStands, JobsKept, SameJob, Report
  <1> QED
    BY <1>1, <1>2, <1>3, <1>4, Unmoved DEF TypeInv, RowsStand, device

LEMMA ReceiveTyped ==
    ASSUME TypeInv, NEW r \in Calls, NEW m \in wire, ReceiveReport(r, m)
    PROVE  TypeInv'
  <1>1. m \in Report /\ Row(m.job) /\ m.job \in Jobs /\ job[m.job] \in Job
    BY JobRows DEF TypeInv, TypeOK, RowsStand, WireStands, Report
  <1>2. JobsKept
    BY Unmoved DEF ReceiveReport
  <1>3. wire' \subseteq wire /\ WireStands'
    BY <1>2 DEF TypeInv, TypeOK, RowsStand, WireStands, JobsKept, SameJob, Report, ReceiveReport
  <1>4. CASE UNCHANGED call
    <2>1. TypeOK'
      BY <1>2, <1>3, <1>4 DEF TypeInv, TypeOK, JobsKept, ReceiveReport, Others, device
    <2> QED
      BY <1>2, <1>3, <1>4, <2>1, Unmoved DEF TypeInv, RowsStand, ReceiveReport, device
  <1>5. CASE call' = [call EXCEPT ![r] = [at |-> "settle", report |-> m, saw |-> job[m.job].status]]
    <2>1. job[m.job].status \in {"QUEUED", "CLAIMED"} \cup Settled
      BY <1>1 DEF Job
    <2>2. TypeOK'
      BY <1>1, <1>2, <1>3, <1>5, <2>1 DEF TypeInv, TypeOK, JobsKept, ReceiveReport, Others, device
    <2>3. CallStands'
      <3>1. /\ \A q \in Calls : q # r => call'[q] = call[q]
            /\ call'[r].at = "settle" /\ call'[r].report = m
        BY <1>5 DEF TypeInv, TypeOK
      <3> QED
        BY <1>1, <1>2, <3>1, CallFields DEF TypeInv, RowsStand, CallStands, JobsKept, SameJob, Report
    <2> QED
      BY <1>2, <1>3, <2>2, <2>3, Unmoved DEF TypeInv, RowsStand, ReceiveReport, device
  <1> QED
    BY <1>4, <1>5 DEF ReceiveReport, Goto

LEMMA SettleTyped ==
    ASSUME TypeInv, NEW r \in Calls, SettleJob(r)
    PROVE  TypeInv' /\ JobsKept
  <1> DEFINE m == call[r].report
  <1>1. m \in Report /\ m.job \in Jobs /\ m.status \in Settled /\ Row(m.job)
    BY CallFields DEF TypeInv, RowsStand, CallStands, SettleJob, Report
  <1>2. /\ job' = [job EXCEPT ![m.job].status = m.status, ![m.job].agent = TRUE]
        /\ call' = [call EXCEPT ![r] = Idle]
        /\ UNCHANGED <<display, post, page, bridged, wire, device>> /\ Others
    BY DEF SettleJob, Goto
  <1> HIDE DEF m
  <1>3. JobsKept
    BY <1>1, <1>2, StatusChanges DEF TypeInv
  <1>4. TypeOK'
    BY <1>2, <1>3 DEF TypeInv, TypeOK, JobsKept, Others, device
  <1>5. CallStands'
    <2>1. /\ \A q \in Calls : q # r => call'[q] = call[q]
          /\ call'[r].at = "idle"
      BY <1>2 DEF TypeInv, TypeOK, Idle
    <2> QED
      BY <1>3, <2>1, CallFields DEF TypeInv, RowsStand, CallStands, JobsKept, SameJob, Report
  <1> QED
    BY <1>2, <1>3, <1>4, <1>5, Unmoved DEF TypeInv, RowsStand, device

(* What the window of a handheld holds after it has remembered a label:    *)
(* that label, and of the others all but the oldest at most.               *)
Holds(w, l) == \E i \in 1 .. Len(w) : w[i] = l

LEMMA Remembering ==
    ASSUME NEW w \in Seq(Labels), Len(w) <= Window, NEW l \in Labels
    PROVE  /\ Remember(w, l) \in Seq(Labels) /\ Len(Remember(w, l)) <= Window
           /\ Holds(Remember(w, l), l)
           /\ \A k : Holds(Remember(w, l), k) => k = l \/ Holds(w, k)
           /\ \A k : Holds(w, k) => Holds(Remember(w, l), k) \/ k = w[1]
  <1> DEFINE longer == Append(w, l)
  <1>1. Window \in Nat /\ Window > 0 /\ Len(w) \in Nat
    BY PrintAssumption
  <1>2. /\ longer \in Seq(Labels) /\ Len(longer) = Len(w) + 1
        /\ longer[Len(w) + 1] = l
        /\ \A i \in 1 .. Len(w) : longer[i] = w[i]
    BY AppendProperties
  <1> HIDE DEF longer
  <1>3. CASE Len(longer) > Window
    <2>1. longer # <<>>
      BY <1>1, <1>2
    <2>2. /\ Tail(longer) \in Seq(Labels) /\ Len(Tail(longer)) = Len(w)
          /\ \A i \in 1 .. Len(w) : Tail(longer)[i] = longer[i + 1]
      BY <1>1, <1>2, <2>1, HeadTailProperties
    <2>3. Remember(w, l) = Tail(longer)
      BY <1>3 DEF Remember, longer
    <2>4. Len(w) >= 1 /\ Holds(Tail(longer), l)
      <3>1. Len(w) \in 1 .. Len(w)
        BY <1>1, <1>2, <1>3
      <3> QED
        BY <1>2, <2>2, <3>1 DEF Holds
    <2>5. ASSUME NEW k, Holds(Tail(longer), k)
          PROVE  k = l \/ Holds(w, k)
      <3>1. PICK i \in 1 .. Len(w) : longer[i + 1] = k
        BY <2>2, <2>5 DEF Holds
      <3>2. i + 1 \in 1 .. Len(w) \/ i + 1 = Len(w) + 1
        BY <1>1
      <3> QED
        BY <1>2, <3>1, <3>2 DEF Holds
    <2>6. ASSUME NEW k, Holds(w, k), k # w[1]
          PROVE  Holds(Tail(longer), k)
      <3>1. PICK i \in 1 .. Len(w) : w[i] = k
        BY <2>6 DEF Holds
      <3>2. i - 1 \in 1 .. Len(w) /\ (i - 1) + 1 = i
        BY <1>1, <2>6, <3>1
      <3> QED
        BY <1>2, <2>2, <3>1, <3>2 DEF Holds
    <2> QED
      BY <1>1, <1>2, <2>2, <2>3, <2>4, <2>5, <2>6
  <1>4. CASE ~(Len(longer) > Window)
    <2>1. Remember(w, l) = longer
      BY <1>4 DEF Remember, longer
    <2>2. /\ Len(w) + 1 \in 1 .. Len(longer)
          /\ \A i \in 1 .. Len(w) : i \in 1 .. Len(longer)
          /\ \A i \in 1 .. Len(longer) : i \in 1 .. Len(w) \/ i = Len(w) + 1
      BY <1>1, <1>2
    <2>3. Holds(longer, l)
      BY <1>2, <2>2 DEF Holds
    <2>4. \A k : Holds(longer, k) => k = l \/ Holds(w, k)
      BY <1>2, <2>2 DEF Holds
    <2>5. \A k : Holds(w, k) => Holds(longer, k)
      BY <1>2, <2>2 DEF Holds
    <2> QED
      BY <1>1, <1>2, <1>4, <2>1, <2>3, <2>4, <2>5
  <1> QED
    BY <1>3, <1>4

LEMMA CurrentJob ==
    ASSUME TypeInv, NEW h \in Handhelds, agent[h] # Idle
    PROVE  /\ Current(h) \in agent[h].todo /\ Current(h) \in Jobs
           /\ Row(Current(h)) /\ job[Current(h)] \in Job
           /\ job[Current(h)].copies \in 1 .. MaxCopies
  <1>1. agent[h].todo \in SUBSET Jobs /\ agent[h].todo # {} /\ \A j \in agent[h].todo : Row(j)
    BY AgentFields DEF TypeInv, RowsStand, AgentStands
  <1>2. Current(h) \in agent[h].todo
    BY <1>1, FirstIsOldest DEF Current
  <1>3. Row(Current(h)) /\ job[Current(h)] \in Job
    BY <1>1, <1>2, JobRows DEF TypeInv
  <1> QED
    BY <1>1, <1>2, <1>3 DEF Job

LEMMA AgentMoves ==
    ASSUME TypeInv, NEW h \in Handhelds, NEW a \in AgentState,
           a # Idle => a.todo # {} /\ \A j \in a.todo : Row(j),
           SetAgent(h, a), UNCHANGED job
    PROVE  /\ agent' \in [Handhelds -> AgentState]
           /\ AgentStands'
           /\ agent'[h] = a /\ \A g \in Handhelds \ {h} : agent'[g] = agent[g]
  <1>1. /\ agent' \in [Handhelds -> AgentState]
        /\ agent'[h] = a /\ \A g \in Handhelds \ {h} : agent'[g] = agent[g]
    BY DEF SetAgent, TypeInv, TypeOK, AgentState
  <1>2. AgentStands'
    BY <1>1 DEF TypeInv, RowsStand, AgentStands, Row
  <1> QED
    BY <1>1, <1>2

LEMMA PrintMoves ==
    ASSUME TypeInv, NEW c \in Callers, print[c] # Idle,
           NEW at \in {"check", "claim", "write", "ok", "failed"}, PrintAt(c, at)
    PROVE  /\ print' \in [Callers -> {Idle} \cup Place]
           /\ print'[c].at = at /\ print'[c].label = print[c].label /\ print'[c] # Idle
           /\ \A b \in Callers \ {c} : print'[b] = print[b]
  <1> DEFINE p == [print[c] EXCEPT !.at = at]
  <1>1. print[c] \in Place
    BY PrintFields DEF TypeInv
  <1>2. p \in Place /\ p.at = at /\ p.label = print[c].label /\ p # Idle
    BY <1>1 DEF Place, Idle
  <1>3. print' = [print EXCEPT ![c] = p]
    BY DEF PrintAt, TypeInv, TypeOK
  <1> HIDE DEF p
  <1> QED
    BY <1>2, <1>3 DEF TypeInv, TypeOK, Place

(* A step of the device leaves the rows of the server alone; what it has   *)
(* to keep is the type of its own variables, and the jobs of the agents.   *)
LEMMA DeviceTyped ==
    ASSUME TypeInv,
           /\ agent' \in [Handhelds -> AgentState]
           /\ printer' \in [Handhelds -> Printer]
           /\ known' \in [Handhelds -> Seq(Labels)] /\ disk' \in [Handhelds -> Seq(Labels)]
           /\ \A h \in Handhelds : Len(known'[h]) <= Window /\ Len(disk'[h]) <= Window
           /\ print' \in [Callers -> {Idle} \cup Place]
           /\ asked' \in [WebLabels -> 0 .. 2]
           /\ sheets' \in [Handhelds -> [Labels -> Nat]]
           /\ lost' \in 0 .. MaxLost
           /\ crashes' \in 0 .. MaxCrashes,
           AgentStands',
           UNCHANGED <<server, moves, events>>
    PROVE  TypeInv'
  <1>1. TypeOK'
    BY DEF TypeInv, TypeOK, AgentState, Place, server
  <1>2. JobsKept /\ UNCHANGED <<page, bridged, wire, call>>
    BY Unmoved DEF server
  <1> QED
    BY <1>1, <1>2, Unmoved DEF TypeInv, RowsStand

LEMMA AgentTyped ==
    ASSUME TypeInv, NEW h \in Handhelds,
           \/ Poll(h) \/ EnsureConnected(h) \/ CannotConnect(h)
           \/ Answered(h) \/ GivesUpWaiting(h)
    PROVE  TypeInv'
  <1>1. \E a \in AgentState : SetAgent(h, a) /\ (a # Idle => a.todo # {} /\ \A j \in a.todo : Row(j))
    <2>1. CASE Poll(h)
      <3>1. Offered(h) \in SUBSET Jobs /\ Offered(h) # {} /\ \A j \in Offered(h) : Row(j)
        BY <2>1, JobRows DEF TypeInv, Poll, Offered, Pending, Queued
      <3>2. [at |-> "link", todo |-> Offered(h)] \in AgentState
        BY <3>1 DEF AgentState
      <3> QED
        BY <2>1, <3>1, <3>2 DEF Poll
    <2>2. CASE EnsureConnected(h)
      <3>1. agent[h] # Idle /\ agent[h].todo \in SUBSET Jobs
        BY <2>2, AgentFields DEF TypeInv, EnsureConnected
      <3>2. [at |-> "copy", todo |-> agent[h].todo, copy |-> 1] \in AgentState
        BY <3>1, PrintAssumption DEF AgentState
      <3>3. SetAgent(h, [at |-> "copy", todo |-> agent[h].todo, copy |-> 1])
        BY <2>2 DEF EnsureConnected
      <3> QED
        BY <3>1, <3>2, <3>3 DEF TypeInv, RowsStand, AgentStands
    <2>3. CASE CannotConnect(h)
      BY <2>3 DEF CannotConnect, AgentState
    <2>4. CASE Answered(h) \/ GivesUpWaiting(h)
      <3> DEFINE rest == agent[h].todo \ {Current(h)}
      <3>1. agent[h] # Idle /\ agent[h].todo \in SUBSET Jobs
        BY <2>4, AgentFields DEF TypeInv, Answered, GivesUpWaiting
      <3>2. \A j \in rest : j \in Jobs /\ Row(j)
        BY <3>1 DEF TypeInv, RowsStand, AgentStands
      <3>3. \/ SetAgent(h, Idle)
            \/ rest # {} /\ SetAgent(h, [at |-> "link", todo |-> rest])
        BY <2>4 DEF Answered, GivesUpWaiting, NextJob
      <3>4. Idle \in AgentState /\ [at |-> "link", todo |-> rest] \in AgentState
        BY <3>2 DEF AgentState
      <3> QED
        BY <3>2, <3>3, <3>4
    <2> QED
      BY <2>1, <2>2, <2>3, <2>4
  <1>2. UNCHANGED <<server, known, disk, print, asked, sheets, crashes, moves, events>>
    BY DEF Poll, EnsureConnected, CannotConnect, Answered, GivesUpWaiting, Lose, Occurs, Others
  <1>3. agent' \in [Handhelds -> AgentState] /\ AgentStands'
    BY <1>1, <1>2, AgentMoves DEF server
  <1>4. printer' \in [Handhelds -> Printer]
    <2>1. \/ UNCHANGED printer
          \/ printer' = [printer EXCEPT ![h] = Connected(h)]
          \/ printer' = [printer EXCEPT ![h].socket = "none", ![h].shown = "ERROR"]
      BY DEF Poll, EnsureConnected, CannotConnect, Answered, GivesUpWaiting
    <2>2. Connected(h) \in Printer
      BY DEF Connected, Printer
    <2>3. [printer[h] EXCEPT !.socket = "none", !.shown = "ERROR"] \in Printer
      <3>1. printer[h] \in Printer
        BY DEF TypeInv, TypeOK
      <3> QED
        BY <3>1 DEF Printer
    <2> QED
      BY <2>1, <2>2, <2>3 DEF TypeInv, TypeOK
  <1>5. lost' \in 0 .. MaxLost
    BY PrintAssumption DEF TypeInv, TypeOK, Poll, EnsureConnected, CannotConnect, Answered,
                           GivesUpWaiting, Lose, Others
  <1> QED
    BY <1>2, <1>3, <1>4, <1>5, DeviceTyped DEF TypeInv, TypeOK, Place

LEMMA StartCopyTyped ==
    ASSUME TypeInv, NEW h \in Handhelds, StartCopy(h)
    PROVE  TypeInv'
  <1> DEFINE a == [agent[h] EXCEPT !.at = "printing"]
             p == [at |-> "check", label |-> <<Current(h), agent[h].copy>>]
  <1>1. /\ agent[h] # Idle /\ agent[h].copy \in 1 .. MaxCopies
        /\ agent[h] \in [at : {"copy", "printing"}, todo : SUBSET Jobs, copy : 1 .. MaxCopies]
    BY AgentFields DEF TypeInv, TypeOK, StartCopy, Idle
  <1>2. /\ a \in AgentState /\ a.at = "printing" /\ a.todo = agent[h].todo
        /\ a.copy = agent[h].copy
    BY <1>1 DEF AgentState
  <1>3. Current(h) \in Jobs
    BY <1>1, CurrentJob
  <1>4. p \in Place
    BY <1>1, <1>3 DEF Place, Labels, Copies
  <1>5. /\ SetAgent(h, a) /\ print' = [print EXCEPT ![h] = p]
        /\ UNCHANGED <<server, printer, known, disk, asked, sheets>> /\ Others
    BY DEF StartCopy
  <1> HIDE DEF a, p
  <1>6. agent' \in [Handhelds -> AgentState] /\ AgentStands'
    BY <1>1, <1>2, <1>5, AgentMoves DEF TypeInv, RowsStand, AgentStands, server
  <1>7. print' \in [Callers -> {Idle} \cup Place]
    BY <1>4, <1>5 DEF TypeInv, TypeOK, Place
  <1> QED
    BY <1>5, <1>6, <1>7, DeviceTyped DEF TypeInv, TypeOK, Others

LEMMA CopyDoneTyped ==
    ASSUME TypeInv, NEW h \in Handhelds, CopyDone(h)
    PROVE  TypeInv'
  <1> DEFINE report(s) == [at |-> "report", todo |-> agent[h].todo, status |-> s]
             more == [at |-> "copy", todo |-> agent[h].todo, copy |-> agent[h].copy + 1]
  <1>1. agent[h] # Idle /\ agent[h].copy \in 1 .. MaxCopies /\ agent[h].todo \in SUBSET Jobs
    BY AgentFields DEF TypeInv, CopyDone
  <1>2. \/ \E s \in Settled : SetAgent(h, report(s))
        \/ SetAgent(h, more) /\ ~LastCopy(h)
    BY DEF CopyDone, Settled
  <1>3. \A s \in Settled : report(s) \in AgentState
    BY <1>1 DEF AgentState
  <1>4. ~LastCopy(h) => more \in AgentState
    <2>1. job[Current(h)].copies \in 1 .. MaxCopies
      BY <1>1, CurrentJob
    <2>2. ~LastCopy(h) => agent[h].copy + 1 \in 1 .. MaxCopies
      BY <1>1, <2>1, PrintAssumption DEF LastCopy
    <2> QED
      BY <1>1, <2>2 DEF AgentState
  <1>5. \E a \in AgentState : SetAgent(h, a) /\ a.todo = agent[h].todo
    BY <1>2, <1>3, <1>4
  <1>6. agent' \in [Handhelds -> AgentState] /\ AgentStands'
    BY <1>1, <1>5, AgentMoves DEF TypeInv, RowsStand, AgentStands, server, CopyDone
  <1>7. print' \in [Callers -> {Idle} \cup Place]
    BY DEF TypeInv, TypeOK, Place, CopyDone
  <1> QED
    BY <1>6, <1>7, DeviceTyped DEF TypeInv, TypeOK, Others, CopyDone

LEMMA SendReportTyped ==
    ASSUME TypeInv, NEW h \in Handhelds, SendReport(h)
    PROVE  TypeInv'
  <1> DEFINE a == [agent[h] EXCEPT !.at = "await"]
             m == ReportOf(h)
  <1>1. /\ agent[h] # Idle /\ agent[h].status \in Settled
        /\ agent[h] \in [at : {"report", "await"}, todo : SUBSET Jobs, status : Settled]
    BY AgentFields DEF TypeInv, TypeOK, SendReport, Idle
  <1>2. a \in AgentState /\ a.todo = agent[h].todo
    BY <1>1 DEF AgentState
  <1>3. Current(h) \in Jobs /\ Row(Current(h))
    BY <1>1, CurrentJob
  <1>4. m \in Report /\ m.job = Current(h)
    BY <1>1, <1>3, PrintAssumption DEF Report, ReportOf
  <1>5. /\ SetAgent(h, a) /\ wire' = wire \cup {m}
        /\ UNCHANGED <<job, display, post, page, bridged, call, printer, known, disk, print, asked, sheets>>
        /\ Others
    BY DEF SendReport
  <1> HIDE DEF a, m
  <1>6. agent' \in [Handhelds -> AgentState] /\ AgentStands'
    BY <1>1, <1>2, <1>5, AgentMoves DEF TypeInv, RowsStand, AgentStands
  <1>7. JobsKept
    BY <1>5, Unmoved
  <1>8. WireStands'
    BY <1>3, <1>4, <1>5 DEF TypeInv, RowsStand, WireStands, Row
  <1>9. TypeOK'
    BY <1>4, <1>5, <1>6 DEF TypeInv, TypeOK, AgentState, Others
  <1> QED
    BY <1>5, <1>6, <1>7, <1>8, <1>9, Unmoved DEF TypeInv, RowsStand

(* The changes of a printer the device makes.                              *)
Broken(h) == printer' = [printer EXCEPT ![h].believed = FALSE, ![h].socket = "none",
                                        ![h].shown = "DISCONNECTED"]
Unreached(h) == printer' = [printer EXCEPT ![h].socket = "none", ![h].shown = "ERROR"]
Socketed(h, k) == printer' = [printer EXCEPT ![h].socket = k]
Forgot(h, saved) == printer' = [printer EXCEPT ![h] = [saved |-> saved, believed |-> FALSE,
                                                       socket |-> "none", shown |-> "DISCONNECTED"]]

LEMMA PrinterMoves ==
    ASSUME TypeInv, NEW h \in Handhelds
    PROVE  /\ \A s \in {"DISCONNECTED", "CONNECTED", "PRINTING", "ERROR"} :
                 Shown(h, s) => printer' \in [Handhelds -> Printer]
           /\ \A k \in {"none", "dead", "stale"} : Socketed(h, k) => printer' \in [Handhelds -> Printer]
           /\ Unreached(h) => printer' \in [Handhelds -> Printer]
           /\ Broken(h) => printer' \in [Handhelds -> Printer]
           /\ printer' = [printer EXCEPT ![h] = Connected(h)] => printer' \in [Handhelds -> Printer]
           /\ \A saved \in {FALSE, printer[h].saved} : Forgot(h, saved) => printer' \in [Handhelds -> Printer]
           /\ UNCHANGED printer => printer' \in [Handhelds -> Printer]
  <1>1. printer \in [Handhelds -> Printer] /\ printer[h] \in Printer
    BY DEF TypeInv, TypeOK
  <1>2. \A p \in Printer : [printer EXCEPT ![h] = p] \in [Handhelds -> Printer]
    BY <1>1
  <1>3. ASSUME NEW s \in {"DISCONNECTED", "CONNECTED", "PRINTING", "ERROR"}, Shown(h, s)
        PROVE  printer' \in [Handhelds -> Printer]
    <2>1. [printer[h] EXCEPT !.shown = s] \in Printer
      BY <1>1 DEF Printer
    <2> QED
      BY <1>1, <1>2, <1>3, <2>1 DEF Shown
  <1>4. ASSUME NEW k \in {"none", "dead", "stale"}, Socketed(h, k)
        PROVE  printer' \in [Handhelds -> Printer]
    <2>1. [printer[h] EXCEPT !.socket = k] \in Printer
      BY <1>1 DEF Printer
    <2> QED
      BY <1>1, <1>2, <1>4, <2>1 DEF Socketed
  <1>5. ASSUME Unreached(h)
        PROVE  printer' \in [Handhelds -> Printer]
    <2>1. [printer[h] EXCEPT !.socket = "none", !.shown = "ERROR"] \in Printer
      BY <1>1 DEF Printer
    <2>2. printer' = [printer EXCEPT ![h] = [printer[h] EXCEPT !.socket = "none", !.shown = "ERROR"]]
      BY <1>1, <1>5 DEF Unreached
    <2> QED
      BY <1>2, <2>1, <2>2
  <1>6. ASSUME Broken(h)
        PROVE  printer' \in [Handhelds -> Printer]
    <2> DEFINE p == [printer[h] EXCEPT !.believed = FALSE, !.socket = "none", !.shown = "DISCONNECTED"]
    <2>1. p \in Printer
      BY <1>1 DEF Printer
    <2>2. printer' = [printer EXCEPT ![h] = p]
      BY <1>1, <1>6 DEF Broken
    <2> QED
      BY <1>2, <2>1, <2>2
  <1>7. Connected(h) \in Printer
    BY DEF Connected, Printer
  <1>8. \A saved \in {FALSE, printer[h].saved} :
           [saved |-> saved, believed |-> FALSE, socket |-> "none", shown |-> "DISCONNECTED"] \in Printer
    BY <1>1 DEF Printer
  <1> QED
    BY <1>1, <1>2, <1>3, <1>4, <1>5, <1>6, <1>7, <1>8 DEF Forgot

LEMMA PrintingTyped ==
    ASSUME TypeInv, NEW c \in Callers, PrintCheck(c) \/ PrintClaim(c) \/ PrintWrite(c) \/ PrintFails(c)
    PROVE  TypeInv'
  <1> DEFINE h == On(c)
             l == print[c].label
  <1>1. h \in Handhelds /\ print[c] # Idle /\ l \in Labels
    BY DeviceOf, PrintFields DEF TypeInv, PrintCheck, PrintClaim, PrintWrite, PrintFails
  <1>2. \E at \in {"claim", "write", "ok", "failed"} : PrintAt(c, at)
    BY DEF PrintCheck, PrintClaim, PrintWrite, PrintFails
  <1>3. \/ UNCHANGED printer
        \/ \E s \in {"CONNECTED", "PRINTING", "ERROR"} : Shown(h, s)
        \/ Broken(h)
    BY DEF PrintCheck, PrintClaim, PrintWrite, PrintFails, Broken
  <1>4. UNCHANGED known \/ known' = [known EXCEPT ![h] = Remember(@, l)]
    BY DEF PrintCheck, PrintClaim, PrintWrite, PrintFails
  <1>5. UNCHANGED sheets \/ sheets' = [sheets EXCEPT ![h][l] = @ + 1]
    BY DEF PrintCheck, PrintClaim, PrintWrite, PrintFails, Sheet
  <1>6. UNCHANGED <<server, agent, disk, asked>> /\ Others
    BY DEF PrintCheck, PrintClaim, PrintWrite, PrintFails
  <1> HIDE DEF h, l
  <1>7. print' \in [Callers -> {Idle} \cup Place]
    BY <1>1, <1>2, PrintMoves
  <1>8. printer' \in [Handhelds -> Printer]
    BY <1>1, <1>3, PrinterMoves
  <1>9. /\ known' \in [Handhelds -> Seq(Labels)]
        /\ \A g \in Handhelds : Len(known'[g]) <= Window
    <2>1. known \in [Handhelds -> Seq(Labels)] /\ \A g \in Handhelds : Len(known[g]) <= Window
      BY DEF TypeInv, TypeOK
    <2>2. Remember(known[h], l) \in Seq(Labels) /\ Len(Remember(known[h], l)) <= Window
      BY <1>1, <2>1, Remembering
    <2>3. UNCHANGED known \/ known' = [known EXCEPT ![h] = Remember(known[h], l)]
      BY <1>4
    <2> QED
      BY <1>1, <2>1, <2>2, <2>3
  <1>10. sheets' \in [Handhelds -> [Labels -> Nat]]
    <2>1. sheets \in [Handhelds -> [Labels -> Nat]]
      BY DEF TypeInv, TypeOK
    <2>2. [sheets[h] EXCEPT ![l] = @ + 1] \in [Labels -> Nat]
      BY <1>1, <2>1
    <2> QED
      BY <1>1, <1>5, <2>1, <2>2
  <1>11. AgentStands'
    BY <1>6, Unmoved DEF server, TypeInv
  <1> QED
    BY <1>6, <1>7, <1>8, <1>9, <1>10, <1>11, DeviceTyped DEF TypeInv, TypeOK, AgentState, Others

LEMMA ThreadTyped ==
    ASSUME TypeInv, NEW t \in Threads,
           BridgeAnswer(t) \/ \E w \in WebLabels : BridgeRequest(t, w)
    PROVE  TypeInv'
  <1>1. print' \in [Callers -> {Idle} \cup Place]
    <2>1. \A w \in WebLabels : [at |-> "check", label |-> w] \in Place
      BY DEF Place, Labels
    <2> QED
      <3>1. \/ print' = [print EXCEPT ![t] = Idle]
            \/ \E w \in WebLabels : print' = [print EXCEPT ![t] = [at |-> "check", label |-> w]]
        BY DEF BridgeAnswer, BridgeRequest
      <3>2. print \in [Callers -> {Idle} \cup Place]
        BY DEF TypeInv, TypeOK, Place
      <3> QED
        BY <2>1, <3>1, <3>2
  <1>2. asked' \in [WebLabels -> 0 .. 2]
    <2>1. asked \in [WebLabels -> 0 .. 2]
      BY DEF TypeInv, TypeOK
    <2>2. ASSUME NEW w \in WebLabels, BridgeRequest(t, w)
          PROVE  asked' \in [WebLabels -> 0 .. 2]
      <3>1. asked[w] + 1 \in 0 .. 2 /\ asked' = [asked EXCEPT ![w] = asked[w] + 1]
        BY <2>1, <2>2 DEF BridgeRequest
      <3> QED
        BY <2>1, <3>1
    <2>3. BridgeAnswer(t) => UNCHANGED asked
      BY DEF BridgeAnswer
    <2> QED
      BY <2>1, <2>2, <2>3
  <1>3. UNCHANGED <<server, agent, printer, known, disk, sheets, lost, crashes, moves, events>>
    BY DEF BridgeAnswer, BridgeRequest, Others, Occurs
  <1>4. AgentStands'
    BY <1>3, Unmoved DEF server, TypeInv
  <1> QED
    BY <1>1, <1>2, <1>3, <1>4, DeviceTyped DEF TypeInv, TypeOK, AgentState

LEMMA TroubleTyped ==
    ASSUME TypeInv, NEW h \in Handhelds,
           LinkDrops(h) \/ OnConnectionLost(h) \/ Operator(h) \/ Flush(h) \/ Crash(h)
    PROVE  TypeInv'
  <1>1. printer' \in [Handhelds -> Printer]
    <2>1. CASE LinkDrops(h) \/ OnConnectionLost(h)
      <3>1. Socketed(h, "dead") \/ Socketed(h, "stale") \/ Broken(h)
        BY <2>1 DEF LinkDrops, OnConnectionLost, Socketed, Broken
      <3> QED
        BY <3>1, PrinterMoves
    <2>2. CASE Operator(h)
      <3>1. \/ Shown(h, "DISCONNECTED") \/ Unreached(h)
            \/ printer' = [printer EXCEPT ![h] = Connected(h)]
            \/ \E saved \in {FALSE, printer[h].saved} : Forgot(h, saved)
        BY <2>2 DEF Operator, Unreached, Forgot
      <3> QED
        BY <3>1, PrinterMoves
    <2>3. CASE Flush(h) \/ Crash(h)
      <3>1. UNCHANGED printer \/ Broken(h)
        BY <2>3 DEF Flush, Crash, Broken
      <3> QED
        BY <3>1, PrinterMoves
    <2> QED
      BY <2>1, <2>2, <2>3
  <1>2. agent' \in [Handhelds -> AgentState] /\ AgentStands'
    <2>1. UNCHANGED job
      BY DEF LinkDrops, OnConnectionLost, Operator, Flush, Crash, server
    <2>2. CASE UNCHANGED agent
      BY <2>1, <2>2, Unmoved DEF TypeInv, TypeOK, AgentState
    <2>3. CASE SetAgent(h, Idle)
      BY <2>1, <2>3, AgentMoves DEF AgentState
    <2> QED
      BY <2>2, <2>3 DEF LinkDrops, OnConnectionLost, Operator, Flush, Crash
  <1>3. /\ known' \in [Handhelds -> Seq(Labels)] /\ disk' \in [Handhelds -> Seq(Labels)]
        /\ \A g \in Handhelds : Len(known'[g]) <= Window /\ Len(disk'[g]) <= Window
    <2>1. /\ UNCHANGED known \/ known' = [known EXCEPT ![h] = disk[h]]
          /\ UNCHANGED disk \/ disk' = [disk EXCEPT ![h] = known[h]]
      BY DEF LinkDrops, OnConnectionLost, Operator, Flush, Crash
    <2>2. /\ known \in [Handhelds -> Seq(Labels)] /\ disk \in [Handhelds -> Seq(Labels)]
          /\ \A g \in Handhelds : Len(known[g]) <= Window /\ Len(disk[g]) <= Window
      BY DEF TypeInv, TypeOK
    <2>3. /\ known' \in [Handhelds -> Seq(Labels)]
          /\ \A g \in Handhelds : known'[g] = known[g] \/ known'[g] = disk[g]
      BY <2>1, <2>2
    <2>4. /\ disk' \in [Handhelds -> Seq(Labels)]
          /\ \A g \in Handhelds : disk'[g] = disk[g] \/ disk'[g] = known[g]
      BY <2>1, <2>2
    <2> QED
      BY <2>2, <2>3, <2>4
  <1>4. print' \in [Callers -> {Idle} \cup Place]
    BY DEF LinkDrops, OnConnectionLost, Operator, Flush, Crash, TypeInv, TypeOK, Place
  <1>5. crashes' \in 0 .. MaxCrashes
    BY PrintAssumption DEF LinkDrops, OnConnectionLost, Operator, Flush, Crash, Others, TypeInv, TypeOK
  <1>6. UNCHANGED <<server, asked, sheets, lost, moves, events>>
    BY DEF LinkDrops, OnConnectionLost, Operator, Flush, Crash, Occurs, Others
  <1> QED
    BY <1>1, <1>2, <1>3, <1>4, <1>5, <1>6, DeviceTyped DEF TypeInv, TypeOK

LEMMA InitTyped == Init => TypeInv
  <1> SUFFICES ASSUME Init
               PROVE  TypeInv
    OBVIOUS
  <1>1. TypeOK
    <2>1. <<>> \in Seq(Labels) /\ Len(<<>>) = 0
      BY EmptySeq
    <2>2. /\ known \in [Handhelds -> Seq(Labels)] /\ disk \in [Handhelds -> Seq(Labels)]
          /\ \A h \in Handhelds : Len(known[h]) <= Window /\ Len(disk[h]) <= Window
      BY <2>1, PrintAssumption DEF Init
    <2>3. printer \in [Handhelds -> Printer] /\ sheets \in [Handhelds -> [Labels -> Nat]]
      BY DEF Init, Printer
    <2>4. display \in [Displays -> [station : Stations, open : BOOLEAN]]
      BY DEF Init
    <2>5. post \in [Stations -> Workers \cup {None}]
      BY PrintAssumption DEF Init
    <2>6. /\ job \in [Jobs -> Job \cup {NoRow}]
          /\ print \in [Callers -> {Idle} \cup Place]
          /\ agent \in [Handhelds -> AgentState]
          /\ asked \in [WebLabels -> 0 .. 2]
          /\ wire \subseteq Report
          /\ bridged \in [Displays -> SUBSET Jobs]
          /\ events \in Workloads
      BY DEF Init, AgentState
    <2>7. lost \in 0 .. MaxLost /\ crashes \in 0 .. MaxCrashes /\ moves \in 0 .. MaxMoves
      BY PrintAssumption DEF Init
    <2>8. /\ page = [d \in Displays |-> Idle]
          /\ call = [r \in Calls |-> Idle]
      BY DEF Init
    <2> QED
      BY <2>2, <2>3, <2>4, <2>5, <2>6, <2>7, <2>8 DEF TypeOK, AgentState, Place
  <1>2. RowsStand
    BY DEF Init, RowsStand, PageStands, BridgeStands, WireStands, CallStands, AgentStands, Idle
  <1> QED
    BY <1>1, <1>2 DEF TypeInv

LEMMA NextTyped == TypeInv /\ [Next]_vars => TypeInv'
  <1> SUFFICES ASSUME TypeInv, [Next]_vars
               PROVE  TypeInv'
    OBVIOUS
  <1>1. CASE UNCHANGED vars
    BY <1>1 DEF TypeInv, TypeOK, RowsStand, PageStands, BridgeStands, WireStands, CallStands,
                AgentStands, Row, vars, server, device
  <1>2. CASE Next
    BY <1>2, RequestLabelTyped, PageTyped, ClaimTyped, MarkTyped, BridgeReportsTyped, AdminTyped,
       ReceiveTyped, SettleTyped, AgentTyped, StartCopyTyped, CopyDoneTyped, SendReportTyped,
       PrintingTyped, ThreadTyped, TroubleTyped DEF Next, Server, Agent, Printing
  <1> QED
    BY <1>1, <1>2

(* The variables of the print queue keep their types in every behaviour:   *)
(* the window of a handheld never outgrows Window, copies are counted      *)
(* within the copies of the job, and nobody works on a job that is not     *)
(* there.                                                                  *)
THEOREM PrintTypeCorrect == Spec => [](TypeOK /\ RowsStand)
  <1>1. Spec => []TypeInv
    BY InitTyped, NextTyped, PTL DEF Spec
  <1> QED
    BY <1>1, PTL DEF TypeInv

-----------------------------------------------------------------------------
(* THE LEDGER                                                              *)

Writers(h, l) == {c \in Callers : On(c) = h /\ print[c].at = "write" /\ print[c].label = l}
Entry == Handhelds \X Labels
Held == [e \in Entry |-> Knows(e[1], e[2])]
Due == [e \in Entry |-> Cardinality(Writers(e[1], e[2]))]
Count == [e \in Entry |-> sheets[e[1]][e[2]]]

LEMMA WritersFinite ==
    ASSUME NEW h, NEW l
    PROVE  IsFiniteSet(Writers(h, l)) /\ Cardinality(Writers(h, l)) \in Nat
  <1>1. IsFiniteSet(Callers)
    BY PrintAssumption DEF Callers
  <1>2. IsFiniteSet(Writers(h, l))
    BY <1>1, FS_Subset DEF Writers
  <1> QED
    BY <1>2, FS_CardinalityType

(* Whatever does not touch what is known, what came out and who is about   *)
(* to write, the ledger does not see.                                      *)
LEMMA OutOfSight ==
    ASSUME UNCHANGED <<known, sheets>>,
           \A c \in Callers : /\ print'[c].at = "write" <=> print[c].at = "write"
                              /\ print[c].at = "write" => print'[c].label = print[c].label
    PROVE  UNCHANGED Ledger!vars
  <1>1. UNCHANGED Held /\ UNCHANGED Count
    BY DEF Held, Count, Knows
  <1>2. \A h, l : Writers(h, l)' = Writers(h, l)
    BY DEF Writers
  <1>3. UNCHANGED Due
    BY <1>2 DEF Due
  <1> QED
    BY <1>1, <1>3 DEF Ledger!vars, Held, Due, Count, Writers, Entry

LEMMA LedgerInit == Init => Ledger!Init
  <1> SUFFICES ASSUME Init
               PROVE  Ledger!Init
    OBVIOUS
  <1>1. \A e \in Entry : ~Knows(e[1], e[2])
    <2>1. \A e \in Entry : known[e[1]] = <<>>
      BY DEF Init, Entry
    <2> QED
      BY <2>1 DEF Knows
  <1>2. \A e \in Entry : Cardinality(Writers(e[1], e[2])) = 0
    <2>1. \A e \in Entry : Writers(e[1], e[2]) = {}
      BY DEF Init, Writers, Idle
    <2> QED
      BY <2>1, FS_EmptySet
  <1>3. \A e \in Entry : sheets[e[1]][e[2]] = 0
    BY DEF Init, Entry
  <1>4. Held = [e \in Entry |-> FALSE]
    <2>1. \A e \in Entry : Knows(e[1], e[2]) = FALSE
      BY <1>1 DEF Knows
    <2> QED
      BY <2>1 DEF Held
  <1>5. Due = [e \in Entry |-> 0]
    BY <1>2 DEF Due
  <1>6. Count = [e \in Entry |-> 0]
    BY <1>3 DEF Count
  <1> QED
    BY <1>4, <1>5, <1>6 DEF Ledger!Init, Held, Due, Count, Entry, Writers

(* Looking a label up and remembering it is Hold.                          *)
LEMMA ClaimHolds ==
    ASSUME TypeInv, NEW c \in Callers, PrintClaim(c),
           NEW h \in Handhelds, h = On(c), NEW l \in Labels, l = print[c].label,
           ~Taken(h, l)
    PROVE  Ledger!Hold(<<h, l>>)
  <1> DEFINE e == <<h, l>>
  <1>1. e \in Entry /\ print[c] # Idle
    BY PrintFields DEF TypeInv, PrintClaim, Entry
  <1>2. /\ known' = [known EXCEPT ![h] = Remember(@, l)]
        /\ PrintAt(c, "write") /\ UNCHANGED sheets
        /\ print[c].at = "claim" /\ ~Knows(h, l)
    BY DEF PrintClaim, Taken
  <1>3. /\ known'[h] = Remember(known[h], l)
        /\ \A g \in Handhelds \ {h} : known'[g] = known[g]
    BY <1>1, <1>2 DEF TypeInv, TypeOK
  <1>4. /\ Holds(known'[h], l)
        /\ \A k : Holds(known'[h], k) => k = l \/ Holds(known[h], k)
        /\ \A k : Holds(known[h], k) => Holds(known'[h], k) \/ k = known[h][1]
    <2>1. known[h] \in Seq(Labels) /\ Len(known[h]) <= Window
      BY <1>1 DEF TypeInv, TypeOK
    <2> QED
      BY <1>1, <1>3, <2>1, Remembering
  <1>5. \A g, k : (Knows(g, k) <=> Holds(known[g], k)) /\ ((Knows(g, k))' <=> Holds(known'[g], k))
    BY DEF Knows, Holds
  <1>6. ~Held[e] /\ Held'[e]
    <2>1. (Knows(h, l))'
      BY <1>4, <1>5
    <2> QED
      BY <1>1, <1>2, <2>1 DEF Held
  <1>7. \A d \in Entry \ {e} : Held'[d] => Held[d]
    <2>1. ASSUME NEW d \in Entry \ {e}, (Knows(d[1], d[2]))'
          PROVE  Knows(d[1], d[2])
      <3>1. CASE d[1] = h
        <4>1. d[2] # l
          BY <3>1 DEF Entry
        <4> QED
          BY <1>4, <1>5, <2>1, <3>1, <4>1
      <3>2. CASE d[1] # h
        BY <1>3, <1>5, <2>1, <3>2 DEF Entry
      <3> QED
        BY <3>1, <3>2
    <2> QED
      BY <2>1 DEF Held
  <1>8. ASSUME NEW d \in Entry, Held[d], ~Held'[d],
               NEW g \in Entry, Held[g], ~Held'[g]
        PROVE  d = g
    <2>1. ASSUME NEW f \in Entry, Knows(f[1], f[2]), ~(Knows(f[1], f[2]))'
          PROVE  f = <<h, known[h][1]>>
      <3>1. f[1] = h
        BY <1>3, <1>5, <2>1 DEF Entry
      <3>2. f[2] = known[h][1]
        BY <1>4, <1>5, <2>1, <3>1
      <3> QED
        BY <3>1, <3>2 DEF Entry
    <2> QED
      BY <1>8, <2>1 DEF Held
  <1>9. /\ Due'[e] = Due[e] + 1
        /\ \A d \in Entry \ {e} : Due'[d] = Due[d]
    <2>1. /\ print'[c].at = "write" /\ print'[c].label = l
          /\ \A b \in Callers \ {c} : print'[b] = print[b]
      BY <1>1, <1>2, PrintMoves
    <2>2. c \notin Writers(h, l) /\ (Writers(h, l))' = Writers(h, l) \cup {c}
      BY <1>2, <2>1 DEF Writers
    <2>3. Cardinality((Writers(h, l))') = Cardinality(Writers(h, l)) + 1
      <3>1. Cardinality(Writers(h, l) \cup {c}) = Cardinality(Writers(h, l)) + 1
        BY <2>2, WritersFinite, FS_AddElement
      <3> QED
        BY <2>2, <3>1
    <2>4. ASSUME NEW d \in Entry \ {e}
          PROVE  (Writers(d[1], d[2]))' = Writers(d[1], d[2])
      <3>1. d[1] # h \/ d[2] # l
        BY DEF Entry
      <3> QED
        BY <1>2, <2>1, <3>1 DEF Writers
    <2> QED
      BY <1>1, <2>3, <2>4 DEF Due
  <1>10. UNCHANGED Count
    BY <1>2 DEF Count
  <1> QED
    BY <1>6, <1>7, <1>8, <1>9, <1>10
       DEF Ledger!Hold, Ledger!Drops, Ledger!Except, Held, Due, Count, Entry, Writers

(* Writing the label, or failing to, is Emit or GiveUp.                    *)
LEMMA WriteLeaves ==
    ASSUME TypeInv, NEW c \in Callers, print[c].at = "write",
           NEW h \in Handhelds, h = On(c), NEW l \in Labels, l = print[c].label,
           NEW at \in {"ok", "failed"}, PrintAt(c, at), UNCHANGED known
    PROVE  /\ UNCHANGED sheets => Ledger!GiveUp(<<h, l>>)
           /\ Sheet(h, l) => Ledger!Emit(<<h, l>>)
  <1> DEFINE e == <<h, l>>
  <1>1. e \in Entry /\ print[c] # Idle
    BY PrintFields DEF TypeInv, Entry
  <1>2. /\ print'[c].at = at /\ \A b \in Callers \ {c} : print'[b] = print[b]
    BY <1>1, PrintMoves
  <1>3. Due[e] > 0 /\ Due'[e] = Due[e] - 1
    <2>1. c \in Writers(h, l) /\ (Writers(h, l))' = Writers(h, l) \ {c}
      BY <1>2 DEF Writers
    <2>2. Cardinality(Writers(h, l) \ {c}) = Cardinality(Writers(h, l)) - 1
      BY ZenonT(40), <2>1, WritersFinite, FS_RemoveElement
    <2>3. Cardinality(Writers(h, l) \ {c}) \in Nat
      <3>1. IsFiniteSet(Writers(h, l) \ {c})
        BY WritersFinite, FS_RemoveElement
      <3> QED
        BY <3>1, FS_CardinalityType
    <2>4. Due[e] = Cardinality(Writers(h, l)) /\ Due'[e] = Cardinality((Writers(h, l))')
      BY <1>1 DEF Due
    <2> QED
      BY <2>1, <2>2, <2>3, <2>4, WritersFinite
  <1>4. \A d \in Entry \ {e} : Due'[d] = Due[d]
    <2>1. ASSUME NEW d \in Entry \ {e}
          PROVE  (Writers(d[1], d[2]))' = Writers(d[1], d[2])
      <3>1. d[1] # h \/ d[2] # l
        BY DEF Entry
      <3> QED
        BY <1>2, <3>1 DEF Writers
    <2> QED
      BY <2>1 DEF Due
  <1>5. UNCHANGED Held
    BY DEF Held, Knows
  <1>6. ASSUME UNCHANGED sheets
        PROVE  Ledger!GiveUp(e)
    <2>1. UNCHANGED Count
      BY <1>6 DEF Count
    <2> QED
      BY <1>3, <1>4, <1>5, <2>1
         DEF Ledger!GiveUp, Ledger!Leave, Ledger!Except, Held, Due, Count, Entry, Writers
  <1>7. ASSUME Sheet(h, l)
        PROVE  Ledger!Emit(e)
    <2>1. /\ sheets'[h][l] = sheets[h][l] + 1
          /\ \A g \in Handhelds, k \in Labels : <<g, k>> # e => sheets'[g][k] = sheets[g][k]
      BY <1>7 DEF Sheet, TypeInv, TypeOK
    <2>2. Count'[e] = Count[e] + 1
      BY <1>1, <2>1 DEF Count
    <2>3. \A d \in Entry \ {e} : Count'[d] = Count[d]
      BY <2>1 DEF Count, Entry
    <2> QED
      BY <1>3, <1>4, <1>5, <2>2, <2>3
         DEF Ledger!Emit, Ledger!Leave, Ledger!Except, Held, Due, Count, Entry, Writers
  <1> QED
    BY <1>6, <1>7

(* The restart of the application is Restart.                              *)
LEMMA CrashRestarts ==
    ASSUME TypeInv, NEW h \in Handhelds, Crash(h)
    PROVE  Ledger!Restart
  <1>1. UNCHANGED Count
    BY DEF Count, Crash
  <1>2. \A e \in Entry : Due'[e] \in {0, Due[e]}
    <2>1. ASSUME NEW e \in Entry
          PROVE  (Writers(e[1], e[2]))' \in {{}, Writers(e[1], e[2])}
      <3>1. \A c \in Callers : print'[c] = IF On(c) = h THEN Idle ELSE print[c]
        BY DEF Crash
      <3>2. Idle.at # "write"
        BY DEF Idle
      <3>3. CASE e[1] = h
        BY <3>1, <3>2, <3>3 DEF Writers
      <3>4. CASE e[1] # h
        BY <3>1, <3>4 DEF Writers
      <3> QED
        BY <3>3, <3>4
    <2>2. Cardinality({}) = 0
      BY FS_EmptySet
    <2>3. ASSUME NEW e \in Entry
          PROVE  Due[e] = Cardinality(Writers(e[1], e[2])) /\ Due'[e] = Cardinality((Writers(e[1], e[2]))')
      BY DEF Due
    <2> QED
      BY <2>1, <2>2, <2>3
  <1>3. \A e \in Entry : Held'[e] \in BOOLEAN
    <2>1. \A e \in Entry : (Knows(e[1], e[2]))' \in BOOLEAN
      BY DEF Knows
    <2> QED
      BY <2>1 DEF Held
  <1> QED
    BY <1>1, <1>2, <1>3 DEF Ledger!Restart, Held, Due, Count, Entry, Writers

(* The steps of the displays and of the server do not touch the device.    *)
AtTheServer ==
    \/ \E d \in Displays :
          \/ \E n \in 1 .. MaxCopies : RequestLabel(d, n)
          \/ PagePrints(d) \/ PageLeaves(d) \/ PageReports(d)
          \/ \E r \in Calls : ClaimPrintJobs(r, d)
          \/ \E j \in Jobs, s \in Settled : BridgeReports(d, j, s)
          \/ \E s \in Stations, open \in BOOLEAN : SetDisplay(d, s, open)
    \/ \E s \in Stations, w \in Workers \cup {None} : Assign(s, w)
    \/ \E r \in Calls : Server(r)
    \/ \E m \in wire : LoseReport(m)

LEMMA ServerSteps == AtTheServer => UNCHANGED device
  BY DEF AtTheServer, RequestLabel, PagePrints, PageLeaves, PageReports, ClaimPrintJobs, BridgeReports,
         SetDisplay, Assign, Server, ReceiveReport, SettleJob, MarkClaimed, LoseReport

LEMMA LedgerStep == TypeInv /\ [Next]_vars => [Ledger!Next]_(Ledger!vars)
  <1> SUFFICES ASSUME TypeInv, [Next]_vars
               PROVE  Ledger!Next \/ UNCHANGED Ledger!vars
    OBVIOUS
  <1>1. ASSUME UNCHANGED <<known, print, sheets>>
        PROVE  UNCHANGED Ledger!vars
    BY <1>1, OutOfSight
  <1>2. ASSUME NEW h \in Handhelds, StartCopy(h) \/ CopyDone(h)
        PROVE  UNCHANGED Ledger!vars
    <2>1. UNCHANGED <<known, sheets>> /\ print[h].at # "write"
      BY <1>2 DEF StartCopy, CopyDone, Idle
    <2>2. /\ print'[h].at # "write"
          /\ \A c \in Callers \ {h} : print'[c] = print[c]
      <3>1. h \in Callers
        BY DEF Callers
      <3> QED
        BY <1>2, <3>1 DEF StartCopy, CopyDone, Idle, TypeInv, TypeOK
    <2> QED
      BY <2>1, <2>2, OutOfSight
  <1>3. ASSUME NEW t \in Threads, BridgeAnswer(t) \/ \E w \in WebLabels : BridgeRequest(t, w)
        PROVE  UNCHANGED Ledger!vars
    <2>1. UNCHANGED <<known, sheets>> /\ print[t].at # "write"
      BY <1>3 DEF BridgeAnswer, BridgeRequest, Idle
    <2>2. /\ print'[t].at # "write"
          /\ \A c \in Callers \ {t} : print'[c] = print[c]
      <3>1. t \in Callers
        BY DEF Callers
      <3> QED
        BY <1>3, <3>1 DEF BridgeAnswer, BridgeRequest, Idle, TypeInv, TypeOK
    <2> QED
      BY <2>1, <2>2, OutOfSight
  <1>4. ASSUME NEW c \in Callers, Printing(c)
        PROVE  Ledger!Next \/ UNCHANGED Ledger!vars
    <2>1. PICK h \in Handhelds : h = On(c)
      BY DeviceOf
    <2>2. print[c] # Idle
      BY <1>4 DEF Printing, PrintCheck, PrintClaim, PrintWrite, PrintFails, Idle
    <2>3. PICK l \in Labels : l = print[c].label
      BY <2>2, PrintFields DEF TypeInv
    <2>4. <<h, l>> \in Handhelds \X Labels
      OBVIOUS
    <2>5. CASE PrintClaim(c) /\ ~Taken(h, l)
      BY <2>1, <2>3, <2>4, <2>5, ClaimHolds DEF Ledger!Next
    <2>6. CASE PrintWrite(c) \/ PrintFails(c)
      <3>1. PICK at \in {"ok", "failed"} :
               /\ print[c].at = "write" /\ PrintAt(c, at) /\ UNCHANGED known
               /\ UNCHANGED sheets \/ Sheet(h, l)
        BY <2>1, <2>3, <2>6 DEF PrintWrite, PrintFails
      <3> QED
        BY <2>1, <2>3, <2>4, <3>1, WriteLeaves DEF Ledger!Next
    <2>7. CASE PrintCheck(c) \/ (PrintClaim(c) /\ Taken(h, l))
      <3>1. PICK at \in {"claim", "ok", "failed"} : PrintAt(c, at)
        BY <2>1, <2>3, <2>7 DEF PrintCheck, PrintClaim
      <3>2. UNCHANGED <<known, sheets>> /\ print[c].at # "write"
        BY <2>1, <2>3, <2>7 DEF PrintCheck, PrintClaim
      <3>3. print'[c].at = at /\ \A b \in Callers \ {c} : print'[b] = print[b]
        BY <2>2, <3>1, PrintMoves
      <3> QED
        BY <3>2, <3>3, OutOfSight
    <2> QED
      BY <1>4, <2>5, <2>6, <2>7 DEF Printing
  <1>5. ASSUME NEW h \in Handhelds,
               \/ Poll(h) \/ EnsureConnected(h) \/ SendReport(h) \/ Answered(h) \/ CannotConnect(h)
               \/ GivesUpWaiting(h) \/ LinkDrops(h) \/ OnConnectionLost(h) \/ Operator(h) \/ Flush(h)
        PROVE  UNCHANGED <<known, print, sheets>>
    BY <1>5 DEF Poll, EnsureConnected, SendReport, Answered, CannotConnect, GivesUpWaiting,
                LinkDrops, OnConnectionLost, Operator, Flush
  <1>6. ASSUME NEW h \in Handhelds, Crash(h)
        PROVE  Ledger!Next
    BY <1>6, CrashRestarts DEF Ledger!Next
  <1>7. AtTheServer => UNCHANGED device
    BY ServerSteps
  <1>8. UNCHANGED device \/ UNCHANGED vars => UNCHANGED <<known, print, sheets>>
    BY DEF device, vars
  <1> QED
    BY <1>1, <1>2, <1>3, <1>4, <1>5, <1>6, <1>7, <1>8 DEF Next, Agent, AtTheServer

(* The printer of a handheld keeps the promise of the ledger, for any      *)
(* number of threads and labels and any capacity of the window: a label    *)
(* comes out only under a claim, and a second time only after the handheld *)
(* has forgotten it (PrintQueue.kt:64-75, JobIdWindow.kt:33-46).           *)
THEOREM PrinterKeepsLedger == Spec => LedgerKept
  <1>1. Spec => []TypeInv
    BY InitTyped, NextTyped, PTL DEF Spec
  <1> QED
    BY <1>1, LedgerInit, LedgerStep, PTL DEF Spec, LedgerKept, Ledger!Spec

-----------------------------------------------------------------------------
(* WHAT IS REPORTED AS PRINTED IS ON PAPER                                 *)

(* Nothing breaks: no link, no application, and nobody at the printer.     *)
Quiet == events \cap {"faults", "operator", "crash"} = {}

Out(h, l) == sheets[h][l] > 0
AllOut(h, j) == \A n \in 1 .. job[j].copies : Out(h, <<j, n>>)
OnSheets(j) == \E h \in Handhelds : AllOut(h, j)

(* A link is open exactly when the manager believes so, and a call that    *)
(* has passed the check of the link still has it.                          *)
LinkSound ==
    \A h \in Handhelds : /\ printer[h].socket \in {"none", "open"}
                         /\ printer[h].believed <=> printer[h].socket = "open"
CallLinked == \A c \in Callers : print[c].at \in {"claim", "write"} => printer[On(c)].socket = "open"

(* The agent's own call prints the copy the agent is at, the threads never *)
(* print a copy of a job.                                                  *)
CallIsAgents ==
    \A h \in Handhelds :
       print[h] # Idle => agent[h].at = "printing" /\ print[h].label = <<Current(h), agent[h].copy>>
CallIsThreads == \A t \in Threads : print[t] # Idle => print[t].label \in WebLabels

(* From the claim to the report: a copy that is known is out, or is being  *)
(* written by the agent.                                                   *)
KnownIsOut ==
    \A h \in Handhelds, l \in Copies :
       Knows(h, l) => Out(h, l) \/ (print[h].at = "write" /\ print[h].label = l)
OkIsOut == \A h \in Handhelds : print[h].at = "ok" => Out(h, print[h].label)
CopiesOut ==
    \A h \in Handhelds :
       agent[h].at \in {"copy", "printing"} =>
          \A n \in 1 .. agent[h].copy - 1 : Out(h, <<Current(h), n>>)
AgentTrue ==
    \A h \in Handhelds :
       agent[h].at \in {"report", "await"} /\ agent[h].status = "PRINTED" => AllOut(h, Current(h))
WireTrue == \A m \in wire : m.status = "PRINTED" => OnSheets(m.job)
CallTrue ==
    \A r \in Calls :
       call[r].at = "settle" /\ call[r].report.status = "PRINTED" => OnSheets(call[r].report.job)

PaperParts ==
    /\ LinkSound /\ CallLinked /\ CallIsAgents /\ CallIsThreads
    /\ KnownIsOut /\ OkIsOut /\ CopiesOut /\ AgentTrue /\ WireTrue /\ CallTrue
    /\ OnPaper
PaperInv == Quiet => PaperParts

(* Sheets stay out, and a job keeps its copies.                            *)
LEMMA SheetsStay ==
    ASSUME TypeInv, [Next]_vars
    PROVE  /\ \A h \in Handhelds, l \in Labels : Out(h, l) => (Out(h, l))'
           /\ JobsKept
  <1>1. UNCHANGED sheets \/ \E h \in Handhelds, l \in Labels : Sheet(h, l)
    <2>1. ASSUME NEW c \in Callers, Printing(c)
          PROVE  UNCHANGED sheets \/ \E h \in Handhelds, l \in Labels : Sheet(h, l)
      <3>1. On(c) \in Handhelds /\ print[c].label \in Labels
        BY <2>1, DeviceOf, PrintFields
           DEF TypeInv, Printing, PrintCheck, PrintClaim, PrintWrite, PrintFails, Idle
      <3> QED
        BY <2>1, <3>1 DEF Printing, PrintCheck, PrintClaim, PrintWrite, PrintFails
    <2>2. ASSUME NEW h \in Handhelds,
                 \/ Agent(h) \/ CannotConnect(h) \/ GivesUpWaiting(h)
                 \/ LinkDrops(h) \/ OnConnectionLost(h) \/ Operator(h) \/ Flush(h) \/ Crash(h)
          PROVE  UNCHANGED sheets
      BY <2>2 DEF Agent, Poll, EnsureConnected, StartCopy, CopyDone, SendReport, Answered, CannotConnect,
                  GivesUpWaiting, LinkDrops, OnConnectionLost, Operator, Flush, Crash
    <2>3. ASSUME NEW t \in Threads, BridgeAnswer(t) \/ \E w \in WebLabels : BridgeRequest(t, w)
          PROVE  UNCHANGED sheets
      BY <2>3 DEF BridgeAnswer, BridgeRequest
    <2>4. ASSUME AtTheServer \/ UNCHANGED vars
          PROVE  UNCHANGED sheets
      BY <2>4, ServerSteps DEF vars, device
    <2> QED
      BY <2>1, <2>2, <2>3, <2>4 DEF Next, AtTheServer
  <1>2. \A h \in Handhelds, l \in Labels : Out(h, l) => (Out(h, l))'
    <2>1. sheets \in [Handhelds -> [Labels -> Nat]]
      BY DEF TypeInv, TypeOK
    <2>2. \A h \in Handhelds, l \in Labels :
             sheets'[h][l] = sheets[h][l] \/ sheets'[h][l] = sheets[h][l] + 1
      BY <1>1, <2>1 DEF Sheet
    <2> QED
      BY <2>1, <2>2 DEF Out
  <1>3. JobsKept
    <2>1. CASE UNCHANGED job
      BY <2>1, Unmoved
    <2>2. CASE ~(UNCHANGED job)
      <3>1. \/ \E d \in Displays :
                  \/ \E n \in 1 .. MaxCopies : RequestLabel(d, n)
                  \/ PagePrints(d) \/ PageLeaves(d) \/ PageReports(d)
                  \/ \E j \in Jobs, s \in Settled : BridgeReports(d, j, s)
            \/ \E r \in Calls : SettleJob(r) \/ MarkClaimed(r)
        BY <2>2 DEF Next, vars, server, Agent, Printing, Server, Poll, EnsureConnected, StartCopy,
                    CopyDone, SendReport, Answered, CannotConnect, GivesUpWaiting, LinkDrops,
                    OnConnectionLost, Operator, Flush, Crash, BridgeAnswer, BridgeRequest, PrintCheck,
                    PrintClaim, PrintWrite, PrintFails, ClaimPrintJobs, SetDisplay, Assign,
                    ReceiveReport, LoseReport
      <3> QED
        BY <3>1, RequestLabelTyped, PageTyped, BridgeReportsTyped, SettleTyped, MarkTyped
    <2> QED
      BY <2>1, <2>2
  <1> QED
    BY <1>2, <1>3

LEMMA AllStaysOut ==
    ASSUME TypeInv, [Next]_vars, NEW h \in Handhelds, NEW j \in Jobs, Row(j), AllOut(h, j)
    PROVE  \A n \in 1 .. job'[j].copies : sheets'[h][<<j, n>>] > 0
  <1>1. job'[j].copies = job[j].copies /\ job[j].copies \in 1 .. MaxCopies
    <2>1. job[j].copies \in 1 .. MaxCopies
      BY JobRows DEF TypeInv, Job
    <2> QED
      BY <2>1, SheetsStay DEF JobsKept, SameJob
  <1>2. \A n \in 1 .. job[j].copies : <<j, n>> \in Labels
    BY <1>1, PrintAssumption DEF Labels, Copies
  <1>3. \A n \in 1 .. job[j].copies : (Out(h, <<j, n>>))'
    BY <1>2, SheetsStay DEF AllOut
  <1> QED
    BY <1>1, <1>3 DEF Out

DeviceParts ==
    /\ LinkSound /\ CallLinked /\ CallIsAgents /\ CallIsThreads
    /\ KnownIsOut /\ OkIsOut /\ CopiesOut /\ AgentTrue

(* A handheld prints for itself, a thread for the handheld it runs on.     *)
LEMMA WhoPrints ==
    /\ \A h \in Handhelds : h \in Callers /\ h \notin Threads /\ On(h) = h
    /\ \A t \in Threads : t \in Callers /\ t \notin Handhelds
    /\ \A c \in Callers : c \in Handhelds \/ c \in Threads
    /\ Copies \subseteq Labels /\ Copies \cap WebLabels = {}
  BY PrintAssumption DEF Callers, On, Copies, Labels, Jobs

LEMMA CopyOfCurrent ==
    ASSUME TypeInv, NEW h \in Handhelds, agent[h] # Idle
    PROVE  /\ \A n \in 1 .. MaxCopies : <<Current(h), n>> \in Copies
           /\ job[Current(h)].copies \in 1 .. MaxCopies
  BY CurrentJob DEF Copies

LEMMA CopiesStay ==
    ASSUME TypeInv, DeviceParts, [Next]_vars, UNCHANGED agent
    PROVE  CopiesOut' /\ AgentTrue'
  <1>1. CopiesOut'
    <2>1. ASSUME NEW h \in Handhelds, agent[h].at \in {"copy", "printing"},
                 NEW n \in 1 .. agent[h].copy - 1
          PROVE  (Out(h, <<Current(h), n>>))'
      <3>1. agent[h] # Idle /\ agent[h].copy \in 1 .. MaxCopies
        BY <2>1, AgentFields DEF TypeInv
      <3>2. n \in 1 .. MaxCopies
        BY <3>1, PrintAssumption
      <3>3. <<Current(h), n>> \in Labels
        BY <3>1, <3>2, CopyOfCurrent, WhoPrints
      <3>4. Out(h, <<Current(h), n>>)
        BY <2>1 DEF DeviceParts, CopiesOut
      <3> QED
        BY <3>3, <3>4, SheetsStay DEF Out, Current
    <2> QED
      BY <2>1 DEF CopiesOut, Out, Current
  <1>2. AgentTrue'
    <2>1. ASSUME NEW h \in Handhelds, agent[h].at \in {"report", "await"}, agent[h].status = "PRINTED"
          PROVE  (AllOut(h, Current(h)))'
      <3>1. agent[h] # Idle
        BY <2>1 DEF Idle
      <3>2. AllOut(h, Current(h))
        BY <2>1 DEF DeviceParts, AgentTrue
      <3> QED
        BY <3>1, <3>2, AllStaysOut, CurrentJob DEF Current, AllOut, Out
    <2> QED
      BY <2>1 DEF AgentTrue
  <1> QED
    BY <1>1, <1>2

(* The parts where no agent moves, no call and nothing at the printer.     *)
LEMMA StillDevice ==
    ASSUME TypeInv, DeviceParts, [Next]_vars, UNCHANGED <<agent, printer, print, known>>
    PROVE  DeviceParts'
  <1>1. LinkSound' /\ CallLinked' /\ CallIsAgents' /\ CallIsThreads'
    BY DEF DeviceParts, LinkSound, CallLinked, CallIsAgents, CallIsThreads, Current
  <1>2. KnownIsOut' /\ OkIsOut'
    <2>1. \A h \in Handhelds : print[h] # Idle => print[h].label \in Labels
      BY PrintFields, WhoPrints DEF TypeInv
    <2>2. \A h \in Handhelds : print[h].at = "ok" => print[h] # Idle
      BY DEF Idle
    <2> QED
      BY <2>1, <2>2, SheetsStay, WhoPrints DEF DeviceParts, KnownIsOut, OkIsOut, Knows
  <1> QED
    BY <1>1, <1>2, CopiesStay DEF DeviceParts

LEMMA AgentPaper ==
    ASSUME TypeInv, DeviceParts, [Next]_vars, NEW h \in Handhelds,
           Agent(h) \/ CannotConnect(h) \/ GivesUpWaiting(h)
    PROVE  DeviceParts'
  <1>1. /\ UNCHANGED <<known, sheets, job>>
        /\ \A g \in Handhelds \ {h} : agent'[g] = agent[g] /\ printer'[g] = printer[g]
        /\ \A c \in Callers \ {h} : print'[c] = print[c]
    BY WhoPrints DEF Agent, Poll, EnsureConnected, StartCopy, CopyDone, SendReport, Answered, CannotConnect,
           GivesUpWaiting, SetAgent, NextJob, server, TypeInv, TypeOK
  <1>2. /\ print[h].at \notin {"claim", "write"} \/ UNCHANGED print
        /\ print'[h].at \in {"idle", "check"} \/ UNCHANGED print
    BY WhoPrints DEF Agent, Poll, EnsureConnected, StartCopy, CopyDone, SendReport, Answered, CannotConnect,
           GivesUpWaiting, Idle, TypeInv, TypeOK
  <1>3. \/ UNCHANGED printer
        \/ printer'[h] = Connected(h)
        \/ /\ printer[h].socket = "none"
           /\ printer'[h].socket = "none" /\ printer'[h].believed = printer[h].believed
    <2>1. CASE EnsureConnected(h)
      BY <2>1 DEF EnsureConnected, TypeInv, TypeOK
    <2>2. CASE CannotConnect(h)
      <3>1. ~printer[h].believed /\ printer[h].socket = "none"
        BY <2>2 DEF CannotConnect, DeviceParts, LinkSound
      <3>2. printer[h] \in Printer
        BY DEF TypeInv, TypeOK
      <3>3. printer'[h] = [printer[h] EXCEPT !.socket = "none", !.shown = "ERROR"]
        BY <2>2 DEF CannotConnect, TypeInv, TypeOK
      <3> QED
        BY <3>1, <3>2, <3>3 DEF Printer
    <2>3. CASE ~EnsureConnected(h) /\ ~CannotConnect(h)
      BY <2>3 DEF Agent, Poll, StartCopy, CopyDone, SendReport, Answered, GivesUpWaiting
    <2> QED
      BY <2>1, <2>2, <2>3
  <1>4. LinkSound' /\ CallLinked'
    <2>1. Connected(h).socket = "open" /\ Connected(h).believed = TRUE
      BY DEF Connected
    <2>2. LinkSound'
      BY <1>1, <1>3, <2>1 DEF DeviceParts, LinkSound
    <2>3. \A c \in Callers : print'[c].at \in {"claim", "write"} => print[c].at = print'[c].at
      BY <1>1, <1>2
    <2> QED
      BY <1>1, <1>3, <2>1, <2>2, <2>3, DeviceOf DEF DeviceParts, CallLinked
  <1>5. CallIsAgents'
    <2>1. ASSUME print'[h] # Idle
          PROVE  agent'[h].at = "printing" /\ print'[h].label = <<First(agent'[h].todo), agent'[h].copy>>
      <3>1. CASE StartCopy(h)
        <4>1. agent'[h] = [agent[h] EXCEPT !.at = "printing"]
          BY <3>1 DEF StartCopy, SetAgent, TypeInv, TypeOK
        <4>2. agent[h] \in [at : {"copy", "printing"}, todo : SUBSET Jobs, copy : 1 .. MaxCopies]
          BY <3>1, AgentKinds DEF TypeInv, StartCopy
        <4>3. print'[h].label = <<First(agent[h].todo), agent[h].copy>>
          BY <3>1, WhoPrints DEF StartCopy, Current, TypeInv, TypeOK
        <4> QED
          BY <4>1, <4>2, <4>3
      <3>2. CASE CopyDone(h)
        BY <2>1, <3>2, WhoPrints DEF CopyDone, TypeInv, TypeOK
      <3>3. CASE ~StartCopy(h) /\ ~CopyDone(h)
        <4>1. agent[h].at # "printing" /\ UNCHANGED print
          BY <3>3 DEF Agent, Poll, EnsureConnected, SendReport, Answered, CannotConnect,
                      GivesUpWaiting, Idle
        <4> QED
          BY <2>1, <4>1 DEF DeviceParts, CallIsAgents
      <3> QED
        BY <3>1, <3>2, <3>3
    <2> QED
      BY <1>1, <2>1, WhoPrints DEF DeviceParts, CallIsAgents, Current
  <1>6. CallIsThreads'
    BY <1>1, WhoPrints DEF DeviceParts, CallIsThreads
  <1>7. KnownIsOut' /\ OkIsOut'
    <2>1. \A g \in Handhelds : \/ print'[g] = print[g]
                               \/ print[g].at # "write" /\ print'[g].at # "ok"
      BY <1>1, <1>2, WhoPrints
    <2> QED
      BY <1>1, <2>1 DEF DeviceParts, KnownIsOut, OkIsOut, Knows, Out
  <1>8. ASSUME agent'[h].at \in {"copy", "printing"}, NEW n \in 1 .. agent'[h].copy - 1
        PROVE  Out(h, <<First(agent'[h].todo), n>>)
    <2>1. CASE EnsureConnected(h)
      BY <1>8, <2>1 DEF EnsureConnected, SetAgent, TypeInv, TypeOK
    <2>2. CASE StartCopy(h)
      <3>1. agent'[h] = [agent[h] EXCEPT !.at = "printing"] /\ agent[h].at = "copy"
        BY <2>2 DEF StartCopy, SetAgent, TypeInv, TypeOK
      <3>2. agent[h] \in [at : {"copy", "printing"}, todo : SUBSET Jobs, copy : 1 .. MaxCopies]
        BY <2>2, AgentKinds DEF TypeInv, StartCopy
      <3>3. agent'[h].todo = agent[h].todo /\ agent'[h].copy = agent[h].copy
        BY <3>1, <3>2
      <3> QED
        BY <1>8, <3>1, <3>3 DEF DeviceParts, CopiesOut, Current
    <2>3. CASE CopyDone(h)
      <3>1. /\ agent'[h] = [at |-> "copy", todo |-> agent[h].todo, copy |-> agent[h].copy + 1]
            /\ print[h].at = "ok" /\ agent[h].at = "printing"
        BY <1>8, <2>3 DEF CopyDone, SetAgent, TypeInv, TypeOK
      <3>2. agent[h].copy \in 1 .. MaxCopies
        BY <3>1, AgentFields DEF TypeInv
      <3>3. print[h] # Idle /\ print[h].label = <<Current(h), agent[h].copy>>
        BY <3>1 DEF DeviceParts, CallIsAgents, Idle
      <3>4. Out(h, <<Current(h), agent[h].copy>>)
        BY <3>1, <3>3 DEF DeviceParts, OkIsOut
      <3>5. n \in 1 .. agent[h].copy - 1 \/ n = agent[h].copy
        BY <1>8, <3>1, <3>2
      <3> QED
        BY <3>1, <3>4, <3>5 DEF DeviceParts, CopiesOut, Current
    <2>4. CASE ~EnsureConnected(h) /\ ~StartCopy(h) /\ ~CopyDone(h)
      <3>1. \/ SetAgent(h, Idle)
            \/ \E todo \in SUBSET Jobs : SetAgent(h, [at |-> "link", todo |-> todo])
            \/ SetAgent(h, [agent[h] EXCEPT !.at = "await"]) /\ agent[h].at = "report"
        <4>1. Offered(h) \in SUBSET Jobs
          BY DEF Offered, Pending, Queued
        <4>2. Answered(h) \/ GivesUpWaiting(h) => agent[h].todo \ {Current(h)} \in SUBSET Jobs
          BY AgentFields DEF TypeInv, Answered, GivesUpWaiting
        <4> QED
          BY <2>4, <4>1, <4>2
             DEF Agent, Poll, SendReport, Answered, CannotConnect, GivesUpWaiting, NextJob
      <3>2. agent[h] \in AgentState
        BY DEF TypeInv, TypeOK, AgentState
      <3>3. agent'[h].at \in {"idle", "link", "await"}
        BY <3>1, <3>2 DEF SetAgent, TypeInv, TypeOK, Idle, AgentState
      <3> QED
        BY <1>8, <3>3
    <2> QED
      BY <2>1, <2>2, <2>3, <2>4
  <1>9. ASSUME agent'[h].at \in {"report", "await"}, agent'[h].status = "PRINTED"
        PROVE  AllOut(h, First(agent'[h].todo))
    <2>1. CASE SendReport(h)
      <3>1. agent'[h] = [agent[h] EXCEPT !.at = "await"] /\ agent[h].at = "report"
        BY <2>1 DEF SendReport, SetAgent, TypeInv, TypeOK
      <3>2. agent[h] \in [at : {"report", "await"}, todo : SUBSET Jobs, status : Settled]
        BY <2>1, AgentKinds DEF TypeInv, SendReport
      <3>3. agent'[h].todo = agent[h].todo /\ agent'[h].status = agent[h].status
        BY <3>1, <3>2
      <3> QED
        BY <1>9, <3>1, <3>3 DEF DeviceParts, AgentTrue, Current
    <2>2. CASE CopyDone(h)
      <3>1. /\ agent'[h] = [at |-> "report", todo |-> agent[h].todo, status |-> "PRINTED"]
            /\ print[h].at = "ok" /\ agent[h].at = "printing" /\ LastCopy(h)
        BY <1>9, <2>2 DEF CopyDone, SetAgent, TypeInv, TypeOK
      <3>2. /\ agent[h].copy \in 1 .. MaxCopies /\ agent[h] # Idle
            /\ job[Current(h)].copies \in 1 .. MaxCopies
        BY <3>1, AgentFields, CopyOfCurrent DEF TypeInv, Idle
      <3>3. print[h] # Idle /\ print[h].label = <<Current(h), agent[h].copy>>
        BY <3>1 DEF DeviceParts, CallIsAgents, Idle
      <3>4. Out(h, <<Current(h), agent[h].copy>>)
        BY <3>1, <3>3 DEF DeviceParts, OkIsOut
      <3>5. \A n \in 1 .. job[Current(h)].copies : n \in 1 .. agent[h].copy - 1 \/ n = agent[h].copy
        BY <3>1, <3>2, PrintAssumption DEF LastCopy
      <3>6. AllOut(h, Current(h))
        BY <3>1, <3>4, <3>5 DEF DeviceParts, CopiesOut, AllOut
      <3> QED
        BY <3>1, <3>6 DEF Current
    <2>3. CASE ~SendReport(h) /\ ~CopyDone(h)
      <3>1. agent'[h].at \in {"idle", "link", "copy", "printing"}
        <4>1. CASE StartCopy(h)
          <5>1. agent'[h] = [agent[h] EXCEPT !.at = "printing"]
            BY <4>1 DEF StartCopy, SetAgent, TypeInv, TypeOK
          <5>2. agent[h] \in AgentState /\ agent[h].at = "copy"
            BY <4>1 DEF TypeInv, TypeOK, AgentState, StartCopy
          <5> QED
            BY <5>1, <5>2 DEF AgentState, Idle
        <4>2. CASE ~StartCopy(h)
          BY <2>3, <4>2 DEF Agent, Poll, EnsureConnected, Answered, CannotConnect, GivesUpWaiting,
                            NextJob, SetAgent, TypeInv, TypeOK, Idle
        <4> QED
          BY <4>1, <4>2
      <3> QED
        BY <1>9, <3>1
    <2> QED
      BY <2>1, <2>2, <2>3
  <1>10. CopiesOut' /\ AgentTrue'
    BY <1>1, <1>8, <1>9 DEF DeviceParts, CopiesOut, AgentTrue, AllOut, Out, Current
  <1> QED
    BY <1>4, <1>5, <1>6, <1>7, <1>10 DEF DeviceParts

LEMMA ThreadPaper ==
    ASSUME TypeInv, DeviceParts, [Next]_vars, NEW t \in Threads,
           BridgeAnswer(t) \/ \E w \in WebLabels : BridgeRequest(t, w)
    PROVE  DeviceParts'
  <1>1. /\ UNCHANGED <<known, sheets, job, agent, printer>>
        /\ \A c \in Callers \ {t} : print'[c] = print[c]
        /\ print'[t].at \in {"idle", "check"} /\ (print'[t] # Idle => print'[t].label \in WebLabels)
    BY WhoPrints DEF BridgeAnswer, BridgeRequest, server, Idle, TypeInv, TypeOK
  <1>2. LinkSound' /\ CallLinked' /\ CallIsThreads'
    BY <1>1, WhoPrints DEF DeviceParts, LinkSound, CallLinked, CallIsThreads
  <1>3. \A h \in Handhelds : print'[h] = print[h]
    BY <1>1, WhoPrints
  <1>4. CallIsAgents' /\ KnownIsOut' /\ OkIsOut'
    BY <1>1, <1>3 DEF DeviceParts, CallIsAgents, KnownIsOut, OkIsOut, Knows, Out, Current
  <1>5. CopiesOut' /\ AgentTrue'
    BY <1>1 DEF DeviceParts, CopiesOut, AgentTrue, AllOut, Out, Current
  <1> QED
    BY <1>2, <1>4, <1>5 DEF DeviceParts

(* A call that prints, when no link breaks.                                *)
LEMMA PrintPaper ==
    ASSUME TypeInv, DeviceParts, [Next]_vars, Quiet, NEW c \in Callers, Printing(c)
    PROVE  DeviceParts'
  <1>1. PICK h \in Handhelds : h = On(c)
    BY DeviceOf
  <1>2. print[c] # Idle /\ print[c].label \in Labels
    BY PrintFields DEF TypeInv, Printing, PrintCheck, PrintClaim, PrintWrite, PrintFails, Idle
  <1>3. PICK l \in Labels : l = print[c].label
    BY <1>2
  <1>4. ~PrintFails(c)
    BY DEF PrintFails, DeviceParts, CallLinked, Quiet
  <1>5. PICK at \in {"claim", "write", "ok", "failed"} : PrintAt(c, at)
    BY <1>4 DEF Printing, PrintCheck, PrintClaim, PrintWrite
  <1>6. /\ print'[c].at = at /\ print'[c].label = l /\ print'[c] # Idle
        /\ \A b \in Callers \ {c} : print'[b] = print[b]
    BY <1>2, <1>3, <1>5, PrintMoves
  <1>7. \A a \in {"claim", "write", "ok", "failed"} : PrintAt(c, a) => a = at
    <2>1. \A a \in {"claim", "write", "ok", "failed"} : PrintAt(c, a) => print'[c].at = a
      BY <1>2, PrintMoves
    <2> QED
      BY <1>6, <2>1
  <1>8. UNCHANGED <<agent, job>>
    BY <1>4 DEF Printing, PrintCheck, PrintClaim, PrintWrite, server
  <1>9. \A g \in Handhelds : /\ printer'[g].socket = printer[g].socket
                             /\ printer'[g].believed = printer[g].believed
    <2>1. UNCHANGED printer \/ \E s \in {"CONNECTED", "PRINTING", "ERROR"} : Shown(h, s)
      BY <1>1, <1>4 DEF Printing, PrintCheck, PrintClaim, PrintWrite
    <2>2. printer \in [Handhelds -> Printer]
      BY DEF TypeInv, TypeOK
    <2> QED
      BY <2>1, <2>2 DEF Shown, Printer
  <1>10. at \in {"claim", "write"} => printer[h].socket = "open"
    <2>1. at = "claim" => PrintCheck(c) /\ printer[h].socket # "none"
      BY <1>1, <1>4, <1>7 DEF Printing, PrintCheck, PrintClaim, PrintWrite
    <2>2. at = "write" => PrintClaim(c)
      BY <1>4, <1>7 DEF Printing, PrintCheck, PrintClaim, PrintWrite
    <2> QED
      BY <1>1, <2>1, <2>2 DEF DeviceParts, LinkSound, CallLinked, PrintClaim
  <1>11. LinkSound' /\ CallLinked'
    BY <1>1, <1>6, <1>9, <1>10, DeviceOf DEF DeviceParts, LinkSound, CallLinked
  <1>12. CallIsAgents' /\ CallIsThreads'
    BY <1>2, <1>3, <1>6, <1>8, WhoPrints DEF DeviceParts, CallIsAgents, CallIsThreads, Current
  <1>13. KnownIsOut' /\ OkIsOut'
    <2>1. c \in Handhelds => c = h /\ l \in Copies
      <3>1. ASSUME c \in Handhelds
            PROVE  c = h /\ l \in Copies
        <4>1. c = h /\ agent[h].at = "printing" /\ l = <<Current(h), agent[h].copy>>
          BY <1>1, <1>2, <1>3, <3>1, WhoPrints DEF DeviceParts, CallIsAgents
        <4>2. agent[h] # Idle /\ agent[h].copy \in 1 .. MaxCopies
          BY <4>1, AgentFields DEF TypeInv, Idle
        <4> QED
          BY <4>1, <4>2, CopyOfCurrent
      <3> QED
        BY <3>1
    <2>2. c \notin Handhelds => l \notin Copies
      BY <1>2, <1>3, WhoPrints DEF DeviceParts, CallIsThreads
    <2>4. CASE PrintCheck(c) \/ (PrintClaim(c) /\ Taken(h, l))
      <3>1. UNCHANGED <<known, sheets>> /\ print[c].at \in {"check", "claim"}
        BY <1>1, <1>3, <2>4 DEF PrintCheck, PrintClaim
      <3>2. at # "write" /\ (at = "ok" => Knows(h, l))
        BY <1>1, <1>3, <1>7, <2>4 DEF PrintCheck, PrintClaim, Taken
      <3>3. \A g \in Handhelds : print'[g].at = "write" <=> print[g].at = "write"
        BY <1>6, <3>1, <3>2, WhoPrints
      <3>4. \A g \in Handhelds : print[g].at = "write" => print'[g] = print[g]
        BY <1>6, <3>1, WhoPrints
      <3>5. KnownIsOut'
        BY <3>1, <3>4 DEF DeviceParts, KnownIsOut, Knows, Out
      <3>6. at = "ok" /\ c \in Handhelds => Out(h, l)
        BY <2>1, <3>1, <3>2 DEF DeviceParts, KnownIsOut
      <3>7. OkIsOut'
        BY <1>6, <2>1, <3>1, <3>6, WhoPrints DEF DeviceParts, OkIsOut, Out
      <3> QED
        BY <3>5, <3>7
    <2>5. CASE PrintClaim(c) /\ ~Taken(h, l)
      <3>1. /\ known' = [known EXCEPT ![h] = Remember(@, l)] /\ UNCHANGED sheets
            /\ PrintAt(c, "write") /\ print[c].at = "claim"
        BY <1>1, <1>3, <2>5 DEF PrintClaim
      <3>2. at = "write"
        BY <1>7, <3>1
      <3>3. ASSUME NEW g \in Handhelds, NEW k \in Labels, (Knows(g, k))'
            PROVE  Knows(g, k) \/ (g = h /\ k = l)
        <4>1. known[h] \in Seq(Labels) /\ Len(known[h]) <= Window
          BY DEF TypeInv, TypeOK
        <4>2. \A m : Holds(Remember(known[h], l), m) => m = l \/ Holds(known[h], m)
          BY <4>1, Remembering
        <4>3. /\ known'[h] = Remember(known[h], l)
              /\ g # h => known'[g] = known[g]
          BY <3>1 DEF TypeInv, TypeOK
        <4>4. Holds(known'[g], k) /\ (Knows(g, k) <=> Holds(known[g], k))
          BY <3>3 DEF Knows, Holds
        <4> QED
          BY <4>2, <4>3, <4>4
      <3>4. ASSUME NEW g \in Handhelds, NEW k \in Copies, (Knows(g, k))'
            PROVE  (Out(g, k) \/ (print[g].at = "write" /\ print[g].label = k))'
        <4>1. CASE Knows(g, k)
          <5>1. Out(g, k) \/ (print[g].at = "write" /\ print[g].label = k)
            BY <4>1 DEF DeviceParts, KnownIsOut
          <5>2. print[g].at = "write" => print'[g] = print[g]
            BY <1>6, <3>1, WhoPrints
          <5> QED
            BY <3>1, <5>1, <5>2 DEF Out
        <4>2. CASE g = h /\ k = l
          <5>1. c \in Handhelds /\ c = h
            BY <2>1, <2>2, <4>2
          <5> QED
            BY <1>6, <3>2, <4>2, <5>1
        <4> QED
          BY <3>3, <3>4, <4>1, <4>2, WhoPrints
      <3>5. OkIsOut'
        BY <1>6, <2>1, <3>1, <3>2, WhoPrints DEF DeviceParts, OkIsOut, Out
      <3> QED
        BY <3>4, <3>5 DEF KnownIsOut
    <2>6. CASE PrintWrite(c)
      <3>1. /\ UNCHANGED known /\ Sheet(h, l) /\ PrintAt(c, "ok")
        BY <1>1, <1>3, <2>6 DEF PrintWrite
      <3>2. at = "ok"
        BY <1>7, <3>1
      <3>3. sheets[h][l] \in Nat /\ sheets'[h][l] = sheets[h][l] + 1
        BY <3>1 DEF Sheet, TypeInv, TypeOK
      <3>4. (Out(h, l))'
        BY <3>3 DEF Out
      <3>5. \A g \in Handhelds, k \in Labels : Out(g, k) => (Out(g, k))'
        BY SheetsStay
      <3>6. ASSUME NEW g \in Handhelds, NEW k \in Copies, (Knows(g, k))'
            PROVE  (Out(g, k) \/ (print[g].at = "write" /\ print[g].label = k))'
        <4>1. Out(g, k) \/ (print[g].at = "write" /\ print[g].label = k)
          BY <3>1, <3>6 DEF DeviceParts, KnownIsOut, Knows
        <4>2. CASE g = c
          BY <1>3, <2>1, <3>4, <3>5, <4>1, <4>2, WhoPrints
        <4>3. CASE g # c
          BY <1>6, <3>5, <4>1, <4>3, WhoPrints
        <4> QED
          BY <4>2, <4>3
      <3>7. ASSUME NEW g \in Handhelds, print'[g].at = "ok"
            PROVE  (Out(g, print[g].label))'
        <4>1. CASE g = c
          BY <1>6, <2>1, <3>4, <4>1 DEF Out
        <4>2. CASE g # c
          <5>1. print'[g] = print[g] /\ print[g] # Idle
            BY <1>6, <3>7, <4>2, WhoPrints DEF Idle
          <5>2. print[g].label \in Labels
            BY <5>1, PrintFields, WhoPrints DEF TypeInv
          <5> QED
            BY <3>5, <3>7, <5>1, <5>2 DEF DeviceParts, OkIsOut, Out
        <4> QED
          BY <4>1, <4>2
      <3> QED
        BY <3>6, <3>7 DEF KnownIsOut, OkIsOut
    <2> QED
      BY <1>4, <2>4, <2>5, <2>6 DEF Printing
  <1>14. CopiesOut' /\ AgentTrue'
    BY <1>8, CopiesStay
  <1> QED
    BY <1>11, <1>12, <1>13, <1>14 DEF DeviceParts

(* Only the report of an agent makes a job PRINTED by the agent.           *)
LEMMA WhoSettles ==
    ASSUME TypeInv, [Next]_vars, NEW j \in Jobs, job'[j].status = "PRINTED", job'[j].agent
    PROVE  \/ job[j].status = "PRINTED" /\ job[j].agent
           \/ \E r \in Calls : /\ call[r].at = "settle" /\ call[r].report.job = j
                               /\ call[r].report.status = "PRINTED"
  <1>1. CASE UNCHANGED job
    BY <1>1
  <1>2. ASSUME NEW d \in Displays, NEW n \in 1 .. MaxCopies, RequestLabel(d, n)
        PROVE  job'[j].status = "QUEUED" \/ job'[j] = job[j]
    BY <1>2 DEF RequestLabel, TypeInv, TypeOK
  <1>3. ASSUME NEW d \in Displays, PagePrints(d)
        PROVE  job'[j].status = job[j].status /\ job'[j].agent = job[j].agent
    <2>1. page[d].job \in Jobs /\ Row(page[d].job)
      BY <1>3, PageFields DEF TypeInv, RowsStand, PageStands, PagePrints, Idle
    <2>2. job[page[d].job] \in Job
      BY <2>1, JobRows DEF TypeInv
    <2>3. PICK b \in BOOLEAN : job' = [job EXCEPT ![page[d].job].page = b]
      BY <1>3 DEF PagePrints
    <2>4. \A k \in Jobs : job'[k] = IF k = page[d].job THEN [job[k] EXCEPT !.page = b] ELSE job[k]
      BY <2>1, <2>3 DEF TypeInv, TypeOK
    <2>5. /\ [job[page[d].job] EXCEPT !.page = b].status = job[page[d].job].status
          /\ [job[page[d].job] EXCEPT !.page = b].agent = job[page[d].job].agent
      BY <2>2 DEF Job
    <2> QED
      BY <2>1, <2>4, <2>5
  <1>4. ASSUME NEW k \in Jobs, Row(k), NEW s \in {"QUEUED", "CLAIMED"} \cup Settled, SetStatus(k, s)
        PROVE  job'[j] = job[j] \/ job'[j].agent = FALSE
    BY <1>4, StatusChanges DEF TypeInv, SetStatus
  <1>5. ASSUME NEW d \in Displays, PageReports(d)
        PROVE  job'[j] = job[j] \/ job'[j].agent = FALSE
    <2>1. page[d].job \in Jobs /\ Row(page[d].job) /\ page[d].status \in Settled
      BY <1>5, PageFields DEF TypeInv, RowsStand, PageStands, PageReports, Idle
    <2> QED
      BY <1>4, <1>5, <2>1 DEF PageReports
  <1>6. ASSUME NEW d \in Displays, NEW k \in Jobs, NEW s \in Settled, BridgeReports(d, k, s)
        PROVE  job'[j] = job[j] \/ job'[j].agent = FALSE
    BY <1>4, <1>6 DEF BridgeReports, TypeInv, RowsStand, BridgeStands
  <1>7. ASSUME NEW r \in Calls, MarkClaimed(r)
        PROVE  job'[j] = job[j] \/ job'[j].agent = FALSE
    <2>1. call[r].todo \in SUBSET Jobs /\ call[r].todo # {} /\ \A k \in call[r].todo : Row(k)
      BY <1>7, CallFields DEF TypeInv, RowsStand, CallStands, MarkClaimed
    <2>2. First(call[r].todo) \in Jobs /\ Row(First(call[r].todo))
      BY <2>1, FirstIsOldest
    <2> QED
      BY <1>4, <1>7, <2>2 DEF MarkClaimed
  <1>8. ASSUME NEW r \in Calls, SettleJob(r)
        PROVE  \/ job'[j] = job[j]
               \/ /\ call[r].at = "settle" /\ call[r].report.job = j
                  /\ call[r].report.status = job'[j].status
    <2>1. /\ call[r].report.job \in Jobs /\ Row(call[r].report.job)
          /\ call[r].report.status \in Settled /\ call[r].at = "settle"
      BY <1>8, CallFields DEF TypeInv, RowsStand, CallStands, SettleJob, Report
    <2> QED
      BY ZenonT(40), <1>8, <2>1, StatusChanges DEF SettleJob, TypeInv
  <1>9. ASSUME ~(UNCHANGED job)
        PROVE  \/ \E d \in Displays :
                     \/ \E n \in 1 .. MaxCopies : RequestLabel(d, n)
                     \/ PagePrints(d) \/ PageReports(d)
                     \/ \E k \in Jobs, s \in Settled : BridgeReports(d, k, s)
               \/ \E r \in Calls : SettleJob(r) \/ MarkClaimed(r)
    BY <1>9 DEF Next, vars, server, Agent, Printing, Server, Poll, EnsureConnected, StartCopy,
                CopyDone, SendReport, Answered, CannotConnect, GivesUpWaiting, LinkDrops,
                OnConnectionLost, Operator, Flush, Crash, BridgeAnswer, BridgeRequest, PrintCheck,
                PrintClaim, PrintWrite, PrintFails, ClaimPrintJobs, SetDisplay, Assign,
                ReceiveReport, LoseReport, PageLeaves
  <1> QED
    BY <1>1, <1>2, <1>3, <1>5, <1>6, <1>7, <1>8, <1>9

(* A report on its way or being settled was sent by an agent.              *)
LEMMA ReportsTravel ==
    ASSUME TypeInv, [Next]_vars
    PROVE  /\ \A m \in wire' : \/ m \in wire
                               \/ \E h \in Handhelds : /\ agent[h].at = "report" /\ m = ReportOf(h)
           /\ \A r \in Calls : call'[r].at = "settle" =>
                 \/ call[r].at = "settle" /\ call'[r].report = call[r].report
                 \/ call'[r].report \in wire
  <1>1. ASSUME NEW m \in wire'
        PROVE  m \in wire \/ \E h \in Handhelds : agent[h].at = "report" /\ m = ReportOf(h)
    <2>1. wire' \subseteq wire \/ \E h \in Handhelds : SendReport(h)
      BY ZenonT(40) DEF Next, vars, server, Agent, Printing, Server, Poll, EnsureConnected, StartCopy,
             CopyDone, Answered, CannotConnect, GivesUpWaiting, LinkDrops,
             OnConnectionLost, Operator, Flush, Crash, BridgeAnswer, BridgeRequest, PrintCheck,
             PrintClaim, PrintWrite, PrintFails, ClaimPrintJobs, SetDisplay, Assign, SettleJob,
             ReceiveReport, LoseReport, PageLeaves, PagePrints, PageReports, RequestLabel,
             BridgeReports, MarkClaimed
    <2> QED
      BY <1>1, <2>1 DEF SendReport
  <1>2. ASSUME NEW r \in Calls, call'[r].at = "settle"
        PROVE  (call[r].at = "settle" /\ call'[r].report = call[r].report) \/ call'[r].report \in wire
    <2>1. \/ UNCHANGED call
          \/ \E q \in Calls : \/ \E m \in wire : ReceiveReport(q, m)
                              \/ SettleJob(q) \/ MarkClaimed(q)
                              \/ \E d \in Displays : ClaimPrintJobs(q, d)
      BY DEF Next, vars, server, Agent, Printing, Server, Poll, EnsureConnected, StartCopy,
             CopyDone, Answered, CannotConnect, GivesUpWaiting, LinkDrops, SendReport,
             OnConnectionLost, Operator, Flush, Crash, BridgeAnswer, BridgeRequest, PrintCheck,
             PrintClaim, PrintWrite, PrintFails, SetDisplay, Assign,
             LoseReport, PageLeaves, PagePrints, PageReports, RequestLabel, BridgeReports
    <2>2. ASSUME NEW q \in Calls, NEW m \in wire, ReceiveReport(q, m)
          PROVE  call'[r] = call[r] \/ (call'[r].report = m)
      BY <2>2 DEF ReceiveReport, Goto, TypeInv, TypeOK
    <2>3. ASSUME NEW q \in Calls, SettleJob(q)
          PROVE  call'[r] = call[r]
      BY <1>2, <2>3 DEF SettleJob, Goto, TypeInv, TypeOK, Idle
    <2>4. ASSUME NEW q \in Calls, MarkClaimed(q)
          PROVE  call'[r] = call[r]
      <3>1. CASE r = q
        <4>1. call[q] \in [at : {"claim"}, display : Displays, todo : SUBSET Jobs]
          BY <2>4, CallFields DEF TypeInv, MarkClaimed
        <4>2. \/ call'[q] = Idle
              \/ call'[q] = [call[q] EXCEPT !.todo = @ \ {First(call[q].todo)}]
          BY <2>4 DEF MarkClaimed, Goto, TypeInv, TypeOK
        <4>3. call'[q].at \in {"idle", "claim"}
          BY <4>1, <4>2 DEF Idle
        <4> QED
          BY <1>2, <3>1, <4>3
      <3>2. CASE r # q
        BY <2>4, <3>2 DEF MarkClaimed, Goto, TypeInv, TypeOK
      <3> QED
        BY <3>1, <3>2
    <2>5. ASSUME NEW q \in Calls, NEW d \in Displays, ClaimPrintJobs(q, d)
          PROVE  call'[r] = call[r]
      BY <1>2, <2>5 DEF ClaimPrintJobs, Goto, TypeInv, TypeOK
    <2> QED
      BY <1>2, <2>1, <2>2, <2>3, <2>4, <2>5
  <1> QED
    BY <1>1, <1>2

LEMMA PaperKept == TypeInv /\ PaperInv /\ [Next]_vars => PaperInv'
  <1> SUFFICES ASSUME TypeInv, PaperInv, [Next]_vars, Quiet'
               PROVE  PaperParts'
    BY DEF PaperInv
  <1>1. UNCHANGED events
    <2>1. ASSUME NEW h \in Handhelds,
                 \/ Agent(h) \/ CannotConnect(h) \/ GivesUpWaiting(h)
                 \/ LinkDrops(h) \/ OnConnectionLost(h) \/ Operator(h) \/ Flush(h) \/ Crash(h)
          PROVE  UNCHANGED events
      BY <2>1 DEF Agent, Poll, EnsureConnected, StartCopy, CopyDone, SendReport, Answered, CannotConnect,
                  GivesUpWaiting, LinkDrops, OnConnectionLost, Operator, Flush, Crash, Others, Occurs, Lose
    <2>2. AtTheServer => UNCHANGED events
      BY DEF AtTheServer, RequestLabel, PagePrints, PageLeaves, PageReports, ClaimPrintJobs, BridgeReports,
             SetDisplay, Assign, Server, ReceiveReport, SettleJob, MarkClaimed, LoseReport, Others, Occurs, Lose
    <2>3. ASSUME NEW t \in Threads, BridgeAnswer(t) \/ \E w \in WebLabels : BridgeRequest(t, w)
          PROVE  UNCHANGED events
      BY <2>3 DEF BridgeAnswer, BridgeRequest, Others, Occurs
    <2>4. ASSUME NEW c \in Callers, Printing(c)
          PROVE  UNCHANGED events
      BY <2>4 DEF Printing, PrintCheck, PrintClaim, PrintWrite, PrintFails, Others
    <2> QED
      BY <2>1, <2>2, <2>3, <2>4 DEF Next, AtTheServer, vars
  <1>2. Quiet /\ PaperParts /\ DeviceParts
    BY <1>1 DEF Quiet, PaperInv, PaperParts, DeviceParts
  <1>3. DeviceParts'
    <2>1. CASE UNCHANGED device \/ UNCHANGED vars
      BY <1>2, <2>1, StillDevice DEF device, vars
    <2>2. ASSUME NEW h \in Handhelds, Agent(h) \/ CannotConnect(h) \/ GivesUpWaiting(h)
          PROVE  DeviceParts'
      BY <1>2, <2>2, AgentPaper
    <2>3. ASSUME NEW h \in Handhelds,
                 LinkDrops(h) \/ OnConnectionLost(h) \/ Operator(h) \/ Flush(h) \/ Crash(h)
          PROVE  DeviceParts'
      <3>1. Flush(h)
        BY <1>2, <2>3 DEF Quiet, Occurs, LinkDrops, OnConnectionLost, Operator, Crash, PaperParts, LinkSound
      <3> QED
        BY <1>2, <3>1, StillDevice DEF Flush
    <2>4. ASSUME NEW t \in Threads, BridgeAnswer(t) \/ \E w \in WebLabels : BridgeRequest(t, w)
          PROVE  DeviceParts'
      BY <1>2, <2>4, ThreadPaper
    <2>5. ASSUME NEW c \in Callers, Printing(c)
          PROVE  DeviceParts'
      BY <1>2, <2>5, PrintPaper
    <2> QED
      BY <2>1, <2>2, <2>3, <2>4, <2>5, ServerSteps DEF Next, AtTheServer
  <1>4. ASSUME NEW j \in Jobs, Row(j), OnSheets(j)
        PROVE  (OnSheets(j))'
    <2>1. PICK h \in Handhelds : AllOut(h, j)
      BY <1>4 DEF OnSheets
    <2> QED
      BY <1>4, <2>1, AllStaysOut DEF OnSheets, AllOut, Out
  <1>5. WireTrue'
    <2>1. ASSUME NEW m \in wire', m.status = "PRINTED"
          PROVE  (OnSheets(m.job))'
      <3>1. CASE m \in wire
        <4>1. m.job \in Jobs /\ Row(m.job)
          BY <3>1 DEF TypeInv, TypeOK, RowsStand, WireStands, Report
        <4> QED
          BY <1>2, <1>4, <2>1, <3>1, <4>1 DEF PaperParts, WireTrue
      <3>2. ASSUME NEW h \in Handhelds, agent[h].at = "report", m = ReportOf(h)
            PROVE  (OnSheets(m.job))'
        <4>1. agent[h] # Idle /\ m.job = Current(h) /\ agent[h].status = "PRINTED"
          BY <2>1, <3>2 DEF ReportOf, Idle
        <4>2. Current(h) \in Jobs /\ Row(Current(h))
          BY <4>1, CurrentJob
        <4>3. OnSheets(Current(h))
          BY <1>2, <3>2, <4>1 DEF PaperParts, AgentTrue, OnSheets
        <4>4. m.job \in Jobs /\ Row(m.job) /\ OnSheets(m.job)
          BY <4>1, <4>2, <4>3
        <4> QED
          BY <1>4, <4>4
      <3> QED
        BY <3>1, <3>2, ReportsTravel
    <2> QED
      BY <2>1 DEF WireTrue
  <1>6. CallTrue'
    <2>1. ASSUME NEW r \in Calls, call'[r].at = "settle", call'[r].report.status = "PRINTED"
          PROVE  (OnSheets(call[r].report.job))'
      <3>1. PICK m \in Report : m = call'[r].report /\ Row(m.job) /\ OnSheets(m.job)
        <4>1. CASE call[r].at = "settle" /\ call'[r].report = call[r].report
          BY <1>2, <2>1, <4>1, CallFields DEF TypeInv, RowsStand, CallStands, PaperParts, CallTrue
        <4>2. CASE call'[r].report \in wire
          BY <1>2, <2>1, <4>2 DEF TypeInv, TypeOK, RowsStand, WireStands, PaperParts, WireTrue
        <4> QED
          BY <2>1, <4>1, <4>2, ReportsTravel
      <3>2. m.job \in Jobs
        BY DEF Report
      <3>3. (OnSheets(m.job))'
        BY <1>4, <3>1, <3>2
      <3> QED
        BY <3>1, <3>3 DEF OnSheets, AllOut, Out
    <2> QED
      BY <2>1 DEF CallTrue
  <1>7. OnPaper'
    <2>1. ASSUME NEW j \in Jobs, job'[j].status = "PRINTED", job'[j].agent
          PROVE  (OnSheets(j))'
      <3>1. Row(j) /\ OnSheets(j)
        <4>1. CASE job[j].status = "PRINTED" /\ job[j].agent
          BY <1>2, <4>1, JobRows DEF TypeInv, PaperParts, OnPaper, OnSheets, AllOut, Out
        <4>2. ASSUME NEW r \in Calls, call[r].at = "settle", call[r].report.job = j,
                     call[r].report.status = "PRINTED"
              PROVE  Row(j) /\ OnSheets(j)
          BY <1>2, <4>2 DEF TypeInv, RowsStand, CallStands, PaperParts, CallTrue
        <4> QED
          BY <2>1, <4>1, <4>2, WhoSettles
      <3> QED
        BY <1>4, <3>1
    <2> QED
      BY <2>1 DEF OnPaper, OnSheets, AllOut, Out
  <1> QED
    BY <1>3, <1>5, <1>6, <1>7 DEF PaperParts, DeviceParts

LEMMA PaperInit == Init => PaperInv
  <1> SUFFICES ASSUME Init
               PROVE  PaperParts
    BY DEF PaperInv
  <1>1. \A h \in Handhelds : \A l : ~Knows(h, l)
    <2>1. \A h \in Handhelds : known[h] = <<>>
      BY DEF Init
    <2> QED
      BY <2>1 DEF Knows
  <1>2. \A c \in Callers : print[c] = Idle /\ On(c) \in Handhelds
    BY DeviceOf DEF Init
  <1>3. LinkSound /\ CallLinked /\ CallIsAgents /\ CallIsThreads /\ KnownIsOut /\ OkIsOut
    BY <1>1, <1>2, WhoPrints
       DEF Init, LinkSound, CallLinked, CallIsAgents, CallIsThreads, KnownIsOut, OkIsOut, Idle
  <1>4. CopiesOut /\ AgentTrue /\ WireTrue /\ CallTrue
    BY DEF Init, CopiesOut, AgentTrue, WireTrue, CallTrue, Idle
  <1>5. OnPaper
    BY DEF Init, OnPaper, NoRow
  <1> QED
    BY <1>3, <1>4, <1>5 DEF PaperParts

(* What an agent reports as PRINTED is on paper, every copy of it, from    *)
(* one printer (PrintAgentRunner.kt:147), as long as no link breaks and no *)
(* application dies: whatever reports are lost or late, whatever is known  *)
(* already or forgotten, and whoever is assigned to the station meanwhile. *)
THEOREM PrintedMeansPaper == Spec => []PrintedIsOnPaper
  <1>1. Init => TypeInv /\ PaperInv
    BY InitTyped, PaperInit
  <1>2. TypeInv /\ PaperInv /\ [Next]_vars => (TypeInv /\ PaperInv)'
    BY NextTyped, PaperKept
  <1>3. PaperInv => PrintedIsOnPaper
    BY DEF PaperInv, PaperParts, PrintedIsOnPaper, Quiet
  <1> QED
    BY <1>1, <1>2, <1>3, PTL DEF Spec

=============================================================================
