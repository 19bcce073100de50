------------------------------ MODULE PrintQueue ------------------------------
(***************************************************************************)
(* The labels of the station displays: the print jobs of                   *)
(* displays/displays.service.ts, the page of the display that asks for a   *)
(* label, and the worker's handheld that prints it (PrintAgentRunner.kt,   *)
(* PrinterManager.kt, PrintQueue.kt, JobIdWindow.kt).                      *)
(*                                                                         *)
(* A job asks for copies; each copy is a label of its own, and so is what  *)
(* a web page sends to the bridge of the handheld.  The handheld remembers *)
(* the labels it has claimed, in memory and, later, on disk; at most       *)
(* Window of them.  Printing is a call (of the agent, or of a thread that  *)
(* serves the bridge) that checks, claims and writes.  A report travels    *)
(* over the network: it may be lost, and it may arrive after the handheld  *)
(* has stopped waiting for it.                                             *)
(*                                                                         *)
(* All displays print by CT40 or BRIDGE, the two the agent serves; BROWSER *)
(* jobs concern the page alone.  The second printer an operator may try    *)
(* to connect becomes the saved one if it answers, so one printer for each *)
(* handheld is enough.                                                     *)
(***************************************************************************)
EXTENDS Integers, FiniteSets, Sequences

CONSTANTS
    Stations,
    Workers,
    Displays,
    Handhelds,
    Crew,       \* the worker of each station at first
    Holder,     \* the worker who is logged in on each handheld
    Threads,    \* the threads that serve the bridge
    Device,     \* the handheld each thread runs on
    WebLabels,  \* labels that a web page sends to the bridge
    MaxJobs,    \* bound: rows of StationPrintJob
    MaxCopies,  \* bound: copies of a job
    Window,     \* JobIdWindow.max
    Limit,      \* jobs offered to one poll
    Calls,      \* handler calls that run at the same time
    MaxLost,    \* bound: reports lost, or answered too late
    MaxCrashes, \* bound: restarts of the application
    MaxMoves,   \* bound: changes of a station's worker
    Workloads,  \* the sets of events that occur in one behaviour
    None

ASSUME PrintAssumption ==
    /\ Crew \in [Stations -> Workers]
    /\ Holder \in [Handhelds -> Workers]
    /\ Device \in [Threads -> Handhelds]
    /\ Handhelds \cap Threads = {}
    /\ IsFiniteSet(Handhelds \cup Threads)
    /\ WebLabels \cap ((1 .. MaxJobs) \X (1 .. MaxCopies)) = {}
    /\ {MaxJobs, MaxLost, MaxCrashes, MaxMoves} \subseteq Nat
    /\ {MaxCopies, Window, Limit} \subseteq Nat \ {0}
    /\ None \notin Workers

VARIABLES
    job,      \* StationPrintJob
    display,  \* StationDisplay: its station, and whether its link is accepted
    post,     \* Station.assignedWorker
    page,     \* the page of each display
    bridged,  \* jobs that the local bridge of each display has claimed
    agent,    \* PrintAgentRunner of each handheld
    printer,  \* PrinterManager and its transport on each handheld
    known,    \* JobIdWindow of each handheld, oldest first
    disk,     \* the window as it is on disk
    print,    \* the calls of PrinterManager.print
    asked,    \* how often each label was sent to a bridge
    sheets,   \* labels that came out of the printer of each handheld
    wire,     \* reports on their way to the server
    call,     \* the handler calls in flight
    lost,
    crashes,
    moves,
    events    \* what occurs in this behaviour

server == <<job, display, post, page, bridged, wire, call>>
device == <<agent, printer, known, disk, print, asked, sheets>>
vars == <<server, device, lost, crashes, moves, events>>

Jobs == 1 .. MaxJobs
Copies == Jobs \X (1 .. MaxCopies)
Labels == Copies \cup WebLabels
Callers == Handhelds \cup Threads
On(c) == IF c \in Threads THEN Device[c] ELSE c

NoRow == [status |-> "none"]
Idle == [at |-> "idle"]
Settled == {"PRINTED", "FAILED"}
Job == [status : {"QUEUED", "CLAIMED"} \cup Settled, station : Stations,
        copies : 1 .. MaxCopies,
        agent : BOOLEAN,   \* the status is what an agent reported
        page : BOOLEAN]    \* the page printed the label
Report == [worker : Workers, job : Jobs, status : Settled]
Printer == [saved : BOOLEAN, believed : BOOLEAN, socket : {"none", "open", "dead", "stale"},
            shown : {"DISCONNECTED", "CONNECTED", "PRINTING", "ERROR"}]

TypeOK ==
    /\ job \in [Jobs -> Job \cup {NoRow}]
    /\ display \in [Displays -> [station : Stations, open : BOOLEAN]]
    /\ post \in [Stations -> Workers \cup {None}]
    /\ page \in [Displays -> {Idle} \cup [at : {"print"}, job : Jobs]
                                    \cup [at : {"report"}, job : Jobs, status : Settled]]
    /\ bridged \in [Displays -> SUBSET Jobs]
    /\ agent \in [Handhelds -> {Idle} \cup [at : {"link", "next"}, todo : SUBSET Jobs]
                                      \cup [at : {"copy", "printing"}, todo : SUBSET Jobs, copy : 1 .. MaxCopies]
                                      \cup [at : {"report", "await"}, todo : SUBSET Jobs, status : Settled]]
    /\ printer \in [Handhelds -> Printer]
    /\ known \in [Handhelds -> Seq(Labels)] /\ disk \in [Handhelds -> Seq(Labels)]
    /\ \A h \in Handhelds : Len(known[h]) <= Window /\ Len(disk[h]) <= Window
    /\ print \in [Callers -> {Idle} \cup [at : {"check", "claim", "write", "ok", "failed"}, label : Labels]]
    /\ asked \in [WebLabels -> 0 .. 2]
    /\ sheets \in [Handhelds -> [Labels -> Nat]]
    /\ wire \subseteq Report
    /\ call \in [Calls -> {Idle} \cup [at : {"settle"}, report : Report, saw : {"QUEUED", "CLAIMED"} \cup Settled]
                                 \cup [at : {"claim"}, display : Displays, todo : SUBSET Jobs]]
    /\ lost \in 0 .. MaxLost
    /\ crashes \in 0 .. MaxCrashes
    /\ moves \in 0 .. MaxMoves
    /\ events \in Workloads

Init ==
    /\ job = [j \in Jobs |-> NoRow]
    /\ display \in [Displays -> [station : Stations, open : {TRUE}]]
    /\ post = Crew
    /\ page = [d \in Displays |-> Idle]
    /\ bridged = [d \in Displays |-> {}]
    /\ agent = [h \in Handhelds |-> Idle]
    /\ printer = [h \in Handhelds |->
                    [saved |-> TRUE, believed |-> FALSE, socket |-> "none", shown |-> "DISCONNECTED"]]
    /\ known = [h \in Handhelds |-> <<>>]
    /\ disk = [h \in Handhelds |-> <<>>]
    /\ print = [c \in Callers |-> Idle]
    /\ asked = [w \in WebLabels |-> 0]
    /\ sheets = [h \in Handhelds |-> [l \in Labels |-> 0]]
    /\ wire = {}
    /\ call = [r \in Calls |-> Idle]
    /\ lost = 0
    /\ crashes = 0
    /\ moves = 0
    /\ events \in Workloads

Occurs(e) == e \in events /\ UNCHANGED events
Others == UNCHANGED <<lost, crashes, moves, events>>
Goto(r, c) == call' = [call EXCEPT ![r] = c]
SetStatus(j, s) == job' = [job EXCEPT ![j].status = s, ![j].agent = FALSE]
First(S) == CHOOSE j \in S : \A k \in S : j <= k

-----------------------------------------------------------------------------
(* THE DISPLAY                                                             *)

(* printLabel: the row is written last; from then on the job is offered to *)
(* the handheld, and the page prints it too.                               *)
RequestLabel(d, n) ==
    /\ page[d] = Idle
    /\ display[d].open
    /\ n > 1 => "copies" \in events
    /\ \E j \in Jobs :
          /\ j > 1 => "queue" \in events
          /\ job[j] = NoRow /\ \A k \in 1 .. j - 1 : job[k] # NoRow
          /\ job' = [job EXCEPT ![j] = [status |-> "QUEUED", station |-> display[d].station,
                                        copies |-> n, agent |-> FALSE, page |-> FALSE]]
          /\ page' = IF "page" \in events THEN [page EXCEPT ![d] = [at |-> "print", job |-> j]] ELSE page
    /\ UNCHANGED <<display, post, bridged, wire, call, device>> /\ Others

(* printLabelByTransport: the bridge under a label id of its own, or the   *)
(* print window of the browser.  The page counts one sheet as printed.     *)
PagePrints(d) ==
    /\ page[d].at = "print"
    /\ \E s \in Settled :
          /\ page' = [page EXCEPT ![d] = [at |-> "report", job |-> page[d].job, status |-> s]]
          /\ job' = [job EXCEPT ![page[d].job].page = (s = "PRINTED")]
    /\ UNCHANGED <<display, post, bridged, wire, call, device>> /\ Others

(* The page is closed, or its request does not come through.               *)
PageLeaves(d) ==
    /\ page[d] # Idle
    /\ page' = [page EXCEPT ![d] = Idle]
    /\ UNCHANGED <<job, display, post, bridged, wire, call, device>> /\ Others

(* printResult: whatever the status of the job is.                         *)
Accepted(d, j) == display[d].open /\ job[j].station = display[d].station

PageReports(d) ==
    /\ page[d].at = "report"
    /\ Accepted(d, page[d].job)
    /\ SetStatus(page[d].job, page[d].status)
    /\ page' = [page EXCEPT ![d] = Idle]
    /\ UNCHANGED <<display, post, bridged, wire, call, device>> /\ Others

(* claimPrintJobs for a local bridge: the queued jobs are read, then each  *)
(* one is marked.                                                          *)
ClaimPrintJobs(r, d) ==
    LET queued == {j \in Jobs : job[j].status = "QUEUED" /\ Accepted(d, j)}
    IN  /\ Occurs("bridge") /\ call[r] = Idle /\ queued # {}
        /\ Goto(r, [at |-> "claim", display |-> d, todo |-> queued])
        /\ UNCHANGED <<job, display, post, page, bridged, wire, device, lost, crashes, moves>>

MarkClaimed(r) ==
    /\ call[r].at = "claim"
    /\ LET j == First(call[r].todo)
           d == call[r].display
       IN  /\ SetStatus(j, "CLAIMED")
           /\ bridged' = [bridged EXCEPT ![d] = @ \cup {j}]
           /\ Goto(r, IF call[r].todo = {j} THEN Idle ELSE [call[r] EXCEPT !.todo = @ \ {j}])
    /\ UNCHANGED <<display, post, page, wire, device>> /\ Others

BridgeReports(d, j, s) ==
    /\ j \in bridged[d]
    /\ Accepted(d, j)
    /\ SetStatus(j, s)
    /\ bridged' = [bridged EXCEPT ![d] = @ \ {j}]
    /\ UNCHANGED <<display, post, page, wire, call, device>> /\ Others

(* update, regenerate, remove, bulk: the link of a display is refused from *)
(* now on, or accepted again; a display moves to another station.          *)
SetDisplay(d, s, open) ==
    /\ Occurs("admin")
    /\ display[d] # [station |-> s, open |-> open]
    /\ display' = [display EXCEPT ![d] = [station |-> s, open |-> open]]
    /\ UNCHANGED <<job, post, page, bridged, wire, call, device, lost, crashes, moves>>

(* The stations service assigns another worker.                            *)
Assign(s, w) ==
    /\ Occurs("admin")
    /\ post[s] # w
    /\ moves < MaxMoves /\ moves' = moves + 1
    /\ post' = [post EXCEPT ![s] = w]
    /\ UNCHANGED <<job, display, page, bridged, wire, call, device, lost, crashes>>

-----------------------------------------------------------------------------
(* THE AGENT OF THE HANDHELD: PrintAgentRunner.tick                        *)

(* pendingPrintJobsForWorker: the oldest queued jobs of the stations of    *)
(* the worker.                                                             *)
StationsOfWorker(w) == {s \in Stations : post[s] = w}
Queued(w) == {j \in Jobs : job[j].status = "QUEUED" /\ job[j].station \in StationsOfWorker(w)}
Pending(w) == {j \in Queued(w) : Cardinality({k \in Queued(w) : k < j}) < Limit}

SetAgent(h, a) == agent' = [agent EXCEPT ![h] = a]
Current(h) == First(agent[h].todo)

(* The agent takes what it is offered, labels that it has printed before   *)
(* included: their report was lost.                                        *)
OnlyNewLabels(h) ==
    {j \in Pending(Holder[h]) : \A n \in 1 .. MaxCopies, i \in 1 .. Len(known[h]) : known[h][i] # <<j, n>>}
Offered(h) == Pending(Holder[h])

Poll(h) ==
    /\ agent[h] = Idle
    /\ printer[h].saved
    /\ Offered(h) # {}
    /\ SetAgent(h, [at |-> "link", todo |-> Offered(h)])
    /\ UNCHANGED <<server, printer, known, disk, print, asked, sheets>> /\ Others

Connected(h) == [saved |-> TRUE, believed |-> TRUE, socket |-> "open", shown |-> "CONNECTED"]

(* ensureConnected: a printer the manager believes in is not tried.  If it *)
(* cannot be reached the cycle ends without a report.                      *)
EnsureConnected(h) ==
    /\ agent[h].at = "link"
    /\ \/ /\ printer[h].believed
          /\ SetAgent(h, [at |-> "copy", todo |-> agent[h].todo, copy |-> 1])
          /\ UNCHANGED printer
       \/ /\ ~printer[h].believed
          /\ SetAgent(h, [at |-> "copy", todo |-> agent[h].todo, copy |-> 1])
          /\ printer' = [printer EXCEPT ![h] = Connected(h)]
    /\ UNCHANGED <<server, known, disk, print, asked, sheets>> /\ Others

CannotConnect(h) ==
    /\ agent[h].at = "link"
    /\ ~printer[h].believed
    /\ SetAgent(h, Idle)
    /\ printer' = [printer EXCEPT ![h].socket = "none", ![h].shown = "ERROR"]
    /\ UNCHANGED <<server, known, disk, print, asked, sheets>> /\ Others

StartCopy(h) ==
    /\ agent[h].at = "copy"
    /\ print[h] = Idle
    /\ print' = [print EXCEPT ![h] = [at |-> "check", label |-> <<Current(h), agent[h].copy>>]]
    /\ SetAgent(h, [agent[h] EXCEPT !.at = "printing"])
    /\ UNCHANGED <<server, printer, known, disk, asked, sheets>> /\ Others

FirstIsLast(h) == agent[h].copy >= 1
LastCopy(h) == agent[h].copy >= job[Current(h)].copies

(* A copy that did not go out ends the job, which is reported as FAILED.   *)
CopyDone(h) ==
    /\ agent[h].at = "printing"
    /\ print[h].at \in {"ok", "failed"}
    /\ print' = [print EXCEPT ![h] = Idle]
    /\ LET report(s) == [at |-> "report", todo |-> agent[h].todo, status |-> s]
       IN  IF print[h].at = "failed" THEN SetAgent(h, report("FAILED"))
           ELSE IF LastCopy(h) THEN SetAgent(h, report("PRINTED"))
                ELSE SetAgent(h, [at |-> "copy", todo |-> agent[h].todo, copy |-> agent[h].copy + 1])
    /\ UNCHANGED <<server, printer, known, disk, asked, sheets>> /\ Others

ReportOf(h) == [worker |-> Holder[h], job |-> Current(h), status |-> agent[h].status]

SendReport(h) ==
    /\ agent[h].at = "report"
    /\ wire' = wire \cup {ReportOf(h)}
    /\ SetAgent(h, [agent[h] EXCEPT !.at = "await"])
    /\ UNCHANGED <<job, display, post, page, bridged, call, printer, known, disk, print, asked, sheets>>
    /\ Others

(* The next job of the cycle; a job that failed is the last one.           *)
NextJob(h) ==
    LET rest == agent[h].todo \ {Current(h)}
    IN  SetAgent(h, IF agent[h].status = "FAILED" \/ rest = {} THEN Idle
                    ELSE [at |-> "link", todo |-> rest])

Answered(h) ==
    /\ agent[h].at = "await"
    /\ ReportOf(h) \notin wire
    /\ \A r \in Calls : call[r].at = "settle" => call[r].report # ReportOf(h)
    /\ NextJob(h)
    /\ UNCHANGED <<server, printer, known, disk, print, asked, sheets>> /\ Others

Lose == Occurs("loss") /\ lost < MaxLost /\ lost' = lost + 1

GivesUpWaiting(h) ==
    /\ agent[h].at = "await"
    /\ Lose
    /\ NextJob(h)
    /\ UNCHANGED <<server, printer, known, disk, print, asked, sheets, crashes, moves>>

LoseReport(m) ==
    /\ m \in wire
    /\ Lose
    /\ wire' = wire \ {m}
    /\ UNCHANGED <<job, display, post, page, bridged, call, device, crashes, moves>>

Resolved(j) == job[j].status \in Settled

(* printJobResultForWorker: the row is read; a job that is settled is      *)
(* answered as a duplicate, a job of another station is not found.         *)
ReceiveReport(r, m) ==
    /\ m \in wire /\ call[r] = Idle
    /\ wire' = wire \ {m}
    /\ IF job[m.job].station \in StationsOfWorker(m.worker) /\ ~Resolved(m.job)
       THEN Goto(r, [at |-> "settle", report |-> m, saw |-> job[m.job].status])
       ELSE UNCHANGED call
    /\ UNCHANGED <<job, display, post, page, bridged, device>> /\ Others

SettleJob(r) ==
    /\ call[r].at = "settle"
    /\ LET m == call[r].report
       IN  job' = [job EXCEPT ![m.job].status = m.status, ![m.job].agent = TRUE]
    /\ Goto(r, Idle)
    /\ UNCHANGED <<display, post, page, bridged, wire, device>> /\ Others

-----------------------------------------------------------------------------
(* THE PRINTER OF THE HANDHELD: PrinterManager, PrintQueue, JobIdWindow    *)

Knows(h, l) == \E i \in 1 .. Len(known[h]) : known[h][i] = l
CheckedBefore(h, l) == FALSE
Taken(h, l) == Knows(h, l)

RememberAll(w, l) == Append(w, l)
Remember(w, l) ==
    LET longer == Append(w, l)
    IN  IF Len(longer) > Window THEN Tail(longer) ELSE longer

PrintAt(c, at) == print' = [print EXCEPT ![c].at = at]
Shown(h, s) == printer' = [printer EXCEPT ![h].shown = s]

(* A web page sends a label to the bridge; it may send it again to the     *)
(* other name of the host when no answer came.                             *)
BridgeRequest(t, w) ==
    /\ Occurs("web")
    /\ print[t] = Idle /\ asked[w] < 2
    /\ asked' = [asked EXCEPT ![w] = @ + 1]
    /\ print' = [print EXCEPT ![t] = [at |-> "check", label |-> w]]
    /\ UNCHANGED <<server, agent, printer, known, disk, sheets, lost, crashes, moves>>

BridgeAnswer(t) ==
    /\ print[t].at \in {"ok", "failed"}
    /\ print' = [print EXCEPT ![t] = Idle]
    /\ UNCHANGED <<server, agent, printer, known, disk, asked, sheets>> /\ Others

(* print: a label that is known is not sent, a closed link is not used.    *)
PrintCheck(c) ==
    LET h == On(c)
    IN  /\ print[c].at = "check"
        /\ IF Knows(h, print[c].label) THEN PrintAt(c, "ok") /\ UNCHANGED printer
           ELSE IF printer[h].socket = "none" THEN PrintAt(c, "failed") /\ Shown(h, "ERROR")
                ELSE PrintAt(c, "claim") /\ Shown(h, "PRINTING")
        /\ UNCHANGED <<server, agent, known, disk, asked, sheets>> /\ Others

(* submit: looking the label up and remembering it is one step.  apply     *)
(* leaves the writing to disk for later.                                   *)
PrintClaim(c) ==
    LET h == On(c)
    IN  /\ print[c].at = "claim"
        /\ IF Taken(h, print[c].label)
           THEN PrintAt(c, "ok") /\ Shown(h, "CONNECTED") /\ UNCHANGED known
           ELSE /\ known' = [known EXCEPT ![h] = Remember(@, print[c].label)]
                /\ PrintAt(c, "write") /\ UNCHANGED printer
        /\ UNCHANGED <<server, agent, disk, asked, sheets>> /\ Others

Sheet(h, l) == sheets' = [sheets EXCEPT ![h][l] = @ + 1]

PrintWrite(c) ==
    LET h == On(c)
    IN  /\ print[c].at = "write"
        /\ printer[h].socket = "open"
        /\ Sheet(h, print[c].label)
        /\ PrintAt(c, "ok") /\ Shown(h, "CONNECTED")
        /\ UNCHANGED <<server, agent, known, disk, asked>> /\ Others

(* The write fails, perhaps after the printer got it all; the link is      *)
(* closed.                                                                 *)
PrintFails(c) ==
    LET h == On(c)
    IN  /\ print[c].at = "write"
        /\ printer[h].socket = "open" => "faults" \in events
        /\ \/ UNCHANGED sheets
           \/ printer[h].socket = "open" /\ Sheet(h, print[c].label)
        /\ PrintAt(c, "failed")
        /\ printer' = [printer EXCEPT ![h].believed = FALSE, ![h].socket = "none",
                                      ![h].shown = "DISCONNECTED"]
        /\ UNCHANGED <<server, agent, known, disk, asked>> /\ Others

(* The link is lost; the broadcast of Android about it comes later, and    *)
(* onConnectionLost heeds it only in two of the states.                    *)
LinkDrops(h) ==
    /\ Occurs("faults")
    /\ printer[h].socket = "open"
    /\ printer' = [printer EXCEPT ![h].socket = "dead"]
    /\ UNCHANGED <<server, agent, known, disk, print, asked, sheets, lost, crashes, moves>>

OnConnectionLost(h) ==
    /\ printer[h].socket = "dead"
    /\ printer' = IF printer[h].shown \in {"CONNECTED", "PRINTING"}
                  THEN [printer EXCEPT ![h].believed = FALSE, ![h].socket = "none",
                                       ![h].shown = "DISCONNECTED"]
                  ELSE [printer EXCEPT ![h].socket = "stale"]
    /\ UNCHANGED <<server, agent, known, disk, print, asked, sheets>> /\ Others

(* The operator on the printer screen: a scan, a connection to a printer   *)
(* that does not answer, to one that does, or to none, and forgetting the  *)
(* printer.                                                                *)
Operator(h) ==
    /\ Occurs("operator")
    /\ StationsOfWorker(Holder[h]) # {}
    /\ \/ Shown(h, "DISCONNECTED")
       \/ printer' = [printer EXCEPT ![h].socket = "none", ![h].shown = "ERROR"]
       \/ printer' = [printer EXCEPT ![h] = Connected(h)]
       \/ \E saved \in {FALSE, printer[h].saved} :
             printer' = [printer EXCEPT ![h] = [saved |-> saved, believed |-> FALSE,
                                                socket |-> "none", shown |-> "DISCONNECTED"]]
    /\ UNCHANGED <<server, agent, known, disk, print, asked, sheets, lost, crashes, moves>>

Flush(h) ==
    /\ disk[h] # known[h]
    /\ disk' = [disk EXCEPT ![h] = known[h]]
    /\ UNCHANGED <<server, agent, printer, known, print, asked, sheets>> /\ Others

(* The application dies and starts again; what was not on disk is gone.    *)
Crash(h) ==
    /\ Occurs("crash")
    /\ crashes < MaxCrashes /\ crashes' = crashes + 1
    /\ SetAgent(h, Idle)
    /\ print' = [c \in Callers |-> IF On(c) = h THEN Idle ELSE print[c]]
    /\ known' = [known EXCEPT ![h] = disk[h]]
    /\ printer' = [printer EXCEPT ![h].believed = FALSE, ![h].socket = "none",
                                  ![h].shown = "DISCONNECTED"]
    /\ UNCHANGED <<server, disk, asked, sheets, lost, moves>>

-----------------------------------------------------------------------------
Server(r) ==
    \/ \E m \in wire : ReceiveReport(r, m)
    \/ SettleJob(r)
    \/ MarkClaimed(r)

Agent(h) ==
    \/ Poll(h) \/ EnsureConnected(h) \/ StartCopy(h) \/ CopyDone(h)
    \/ SendReport(h) \/ Answered(h)

Printing(c) == PrintCheck(c) \/ PrintClaim(c) \/ PrintWrite(c) \/ PrintFails(c)

Next ==
    \/ \E d \in Displays :
          \/ \E n \in 1 .. MaxCopies : RequestLabel(d, n)
          \/ PagePrints(d) \/ PageLeaves(d) \/ PageReports(d)
          \/ \E r \in Calls : ClaimPrintJobs(r, d)
          \/ \E j \in Jobs, s \in Settled : BridgeReports(d, j, s)
          \/ \E s \in Stations, open \in BOOLEAN : SetDisplay(d, s, open)
    \/ \E s \in Stations, w \in Workers \cup {None} : Assign(s, w)
    \/ \E r \in Calls : Server(r)
    \/ \E m \in wire : LoseReport(m)
    \/ \E h \in Handhelds :
          \/ Agent(h) \/ CannotConnect(h) \/ GivesUpWaiting(h)
          \/ LinkDrops(h) \/ OnConnectionLost(h) \/ Operator(h) \/ Flush(h) \/ Crash(h)
    \/ \E t \in Threads : BridgeAnswer(t) \/ \E w \in WebLabels : BridgeRequest(t, w)
    \/ \E c \in Callers : Printing(c)

Spec == Init /\ [][Next]_vars

(* The loop of the agent and the print call it waits for run on, the calls *)
(* of the server return, and a printer that is tried again and again       *)
(* answers once in a while.                                                *)
FairSpec ==
    /\ Spec
    /\ \A h \in Handhelds : WF_vars(Agent(h) \/ Printing(h)) /\ SF_vars(EnsureConnected(h))
    /\ \A r \in Calls : WF_vars(Server(r))

-----------------------------------------------------------------------------
(* The promise of the printer: refinement of LabelLedger.  A label comes   *)
(* out a second time only after the handheld has forgotten it, which       *)
(* JobIdWindow lets it do with old labels and a crash with new ones;       *)
(* neither the second attempt of a web page, nor a job that is offered     *)
(* again, nor two threads at once do that.                                 *)
Ledger == INSTANCE LabelLedger WITH
    Entries <- Handhelds \X Labels,
    count <- [e \in Handhelds \X Labels |-> sheets[e[1]][e[2]]],
    due <- [e \in Handhelds \X Labels |->
              Cardinality({c \in Callers : /\ On(c) = e[1]
                                           /\ print[c].at = "write" /\ print[c].label = e[2]})],
    held <- [e \in Handhelds \X Labels |-> Knows(e[1], e[2])]
LedgerKept == Ledger!Spec

(* PRINTED by the agent means that every copy left the printer             *)
(* (PrintAgentRunner.kt:147).  OnPaper is that claim as it stands; it      *)
(* holds as long as no link breaks and no application dies, whatever is    *)
(* lost, repeated, forgotten or moved to another worker meanwhile.         *)
OnPaper ==
    \A j \in Jobs :
       job[j].status = "PRINTED" /\ job[j].agent =>
          \E h \in Handhelds : \A n \in 1 .. job[j].copies : sheets[h][<<j, n>>] > 0
PrintedIsOnPaper ==
    events \cap {"faults", "operator", "crash"} = {} => OnPaper

(* A queued label gets a result, as long as its station has a worker with  *)
(* a handheld and that handheld a printer.                                 *)
Served(j) ==
    \E h \in Handhelds : Holder[h] = post[job[j].station] /\ printer[h].saved
LabelSettles ==
    \A j \in Jobs : (job[j].status = "QUEUED" /\ Served(j)) ~> (job[j].status # "QUEUED" \/ ~Served(j))

(* What JobIdWindow.kt:11 calls the owner's rule: one action, one label.   *)
(* For a job of one copy, one printer has put one sheet out: the page's,   *)
(* or a handheld's.                                                        *)
OneActionOneLabel ==
    \A j \in Jobs :
       job[j].status # "none" /\ job[j].page =>
          \A h \in Handhelds, n \in 1 .. MaxCopies : sheets[h][<<j, n>>] = 0

=============================================================================
