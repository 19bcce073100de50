------------------------------ MODULE TaskScreens ------------------------------
(***************************************************************************)
(* The task pages of the web terminal (frontend/src/terminal/*.tsx): one   *)
(* worker in front of one page, and the server's side of its calls.        *)
(*                                                                         *)
(* Sorting, order sorting, putaway and temporary storage take two scans, a *)
(* thing and the place it goes to.  Packing, shipping and receiving take   *)
(* one, and a button.  What is scanned first is answered with a decision,  *)
(* which the page holds (`hand`) until the commit.  A page has one flag    *)
(* `busy`, tested when a handler starts.  A request may fail, or be served *)
(* and its answer lost; the page cannot tell which.                        *)
(*                                                                         *)
(* Each page has its handler of a scanned value, its handler of an answer, *)
(* and the controls that its rendering enables (`...Offers`).              *)
(*                                                                         *)
(* What the server decides is reduced to how many units of an item are     *)
(* still to be handled; the modules Fulfillment, CartonFlow, Receiving and *)
(* TemporaryStorage have the details.                                      *)
(***************************************************************************)
EXTENDS Naturals, FiniteSets

CONSTANTS
    Items,     \* things the worker scans first
    Places,    \* shelves, bins and containers; also codes that no item carries
    Fits,      \* the places that the server accepts for an item
    Stock,     \* units of an item where it has more than one
    Verified,  \* shipments that some client has verified
    Days,      \* what behaviours show: a page, a scanner on it, the labels at
               \* hand, and bounds: `tries`, requests that the worker makes;
               \* `lost`, requests that fail or whose answer is lost; `leaves`,
               \* times the worker leaves the page; `views`, times the camera
               \* is shown something else
    None

TwoScans == {"sorting", "orders", "putaway", "storage"}
OneScan == {"packing", "shipping"}

(* The scanner of a page reads texts with "tesseract", for which several    *)
(* frames have to agree; only receiving can be switched to "ppocr", where   *)
(* one frame does.  "none": the worker uses the keyboard.                   *)
Bounds == [tries : Nat, lost : Nat, leaves : Nat, views : Nat]
Day == [task : TwoScans \cup OneScan \cup {"receiving"},
        scanner : {"none", "tesseract", "ppocr"},
        labels : SUBSET (Items \cup Places), bounds : Bounds]

TasksAssumption ==
    /\ Days \subseteq Day
    /\ \A d \in Days : d.scanner = "ppocr" => d.task = "receiving"
    /\ Items \cap Places = {} /\ None \notin Items \cup Places
    /\ Fits \subseteq Places /\ Verified \subseteq Items
    /\ Stock \in Nat \ {0}

VARIABLES
    day,      \* the page and the rest of what the behaviour shows
    screen,   \* its state
    calls,    \* requests in flight
    outcome,  \* what it tells the scanner
    server,   \* what the server has recorded
    last,     \* the item whose label the page took last
    accepted, \* first scans of each item that a decision told the worker to go on with
    left      \* the bounds: what of them is left

screenVars == <<day, screen, calls, outcome, server, last, accepted, left>>

task == day.task
Labels == day.labels
Units == IF task \in {"storage", "receiving"} THEN Stock ELSE 1
Ops == 0 .. day.bounds.tries

(* A decision of the server, or a card that matched: `open` when the page  *)
(* offers to commit it, `op` the operation id a commit will carry.         *)
Hand == [item : Items, open : BOOLEAN, op : Ops]
NoHand == [item |-> None, open |-> FALSE, op |-> 0]

(* "away": the worker is on the terminal home.  Putaway needs a session     *)
(* ("closed" without one, "error" when it could not be read, "done" when it *)
(* was finished here), and receiving a lane ("closed" without one).         *)
Screen == [phase : {"away", "loading", "error", "closed", "open", "done"},
           hand : Hand \cup {NoHand}, busy : BOOLEAN, missing : Labels \cup {None},
           reported : BOOLEAN, cards : SUBSET Items]
Mounted == [phase |-> "away", hand |-> NoHand, busy |-> FALSE, missing |-> None,
            reported |-> FALSE, cards |-> {}]

Call == [kind : {"scan", "commit", "bin", "start", "resume", "finish", "review", "report",
                 "refresh", "cards"},
         item : Labels \cup {None}, place : Labels \cup {None}, op : Ops,
         mine : BOOLEAN,  \* made by the page that is mounted
         answer : {"none", "good", "ok", "bad", "info", "missing", "failed"},
         cards : SUBSET Items]

TasksTypeOK ==
    /\ day \in Days
    /\ screen \in Screen
    /\ calls \subseteq Call
    /\ outcome \in [kind : {"none", "ok", "bad", "info"}, token : BOOLEAN]
    /\ server \in [count : [Items -> Nat], gone : SUBSET Items, ops : SUBSET Ops,
                   bins : BOOLEAN,     \* the order has its customer bin
                   session : BOOLEAN,  \* the worker has an open putaway session
                   reviews : Nat, reports : Nat]
    /\ last \in Items \cup {None}
    /\ accepted \in [Items -> Nat]
    /\ left \in Bounds

TasksInit ==
    /\ day \in Days
    /\ screen = Mounted
    /\ calls = {}
    /\ outcome = [kind |-> "none", token |-> FALSE]
    /\ server \in [count : {[i \in Items |-> 0]}, gone : {{}}, ops : {{}},
                   bins : IF task = "orders" THEN BOOLEAN ELSE {FALSE},
                   session : {FALSE}, reviews : {0}, reports : {0}]
    /\ last = None
    /\ accepted = [i \in Items |-> 0]
    /\ left = day.bounds

-----------------------------------------------------------------------------
(* Requests *)

(* report(kind, text): the outcome gets a new token, the time.             *)
Says(kind) == outcome' = [kind |-> kind, token |-> ~outcome.token]

Ask(kind, item, place, op) ==
    calls' = calls \cup {[kind |-> kind, item |-> item, place |-> place, op |-> op,
                          mine |-> TRUE, answer |-> "none", cards |-> {}]}

Request(kind, item, place, op) ==
    /\ left.tries > 0
    /\ left' = [left EXCEPT !.tries = @ - 1]
    /\ Ask(kind, item, place, op)

Waits == screen' = [screen EXCEPT !.busy = TRUE]
Quietly == UNCHANGED <<day, outcome, server, last, accepted>>

(* A new operation id (crypto.randomUUID).                                 *)
Fresh == left.tries
Noted(l) == last' = IF l \in Items THEN l ELSE last

(* The first scan; storage draws the operation id that the placement will  *)
(* carry.                                                                  *)
AskDecision(l) ==
    /\ Request("scan", l, None, Fresh) /\ Waits /\ Noted(l)
    /\ UNCHANGED <<day, outcome, server, accepted>>

(* The operation id of a commit: storage keeps the one of the scan, and    *)
(* receiving draws one for each press of CONFIRM.                          *)
OperationDrawn(h) == Fresh
OperationOf(h) == IF task = "receiving" THEN Fresh ELSE h.op

Commit(place) ==
    Request("commit", screen.hand.item, place, OperationOf(screen.hand)) /\ Waits /\ Quietly

-----------------------------------------------------------------------------
(* What the pages do with a value from a scanner or from the keyboard.  A  *)
(* page that is busy drops it.                                             *)
NeverBusy == FALSE
Busy == screen.busy

TwoSteps(l) == IF screen.hand = NoHand THEN AskDecision(l) ELSE Commit(l)

SortingSubmit(l) == task = "sorting" /\ TwoSteps(l)
OrderSubmit(l) == task = "orders" /\ TwoSteps(l)
ScanBin(l) == task = "packing" /\ AskDecision(l)
ScanShipment(l) == task = "shipping" /\ AskDecision(l)

(* submitCode: without a session nothing; a session that was finished here *)
(* is still one.                                                           *)
SubmitCode(l) == task = "putaway" /\ screen.phase \in {"open", "done"} /\ TwoSteps(l)

ProductScan(l) == task = "storage" /\ screen.hand = NoHand /\ AskDecision(l)
ContainerScan(l) == task = "storage" /\ screen.hand # NoHand /\ Commit(l)

(* handleScan of ReceivingHome: the match is made on the device, with the  *)
(* cards of the last answer.  A card that is complete, or one of several   *)
(* that match, is only told.  A code without a card is reported to the     *)
(* server, which answers with the cards, and the page does not wait.       *)
MatchCard(l, cards) ==
    /\ \/ /\ l \in cards /\ last' = l
          /\ screen' = [screen EXCEPT !.hand = [item |-> l, open |-> TRUE, op |-> 0]]
          /\ UNCHANGED <<calls, left>>
       \/ l \in Items \ cards /\ UNCHANGED <<screen, calls, left, last>>
       \/ l \notin cards /\ Request("cards", None, None, 0) /\ UNCHANGED <<screen, last>>
    /\ UNCHANGED <<day, outcome, server, accepted>>

HandleScan(l) == task = "receiving" /\ screen.phase = "open" /\ MatchCard(l, screen.cards)

Submit(l) ==
    \/ Busy /\ UNCHANGED screenVars
    \/ /\ ~Busy
       /\ \/ SortingSubmit(l) \/ OrderSubmit(l) \/ SubmitCode(l)
          \/ ProductScan(l) \/ ContainerScan(l)
          \/ ScanBin(l) \/ ScanShipment(l) \/ HandleScan(l)

-----------------------------------------------------------------------------
(* What the pages offer: the controls that are shown and enabled.          *)

Free(controls) == IF screen.busy THEN {} ELSE controls
Holding(controls) == IF screen.hand # NoHand THEN controls ELSE {}

SortingOffers == {"scanner"} \cup Free({"enter"} \cup Holding({"clear"}))
OrderOffers == {"scanner"} \cup Free({"enter", "bin"} \cup Holding({"clear"}))
PackingOffers == {"scanner"} \cup Free({"enter"} \cup IF screen.hand.open THEN {"pack"} ELSE {})
ShippingOffers == {"scanner"} \cup Free({"enter"} \cup IF screen.hand.open THEN {"dispatch"} ELSE {})

(* Without a session: START PUTAWAY, or RETRY when it could not be read.   *)
StartOffers ==
    CASE screen.phase = "closed" -> Free({"start"})
      [] screen.phase = "error" -> Free({"retry"})
      [] OTHER -> {}

(* With one; the waiting cartons can be picked in a finished session too.  *)
PutawayOffers ==
    Free(IF screen.hand = NoHand THEN {"row"} ELSE {}) \cup
    IF screen.phase = "open" THEN {"scanner"} \cup Free({"enter", "finish"} \cup Holding({"clear"}))
    ELSE {}

(* The tiles of the sections and SECTIONS are never disabled.              *)
BoardOffers == {"scanner", "sections"} \cup Free(IF screen.reported THEN {} ELSE {"report"})
StorageOffers ==
    Free({"enter"} \cup Holding({"clear"}) \cup
         IF screen.missing # None THEN {"review", "rescan"} ELSE {})

(* A lane shows the scanner and the input, or the card that matched.  The  *)
(* lanes, their CLOSE and REFRESH are never disabled, nor is the input.    *)
ReceivingOffers ==
    IF screen.phase = "loading" THEN {}
    ELSE {"lane", "refresh"} \cup
         IF screen.phase # "open" THEN {}
         ELSE IF screen.hand = NoHand THEN {"enter"} ELSE Free({"clear", "confirm"})

Offers ==
    CASE screen.phase = "away" -> {}
      [] screen.phase # "away" /\ task = "sorting" -> SortingOffers
      [] screen.phase # "away" /\ task = "orders" -> OrderOffers
      [] screen.phase # "away" /\ task = "packing" -> PackingOffers
      [] screen.phase # "away" /\ task = "shipping" -> ShippingOffers
      [] screen.phase # "away" /\ task = "storage" -> BoardOffers \cup StorageOffers
      [] screen.phase # "away" /\ task = "receiving" -> ReceivingOffers
      [] screen.phase \in {"loading", "error", "closed"} /\ task = "putaway" -> StartOffers
      [] screen.phase \in {"open", "done"} /\ task = "putaway" -> PutawayOffers

-----------------------------------------------------------------------------
(* The controls *)

(* From the terminal home to the page: putaway asks for the worker's open  *)
(* session, receiving for the cards.                                       *)
Enter ==
    /\ screen.phase = "away"
    /\ IF task \in {"putaway", "receiving"}
       THEN /\ screen' = [screen EXCEPT !.phase = "loading"]
            /\ Ask(IF task = "putaway" THEN "resume" ELSE "cards", None, None, 0)
       ELSE screen' = [screen EXCEPT !.phase = "open"] /\ UNCHANGED calls
    /\ Quietly /\ UNCHANGED left

(* The worker leaves the page, and may come back to it: a new page.  What  *)
(* the old one asked goes on, and nobody reads the answers.                *)
Leave ==
    /\ left.leaves > 0 /\ screen.phase # "away"
    /\ left' = [left EXCEPT !.leaves = @ - 1]
    /\ screen' = Mounted
    /\ outcome' = [kind |-> "none", token |-> FALSE]
    /\ calls' = {[c EXCEPT !.mine = FALSE] : c \in {d \in calls : d.answer = "none"}}
    /\ UNCHANGED <<day, server, last, accepted>>

TypeIn(l) == "enter" \in Offers /\ Submit(l)
PickRow(l) == "row" \in Offers /\ l \in Items /\ Submit(l)

(* doPack, dispatch and confirm: the button below what was scanned.        *)
DoPack == "pack" \in Offers /\ Commit(None)
Dispatch == "dispatch" \in Offers /\ Commit(None)
ConfirmCard == "confirm" \in Offers /\ Commit(None)

(* CANCEL, SCAN NEXT, RESCAN; a tile also forgets the outcome.             *)
ClearHand ==
    /\ \/ "clear" \in Offers /\ UNCHANGED outcome
       \/ "rescan" \in Offers /\ UNCHANGED outcome
       \/ /\ "sections" \in Offers /\ (screen.hand # NoHand \/ screen.missing # None)
          /\ \/ UNCHANGED outcome
             \/ outcome' = [outcome EXCEPT !.kind = "none"]
    /\ screen' = [screen EXCEPT !.hand = NoHand, !.missing = None]
    /\ UNCHANGED <<day, calls, server, last, accepted, left>>

(* openLane and closeScanner of ReceivingHome.                             *)
SwitchLane ==
    /\ "lane" \in Offers
    /\ screen' = [screen EXCEPT !.phase = IF @ = "open" THEN "closed" ELSE "open", !.hand = NoHand]
    /\ Quietly /\ UNCHANGED <<calls, left>>

(* createBin of OrderSortingTask.                                          *)
AskBin == "bin" \in Offers /\ Request("bin", None, None, 0) /\ Waits /\ Quietly

(* startSession, RETRY (which clears the error and does not wait), finish. *)
StartSession == "start" \in Offers /\ Request("start", None, None, 0) /\ Waits /\ Quietly
Retry ==
    /\ "retry" \in Offers /\ Request("resume", None, None, 0)
    /\ screen' = [screen EXCEPT !.phase = "closed"]
    /\ Quietly
Finish == "finish" \in Offers /\ Request("finish", None, None, 0) /\ Waits /\ Quietly

(* sendToReview and submitRapport of TempStorageTask.                      *)
SendToReview ==
    "review" \in Offers /\ Request("review", screen.missing, None, Fresh) /\ Waits /\ Quietly
SubmitRapport == "report" \in Offers /\ Request("report", None, None, 0) /\ Waits /\ Quietly

(* The feed of ReceivingHome is read every 20 s, when the page is shown    *)
(* again, and by REFRESH.                                                  *)
Poll ==
    /\ task = "receiving" /\ screen.phase # "away"
    /\ ~ \E c \in calls : c.kind = "cards"
    /\ Request("cards", None, None, 0)
    /\ UNCHANGED screen /\ Quietly

WorkerStep ==
    \/ Enter \/ DoPack \/ Dispatch \/ ConfirmCard \/ ClearHand \/ SwitchLane \/ AskBin
    \/ StartSession \/ Retry \/ Finish \/ SendToReview \/ SubmitRapport \/ Poll
    \/ \E l \in Labels : TypeIn(l) \/ PickRow(l)

-----------------------------------------------------------------------------
(* The server *)

Waiting(i) == i \notin server.gone /\ server.count[i] < Units

(* sortingScanArticle, orderSortingScanArticle, packingScanContainer and   *)
(* shippingScan: an unknown code is an error, an item that is past this    *)
(* work, or whose bin is not complete, an answer without a way on.         *)
ItemDecision(l, unknown) ==
    IF l \notin Items THEN unknown ELSE IF Waiting(l) THEN "good" ELSE "bad"
ArticleDestination(l) == ItemDecision(l, "failed")
ArticleAssignment(l) == ItemDecision(l, "failed")
BinContents(l) == ItemDecision(l, "failed")
ShipmentCard(l) == ItemDecision(l, "failed")

(* scanCarton of putaway takes any carton that was received, stored ones   *)
(* too, since a carton may be moved.                                       *)
CartonReady(l) == IF l \in Items THEN "good" ELSE "bad"

(* scanProduct of temporary storage.                                       *)
ProductTarget(l) == ItemDecision(l, "missing")

Decision(l) ==
    CASE task = "sorting" -> ArticleDestination(l)
      [] task = "orders" -> ArticleAssignment(l)
      [] task = "packing" -> BinContents(l)
      [] task = "shipping" -> ShipmentCard(l)
      [] task = "putaway" -> CartonReady(l)
      [] task = "storage" -> ProductTarget(l)

(* What a commit does: so many units more, and the operation ids are kept  *)
(* where the server knows them.                                            *)
Does(answer, n, op) == [answer |-> answer, units |-> n, ops |-> server.ops \cup op]

(* sortingStore, orderSortingAssign, pack and ship refuse what is past     *)
(* this work; ship also what has no verification.                          *)
FlowCommit(c) ==
    IF /\ Waiting(c.item)
       /\ task \in TwoScans => c.place \in Fits
       /\ task = "orders" => server.bins
       /\ task = "shipping" => c.item \in Verified
    THEN Does("ok", 1, {}) ELSE Does("failed", 0, {})

(* place of putaway: a carton that is stored is moved, and stays one.      *)
CartonCommit(c) ==
    IF ~server.session THEN Does("failed", 0, {})
    ELSE IF c.place \in Fits THEN Does("ok", 1 - server.count[c.item], {}) ELSE Does("bad", 0, {})

(* place of temporary storage: ALREADY_STORED comes before the replay, the *)
(* replay before the container is looked at; a container that this fills   *)
(* is answered with the next one.                                          *)
ProductCommit(c) ==
    IF ~Waiting(c.item) THEN {Does("bad", 0, {})}
    ELSE IF c.op \in server.ops THEN {Does("ok", 0, {})}
    ELSE IF c.place \notin Fits THEN {Does("bad", 0, {})}
    ELSE {Does("ok", 1, {c.op}), Does("info", 1, {c.op})}

(* homeConfirmProduct, homeConfirmCarton: a card that is complete is told. *)
CardCommit(c) ==
    IF c.op \in server.ops THEN Does("ok", 0, {})
    ELSE IF Waiting(c.item) THEN Does("ok", 1, {c.op}) ELSE Does("bad", 0, {})

Committed(c) ==
    CASE task = "putaway" -> {CartonCommit(c)}
      [] task = "storage" -> ProductCommit(c)
      [] task = "receiving" -> {CardCommit(c)}
      [] OTHER -> {FlowCommit(c)}

(* The cards of workerHome: what is not complete.                          *)
WorkerHome(count) == IF task = "receiving" THEN {i \in Items : count[i] < Units} ELSE {}

Answers(c, answer, cards) ==
    calls' = (calls \ {c}) \cup {[c EXCEPT !.answer = answer, !.cards = cards]}

ServeScan(c) == c.kind = "scan" /\ Answers(c, Decision(c.item), {}) /\ UNCHANGED server

ServeCommit(c) ==
    /\ c.kind = "commit"
    /\ \E d \in Committed(c) :
          LET count == [server.count EXCEPT ![c.item] = @ + d.units]
          IN  /\ server' = [server EXCEPT !.count = count, !.ops = d.ops]
              /\ Answers(c, d.answer, WorkerHome(count))

(* ensureCustomerContainer: the bin of the order, made if there is none.   *)
ServeBin(c) == c.kind = "bin" /\ server' = [server EXCEPT !.bins = TRUE] /\ Answers(c, "ok", {})

(* start, active and complete of putaway: one open session of the worker.  *)
ServeSession(c) ==
    \/ c.kind = "start" /\ server' = [server EXCEPT !.session = TRUE] /\ Answers(c, "good", {})
    \/ /\ c.kind = "resume" /\ UNCHANGED server
       /\ Answers(c, IF server.session THEN "good" ELSE "bad", {})
    \/ c.kind = "finish" /\ server' = [server EXCEPT !.session = FALSE] /\ Answers(c, "ok", {})

ServeReview(c) ==
    /\ c.kind = "review"
    /\ server' = [server EXCEPT !.reviews = @ + 1, !.ops = @ \cup {c.op}]
    /\ Answers(c, "info", {})

ServeRapport(c) ==
    c.kind = "report" /\ server' = [server EXCEPT !.reports = @ + 1] /\ Answers(c, "ok", {})

ServeLists(c) ==
    c.kind \in {"refresh", "cards"} /\ Answers(c, "ok", WorkerHome(server.count)) /\ UNCHANGED server

Serve(c) ==
    /\ c.answer = "none"
    /\ \/ ServeScan(c) \/ ServeCommit(c) \/ ServeBin(c) \/ ServeSession(c)
       \/ ServeReview(c) \/ ServeRapport(c) \/ ServeLists(c)
    /\ UNCHANGED <<day, screen, outcome, last, accepted, left>>

(* The request does not arrive, or its answer is lost.                     *)
Lose(c) ==
    /\ c.answer # "failed" /\ c.mine
    /\ left.lost > 0
    /\ left' = [left EXCEPT !.lost = @ - 1]
    /\ Answers(c, "failed", {})
    /\ UNCHANGED <<day, screen, outcome, server, last, accepted>>

(* Another worker, at another terminal, finishes an item.                  *)
Elsewhere(i) ==
    /\ task \in {"sorting", "orders", "packing", "shipping"}
    /\ Waiting(i)
    /\ server' = [server EXCEPT !.gone = @ \cup {i}]
    /\ UNCHANGED <<day, screen, calls, outcome, last, accepted, left>>

-----------------------------------------------------------------------------
(* The answers *)

(* After some answers a page reads its lists again, still busy.            *)
Reacts(c, hand, missing, again) ==
    /\ screen' = [screen EXCEPT !.busy = again, !.hand = hand, !.missing = missing]
    /\ calls' = (calls \ {c}) \cup
                IF again THEN {[c EXCEPT !.kind = "refresh", !.item = None, !.place = None,
                                         !.op = 0, !.answer = "none", !.cards = {}]}
                ELSE {}

Ends(c, phase) ==
    /\ screen' = [screen EXCEPT !.busy = FALSE, !.phase = phase]
    /\ calls' = calls \ {c} /\ UNCHANGED outcome

Taken(c) == [item |-> c.item, open |-> TRUE, op |-> c.op]
Tone(c) ==
    CASE c.answer = "ok" -> "ok" [] c.answer \in {"good", "info"} -> "info" [] OTHER -> "bad"

(* What a page holds after an answer.  Packing and shipping show also what *)
(* they cannot commit, and drop what they showed when the scan fails.      *)
AfterCommit(c) == IF c.answer \in {"ok", "info"} THEN NoHand ELSE screen.hand
AfterScan(c) == IF c.answer = "good" THEN Taken(c) ELSE screen.hand
KeepsView(c) == IF c.answer = "good" THEN Taken(c) ELSE screen.hand
View(c) ==
    CASE c.answer = "good" -> Taken(c)
      [] c.answer = "bad" -> [Taken(c) EXCEPT !.open = FALSE]
      [] OTHER -> NoHand

(* The second half of each handler.                                        *)
TwoStepsAnswered(c, again) ==
    /\ \/ c.kind = "scan" /\ Reacts(c, AfterScan(c), None, FALSE)
       \/ c.kind = "commit" /\ Reacts(c, AfterCommit(c), None, again /\ c.answer = "ok")
    /\ Says(Tone(c))

SortingAnswered(c) == task = "sorting" /\ TwoStepsAnswered(c, FALSE)
OrderAnswered(c) == task = "orders" /\ TwoStepsAnswered(c, TRUE)
PutawayAnswered(c) == task = "putaway" /\ TwoStepsAnswered(c, TRUE)

BinAnswered(c) ==
    c.kind = "bin" /\ Reacts(c, screen.hand, None, c.answer = "ok") /\ Says(Tone(c))

(* The answer about a session, where the page has none: "error" when the   *)
(* request failed.  The reading of the open session leaves `busy` alone.   *)
SessionPhase(c) ==
    CASE c.answer = "good" -> "open"
      [] c.answer # "good" /\ screen.phase \in {"open", "done"} -> screen.phase
      [] OTHER -> IF c.answer = "failed" THEN "error" ELSE "closed"

SessionAnswered(c) ==
    \/ c.kind = "start" /\ Ends(c, SessionPhase(c))
    \/ /\ c.kind = "resume"
       /\ screen' = [screen EXCEPT !.phase = SessionPhase(c)]
       /\ calls' = calls \ {c} /\ UNCHANGED outcome
    \/ c.kind = "finish" /\ Ends(c, IF c.answer = "ok" THEN "done" ELSE screen.phase)

PackingAnswered(c) ==
    /\ task = "packing" /\ Says(Tone(c))
    /\ \/ c.kind = "scan" /\ Reacts(c, View(c), None, FALSE)
       \/ c.kind = "commit" /\ Reacts(c, AfterCommit(c), None, FALSE)

ShippingAnswered(c) ==
    /\ task = "shipping" /\ Says(Tone(c))
    /\ \/ c.kind = "scan" /\ Reacts(c, View(c), None, FALSE)
       \/ c.kind = "commit" /\ Reacts(c, AfterCommit(c), None, FALSE)

ProductAnswered(c) ==
    /\ task = "storage" /\ c.kind = "scan" /\ Says(Tone(c))
    /\ Reacts(c, AfterScan(c),
              CASE c.answer = "good" -> None
                [] c.answer = "missing" -> c.item
                [] OTHER -> screen.missing, FALSE)

ContainerAnswered(c) ==
    /\ task = "storage" /\ c.kind = "commit" /\ Says(Tone(c))
    /\ Reacts(c, AfterCommit(c), screen.missing, TRUE)

ReviewAnswered(c) ==
    /\ c.kind = "review" /\ Says(Tone(c))
    /\ IF c.answer = "failed" THEN Reacts(c, screen.hand, screen.missing, FALSE)
       ELSE Reacts(c, screen.hand, None, TRUE)

RapportAnswered(c) ==
    /\ c.kind = "report" /\ Says(Tone(c))
    /\ screen' = [screen EXCEPT !.busy = FALSE, !.reported = @ \/ c.answer = "ok"]
    /\ calls' = calls \ {c}

(* confirm of ReceivingHome tells the scanner nothing.                     *)
CardAnswered(c) ==
    /\ task = "receiving" /\ c.kind = "commit"
    /\ screen' = IF c.answer = "failed" THEN [screen EXCEPT !.busy = FALSE]
                 ELSE [screen EXCEPT !.busy = FALSE, !.hand = NoHand, !.cards = c.cards]
    /\ calls' = calls \ {c} /\ UNCHANGED outcome

(* load and logMismatch.                                                   *)
CardsAnswered(c) ==
    /\ c.kind = "cards"
    /\ screen' = [screen EXCEPT !.cards = IF c.answer = "ok" THEN c.cards ELSE @,
                                !.phase = IF @ = "loading" THEN "closed" ELSE @]
    /\ calls' = calls \ {c} /\ UNCHANGED outcome

ListsAnswered(c) == c.kind = "refresh" /\ Ends(c, screen.phase)

(* Nobody hears the answer to a page that was left.                        *)
Heard(c) ==
    /\ \/ SortingAnswered(c) \/ OrderAnswered(c) \/ PutawayAnswered(c) \/ SessionAnswered(c)
       \/ BinAnswered(c) \/ PackingAnswered(c) \/ ShippingAnswered(c)
       \/ ProductAnswered(c) \/ ContainerAnswered(c) \/ ReviewAnswered(c) \/ RapportAnswered(c)
       \/ CardAnswered(c) \/ CardsAnswered(c) \/ ListsAnswered(c)
    /\ accepted' = IF c.kind = "scan" /\ c.answer = "good" THEN [accepted EXCEPT ![c.item] = @ + 1]
                   ELSE accepted

Answered(c) ==
    /\ c.answer # "none"
    /\ \/ c.mine /\ Heard(c)
       \/ ~c.mine /\ calls' = calls \ {c} /\ UNCHANGED <<screen, outcome, accepted>>
    /\ UNCHANGED <<day, server, last, left>>

(* What the network and the server do.                                     *)
WireStep ==
    \/ \E c \in calls : Answered(c) \/ Serve(c) \/ Lose(c)
    \/ \E i \in Items \cap Labels : Elsewhere(i)

-----------------------------------------------------------------------------
(* The server counts no more units than first scans were accepted: a       *)
(* commit whose answer was lost and that the worker repeats, a label that  *)
(* is scanned again, a page that is left and opened again are not another  *)
(* unit (TempStorageTask.tsx:147-149, 158-166: the scan draws the          *)
(* operation id that every placement of it carries).                       *)
CountedAsHandled ==
    task # "receiving" => \A i \in Items : server.count[i] <= accepted[i]

(* What is committed is what the page took last, however the answers of    *)
(* earlier scans come (busy, SortingTask.tsx:58; setView(null),            *)
(* PackingTask.tsx:60).                                                    *)
CommitsWhatWasScanned ==
    [][\A c \in calls' \ calls :
          (c.kind = "commit" /\ c.mine /\ c.answer = "none") => c.item = last]_screenVars
=============================================================================
