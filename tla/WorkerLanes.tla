------------------------------ MODULE WorkerLanes ------------------------------
(***************************************************************************)
(* The work screens of the handheld on top of its session: Receiving Home, *)
(* Temporary Storage, Batch build and Batch receive                        *)
(* (ReceivingHomeWorkflow.kt, TsStorageWorkflow.kt, BatchBuildWorkflow.kt, *)
(* BatchReceiveWorkflow.kt), each with the part of the server that it      *)
(* talks to, reduced to what the answers depend on.                        *)
(*                                                                         *)
(* A call is a coroutine with one request in flight; what happens between  *)
(* two requests, and after the last one, is one step.  The transport is    *)
(* the one of WorkerSession, reduced to its results: an answer, "failed"   *)
(* (nothing was recorded, and the device knows), "lost" (the device does   *)
(* not know), and "401" when the session could not be renewed.  A refusal  *)
(* of Receiving Home that withdraws the permission blocks its lanes until  *)
(* the context is loaded again; here it ends like another failure.         *)
(***************************************************************************)
EXTENDS WorkerSession

CONSTANTS
    Letters,    \* sections of Temporary Storage
    Batches,
    Units,      \* AYROVI unit codes the server may give out
    Pieces,     \* units the product card of Receiving Home expects
    MaxScans,   \* bound: scans of Receiving Home
    MaxItems,   \* bound: product scans of Temporary Storage
    MaxLost     \* bound: answers that are lost in one behaviour

ASSUME LanesAssumption ==
    /\ Pieces \in Nat /\ MaxScans \in Nat /\ MaxItems \in Nat /\ MaxLost \in Nat
    /\ None \notin Letters \cup Batches \cup Units

VARIABLES
    call,     \* requests of the work screens in flight
    lost,     \* answers that were lost so far
    home,     \* ReceivingHomeState and the fields of its workflow
    counted,  \* the server: what Receiving counted per code
    scans,    \* scans of each code by the worker
    told,     \* the worker was told that the outcome of a receipt is unknown
    storage,  \* TsStorageState
    placed,   \* the server: items stored per product scan
    done,     \* the server: operation ids of placements it has recorded
    build,    \* BatchBuildState
    batches,  \* the server: batches that are built
    intake,   \* BatchReceiveState
    got,      \* the server: units received of each batch
    report,   \* ReceivingReportState
    filed     \* the server: the status of the report of the open session

homeVars == <<home, counted, scans, told>>
storageVars == <<storage, placed, done>>
buildVars == <<build, batches>>
intakeVars == <<intake, got>>
reportVars == <<report, filed>>
lanes == <<call, lost, homeVars, storageVars, buildVars, intakeVars, reportVars>>
lanesVars == <<vars, lanes>>

(* "model" is the SKU of a product card, "unit" the label of one unit of a *)
(* batch, "stray" a code that no card carries.                             *)
Codes == {"model", "unit", "carton", "stray"}
Cards == Codes \ {"stray"}

ASSUME CodesAssumption == None \notin Codes

Expected(c) == IF c = "model" THEN Pieces ELSE 1
Feed == [Cards -> Nat]
Steps == {"HOME", "AUTO", "PRODUCT", "CARTON", "REVIEW"}
Scans == 1 .. MaxItems
Total == 2  \* units of a batch that is received

Pending == [scan : Scans, op : Nat, section : Letters]
NoCall == [kind |-> "none", at |-> "idle"]
Kinds == [home |-> {"load", "poll", "confirm", "mismatch"},
          storage |-> {"tsHome", "tsBoard", "tsSection", "tsScan", "tsTarget", "tsPlace",
                       "tsReview", "tsQuiet"},
          build |-> {"open", "create", "detail", "add", "submit"},
          intake |-> {"queue", "start", "receive", "complete"},
          report |-> {"find", "view", "draft", "file"}]
Lanes == DOMAIN Kinds

LanesTypeOK ==
    /\ TypeOK
    /\ \A j \in Jobs : call[j] = NoCall \/ (call[j].at \in {"sent", "answered"}
                                             /\ \E l \in uses : call[j].kind \in Kinds[l])
    /\ lost \in 0 .. MaxLost
    /\ home \in [step : Steps, auto : BOOLEAN, busy : BOOLEAN, review : Codes \cup {None},
                 last : Codes \cup {None}, known : SUBSET Codes, expired : BOOLEAN, feed : Feed \cup {None}]
    /\ counted \in Feed /\ scans \in [Codes -> Nat] /\ told \in BOOLEAN
    /\ storage \in [busy : BOOLEAN, loaded : BOOLEAN, letter : Letters \cup {None},
                    board : Letters \cup {None}, pending : Pending \cup {None},
                    unknown : BOOLEAN, ops : Nat]
    /\ placed \in [Scans -> Nat] /\ done \subseteq Nat
    /\ build \in [busy : BOOLEAN, batch : Batches \cup {None}, rows : SUBSET Units,
                  submitted : BOOLEAN, expired : BOOLEAN]
    /\ batches \in [Batches -> [status : {"none", "CREATED", "SUBMITTED"}, items : SUBSET Units]]
    /\ intake \in [busy : BOOLEAN, batch : Batches \cup {None}, expected : Nat, scanned : Nat,
                   completed : BOOLEAN, expired : BOOLEAN]
    /\ got \in [Batches -> [status : {"SENT", "OPEN", "COMPLETED"}, units : SUBSET (1 .. Total)]]
    /\ report \in [loading : BOOLEAN, session : BOOLEAN, none : BOOLEAN, expired : BOOLEAN,
                   view : {"unknown", "DRAFT", "SUBMITTED"}]
    /\ filed \in {"DRAFT", "SUBMITTED"}

(* With a work screen in the workload, a worker is signed in and verified. *)
SignedIn(u, i) ==
    /\ store = [token |-> i, version |-> 1, identity |-> 1]
    /\ session = [x \in Ids |-> IF x = i THEN [status |-> "live", user |-> u, login |-> i] ELSE Free]
    /\ app = [Started(store) EXCEPT !.generation = 1, !.logins = 1, !.identity = 1,
                                    !.verified = TRUE, !.me = u]
    /\ job = [j \in Jobs |-> Idle]
    /\ outcome = "OTHER" /\ synced = TRUE /\ revoked = {} /\ kills = 0
    /\ uses \in Workloads

LanesInit ==
    /\ \/ Init /\ uses \cap Lanes = {}
       \/ (\E u \in Users, i \in Ids : SignedIn(u, i)) /\ uses \cap Lanes # {}
    /\ call = [j \in Jobs |-> NoCall]
    /\ lost = 0
    /\ home = [step |-> "HOME", auto |-> FALSE, busy |-> FALSE, review |-> None, last |-> None,
               known |-> {}, expired |-> FALSE, feed |-> None]
    /\ counted = [c \in Cards |-> 0] /\ scans = [c \in Codes |-> 0] /\ told = FALSE
    /\ storage = [busy |-> FALSE, loaded |-> FALSE, letter |-> None, board |-> None,
                  pending |-> None, unknown |-> FALSE, ops |-> 0]
    /\ placed = [n \in Scans |-> 0] /\ done = {}
    /\ build = [busy |-> FALSE, batch |-> None, rows |-> {}, submitted |-> FALSE, expired |-> FALSE]
    /\ batches = [b \in Batches |-> [status |-> "none", items |-> {}]]
    /\ intake = [busy |-> FALSE, batch |-> None, expected |-> 0, scanned |-> 0,
                 completed |-> FALSE, expired |-> FALSE]
    /\ got = [b \in Batches |-> [status |-> "SENT", units |-> {}]]
    /\ report = [loading |-> TRUE, session |-> FALSE, none |-> FALSE, expired |-> FALSE,
                 view |-> "unknown"]
    /\ filed = "DRAFT"

-------------------------------------------------------------------------------
(* Calls                                                                   *)

Screen(l) == Uses(l) /\ app.signedIn /\ app.me # None
Online == app.verified

Sent(kind, in) == [kind |-> kind, at |-> "sent", in |-> in]
Calls(j, kind, in) == call[j] = NoCall /\ call' = [call EXCEPT ![j] = Sent(kind, in)]
Continues(j, kind, in) == call' = [call EXCEPT ![j] = Sent(kind, in)]
Ended(j) == call' = [call EXCEPT ![j] = NoCall]

Arrives(j, why, out) ==
    call' = [call EXCEPT ![j] = [kind |-> call[j].kind, at |-> "answered", in |-> call[j].in,
                                 why |-> why, out |-> out]]
Asked(j, kind) == call[j].at = "sent" /\ call[j].kind = kind
Answered(j, kind) == call[j].at = "answered" /\ call[j].kind = kind
Why(j) == call[j].why
Good(j) == Why(j) = "ok"

(* The server did its work: the answer arrives, or is lost on the way.     *)
Served(j, out) ==
    \/ Arrives(j, "ok", out) /\ UNCHANGED lost
    \/ lost < MaxLost /\ lost' = lost + 1 /\ Arrives(j, "lost", out)

(* The transport failed, or the server refused.                            *)
NotServed(j) ==
    /\ call[j].at = "sent"
    /\ \/ \E why \in {"failed", "401"} : Arrives(j, why, None) /\ UNCHANGED lost
       \/ lost < MaxLost /\ lost' = lost + 1 /\ Arrives(j, "lost", None)
    /\ UNCHANGED <<vars, homeVars, storageVars, buildVars, intakeVars, reportVars>>

(* A "401" that reaches a workflow has cleared the store.                  *)
Transport(j) ==
    /\ store' = IF Why(j) = "401" THEN ExpiredStore(store) ELSE store
    /\ outcome' = IF Why(j) = "401" THEN "AUTH_ERROR" ELSE outcome
    /\ UNCHANGED <<session, app, job, synced, revoked, kills, uses>>

OnlyHome == UNCHANGED <<storageVars, buildVars, intakeVars, reportVars>>
OnlyStorage == UNCHANGED <<homeVars, buildVars, intakeVars, reportVars>>
OnlyBuild == UNCHANGED <<homeVars, storageVars, intakeVars, reportVars>>
OnlyIntake == UNCHANGED <<homeVars, storageVars, buildVars, reportVars>>
OnlyReport == UNCHANGED <<homeVars, storageVars, buildVars, intakeVars>>

-------------------------------------------------------------------------------
(* Receiving Home: the device                                              *)

HomeFree == Screen("home") /\ ~home.busy /\ ~home.expired
Away(h, step) == [h EXCEPT !.step = step, !.auto = (step = "AUTO"), !.review = None, !.last = None]
Lane(h, code) == IF h.auto THEN "AUTO" ELSE IF code = "carton" THEN "CARTON" ELSE "PRODUCT"

OpenLane(step) ==
    /\ HomeFree /\ Online
    /\ home' = Away(home, step)
    /\ UNCHANGED <<vars, call, lost, counted, scans, told>> /\ OnlyHome

(* BACK is taken while a request is in flight, too.                        *)
BackToHome ==
    /\ Screen("home")
    /\ home' = Away(home, "HOME")
    /\ UNCHANGED <<vars, call, lost, counted, scans, told>> /\ OnlyHome

LoadHome(j) ==
    /\ HomeFree /\ Online
    /\ home' = [home EXCEPT !.busy = TRUE] /\ Calls(j, "load", None)
    /\ UNCHANGED <<vars, lost, counted, scans, told>> /\ OnlyHome

(* The refresh of every 30 s does not claim the workflow.                  *)
PollHome(j) ==
    /\ Screen("home") /\ home.step = "HOME" /\ ~home.busy
    /\ \A k \in Jobs : call[k].kind # "poll"
    /\ Calls(j, "poll", None)
    /\ UNCHANGED <<vars, lost, homeVars>> /\ OnlyHome

(* CardMatcher: a product card first, then a carton card.                  *)
SumOf(f) == f["model"] + f["unit"] + f["carton"] + f["stray"]

Matches(code) ==
    code \in Cards /\ (home.step = "AUTO" \/ (home.step = "CARTON" <=> code = "carton"))

Confirms(j, h, code) ==
    /\ home' = [h EXCEPT !.step = "REVIEW", !.review = code, !.busy = TRUE]
    /\ Calls(j, "confirm", [code |-> code, back |-> Lane(h, code)])

ScanHome(j, code) ==
    /\ HomeFree /\ Online /\ home.feed # None
    /\ home.step \in {"AUTO", "PRODUCT", "CARTON"}
    /\ SumOf(scans) < MaxScans
    /\ scans' = [scans EXCEPT ![code] = @ + 1]
    /\ LET h == [home EXCEPT !.last = code]
           over == Matches(code) /\ ((code = "unit" /\ code \in home.known)
                                     \/ home.feed[code] >= Expected(code))
       IN \/ /\ over
             /\ home' = [h EXCEPT !.review = None] /\ UNCHANGED call
          \/ /\ Matches(code) /\ ~over
             /\ Confirms(j, h, code)
          \/ /\ ~Matches(code)  \* the review of a failed attempt is kept
             /\ home' = [h EXCEPT !.busy = TRUE] /\ Calls(j, "mismatch", None)
    /\ UNCHANGED <<vars, lost, counted, told>> /\ OnlyHome

Retry(j) ==
    /\ HomeFree /\ Online /\ home.review # None
    /\ Confirms(j, home, home.review)
    /\ UNCHANGED <<vars, lost, counted, scans, told>> /\ OnlyHome

(* The catch of run: the review is kept, the lane's scanner is back.       *)
Failed(h, why) ==
    [h EXCEPT !.busy = FALSE, !.expired = (why = "401"),
              !.step = IF @ = "REVIEW" THEN Lane(h, h.review) ELSE @]

(* applyResult: known takes the last scan, whatever was confirmed.         *)
Applied(h, n, r) ==
    [h EXCEPT !.busy = FALSE, !.feed = r.feed, !.review = None, !.step = n.back,
              !.known = IF r.match /\ n.code # "carton" /\ h.last \notin {None, n.code}
                        THEN @ \cup {h.last} ELSE @]

HomeAnswered(j) ==
    /\ \/ /\ Answered(j, "confirm")
          /\ home' = IF Good(j) THEN Applied(home, call[j].in, call[j].out) ELSE Failed(home, Why(j))
          /\ told' = (told \/ Why(j) = "lost")
       \/ /\ Answered(j, "mismatch")
          /\ home' = IF Good(j) THEN [home EXCEPT !.busy = FALSE, !.feed = call[j].out, !.review = None]
                     ELSE Failed(home, Why(j))
          /\ UNCHANGED told
       \/ /\ Answered(j, "load")
          /\ home' = IF Good(j) THEN [home EXCEPT !.busy = FALSE, !.feed = call[j].out]
                     ELSE Failed(home, Why(j))
          /\ UNCHANGED told
       \/ /\ Answered(j, "poll")
          /\ home' = IF Good(j) THEN [home EXCEPT !.feed = call[j].out] ELSE home
          /\ UNCHANGED told
    /\ Ended(j) /\ Transport(j)
    /\ UNCHANGED <<lost, counted, scans>> /\ OnlyHome

(* Receiving Home: the server (homeConfirmProduct, homeConfirmCarton,      *)
(* homeMismatch, workerHome).  Every attempt has its own operation id.     *)
ServeHome(j) ==
    /\ \/ /\ Asked(j, "confirm")
          /\ LET c == call[j].in.code
                 match == counted[c] < Expected(c)
                 feed == IF match THEN [counted EXCEPT ![c] = @ + 1] ELSE counted
             IN counted' = feed /\ Served(j, [match |-> match, feed |-> feed])
       \/ /\ Asked(j, "load") \/ Asked(j, "poll") \/ Asked(j, "mismatch")
          /\ Arrives(j, "ok", counted) /\ UNCHANGED <<lost, counted>>
    /\ UNCHANGED <<vars, home, scans, told>> /\ OnlyHome

-------------------------------------------------------------------------------
(* Temporary Storage: the device                                           *)

MayScan == Screen("storage") /\ storage.loaded /\ ~storage.busy /\ Online
Busy(s) == [s EXCEPT !.busy = TRUE]
Rests(s) == [s EXCEPT !.busy = FALSE]

RefreshStorage(j) ==
    /\ Screen("storage") /\ ~storage.busy
    /\ storage' = Busy(storage) /\ Calls(j, "tsHome", None)
    /\ UNCHANGED <<vars, lost, placed, done>> /\ OnlyStorage

GoHome(j) ==
    /\ Screen("storage") /\ storage.letter # None
    /\ LET s == [storage EXCEPT !.letter = None, !.board = None, !.pending = None, !.unknown = FALSE]
       IN IF storage.busy THEN storage' = s /\ UNCHANGED call
          ELSE storage' = Busy(s) /\ Calls(j, "tsHome", None)
    /\ UNCHANGED <<vars, lost, placed, done>> /\ OnlyStorage

OpenSection(j, letter) ==
    /\ Screen("storage") /\ ~storage.busy
    /\ storage' = [Busy(storage) EXCEPT !.letter = letter, !.pending = None, !.unknown = FALSE]
    /\ Calls(j, "tsSection", letter)
    /\ UNCHANGED <<vars, lost, placed, done>> /\ OnlyStorage

ClearPending ==
    /\ Screen("storage")
    /\ \/ storage.pending # None /\ storage' = [storage EXCEPT !.pending = None]
       \/ storage.unknown /\ storage' = [storage EXCEPT !.unknown = FALSE]
    /\ UNCHANGED <<vars, call, lost, placed, done>> /\ OnlyStorage

ScanProduct(j) ==
    /\ MayScan /\ storage.pending = None /\ storage.ops < MaxItems
    /\ storage' = [Busy(storage) EXCEPT !.ops = @ + 1]
    /\ Calls(j, "tsScan", storage.ops + 1)
    /\ UNCHANGED <<vars, lost, placed, done>> /\ OnlyStorage

(* Mutant: the operation id is not sent.                                   *)
NoOperation(p) == None

(* Mutant: every attempt to place has an operation id of its own.          *)
FreshOperation(p) == MaxItems + Cardinality(done) + 1

(* The id made for the product scan is sent again with every container.    *)
Operation(p) == p.op

ScanContainer(j) ==
    /\ MayScan /\ storage.pending # None
    /\ storage' = Busy(storage)
    /\ Calls(j, "tsPlace", [scan |-> storage.pending.scan, op |-> Operation(storage.pending)])
    /\ UNCHANGED <<vars, lost, placed, done>> /\ OnlyStorage

SendToReview(j) ==
    /\ MayScan /\ storage.unknown
    /\ storage' = Busy(storage) /\ Calls(j, "tsReview", None)
    /\ UNCHANGED <<vars, lost, placed, done>> /\ OnlyStorage

(* refresh reads the section after the first of its two answers, and       *)
(* reloadQuietly, which claims nothing, before both.                       *)
BoardAnswered(j) ==
    \/ /\ Answered(j, "tsHome") /\ Good(j) /\ storage.letter # None
       /\ Continues(j, "tsBoard", storage.letter) /\ UNCHANGED storage
    \/ /\ Answered(j, "tsHome") /\ (Good(j) => storage.letter = None)
       /\ storage' = [Rests(storage) EXCEPT !.loaded = Good(j)] /\ Ended(j)
    \/ /\ Answered(j, "tsBoard")
       /\ storage' = [Rests(storage) EXCEPT !.loaded = TRUE,
                                            !.board = IF Good(j) THEN call[j].in ELSE None]
       /\ Ended(j)
    \/ /\ Answered(j, "tsSection")
       /\ storage' = IF Good(j) THEN [Rests(storage) EXCEPT !.loaded = TRUE, !.board = call[j].in]
                     ELSE Rests(storage)
       /\ Ended(j)
    \/ /\ Answered(j, "tsQuiet")
       /\ storage' = IF Good(j) /\ call[j].in # None THEN [storage EXCEPT !.board = call[j].in]
                     ELSE storage
       /\ Ended(j)

(* A VALID scan asks for the board of its section, then offers the unit.   *)
ProductAnswered(j) ==
    \/ /\ Answered(j, "tsScan") /\ Good(j) /\ call[j].out \in Letters
       /\ Continues(j, "tsTarget", [scan |-> call[j].in, op |-> call[j].in, section |-> call[j].out])
       /\ UNCHANGED storage
    \/ /\ Answered(j, "tsScan") /\ (Good(j) => call[j].out \notin Letters)
       /\ storage' = [Rests(storage) EXCEPT !.unknown = @ \/ (Good(j) /\ call[j].out = "unknown")]
       /\ Ended(j)
    \/ /\ Answered(j, "tsTarget")
       /\ storage' = [Rests(storage) EXCEPT !.letter = call[j].in.section, !.unknown = FALSE,
                                            !.board = IF Good(j) THEN call[j].in.section ELSE @,
                                            !.pending = call[j].in]
       /\ Ended(j)

(* WRONG_CONTAINER and a refused or failed placement keep the unit pending. *)
PlaceAnswered(j) ==
    \/ /\ Answered(j, "tsPlace") /\ Good(j) /\ call[j].out # "WRONG_CONTAINER"
       /\ storage' = [Rests(storage) EXCEPT !.pending = None]
       /\ Continues(j, "tsQuiet", storage.letter)
    \/ /\ Answered(j, "tsPlace") /\ (Good(j) => call[j].out = "WRONG_CONTAINER")
       /\ storage' = Rests(storage) /\ Ended(j)
    \/ /\ Answered(j, "tsReview")
       /\ storage' = [Rests(storage) EXCEPT !.unknown = @ /\ ~Good(j)]
       /\ IF Good(j) THEN Continues(j, "tsQuiet", storage.letter) ELSE Ended(j)

StorageAnswered(j) ==
    /\ BoardAnswered(j) \/ ProductAnswered(j) \/ PlaceAnswered(j)
    /\ Transport(j)
    /\ UNCHANGED <<lost, placed, done>> /\ OnlyStorage

(* Temporary Storage: the server (see TemporaryStorage).  A placement that *)
(* was recorded is answered again for the same operation id.               *)
ServeStorage(j) ==
    /\ \/ /\ call[j].at = "sent"
          /\ call[j].kind \in {"tsHome", "tsBoard", "tsSection", "tsTarget", "tsQuiet", "tsReview"}
          /\ Arrives(j, "ok", None) /\ UNCHANGED <<lost, placed, done>>
       \/ /\ Asked(j, "tsScan")
          /\ \E out \in Letters \cup {"unknown", "rejected"} : Arrives(j, "ok", out)
          /\ UNCHANGED <<lost, placed, done>>
       \/ /\ Asked(j, "tsPlace") /\ call[j].in.op \in done
          /\ Arrives(j, "ok", "VALID") /\ UNCHANGED <<lost, placed, done>>
       \/ /\ Asked(j, "tsPlace") /\ call[j].in.op \notin done
          /\ \/ /\ Served(j, "VALID")
                /\ done' = done \cup {call[j].in.op}
                /\ placed' = [placed EXCEPT ![call[j].in.scan] = @ + 1]
             \/ /\ \E out \in {"WRONG_CONTAINER", "REVIEW"} : Arrives(j, "ok", out)
                /\ UNCHANGED <<lost, placed, done>>
    /\ UNCHANGED <<vars, storage>> /\ OnlyStorage

-------------------------------------------------------------------------------
(* Batch build                                                             *)

CreateBatch(j, first) ==
    /\ Screen("build") /\ ~build.busy /\ build.batch = None
    /\ build' = Busy(build) /\ Calls(j, "create", first)
    /\ UNCHANGED <<vars, lost, batches>> /\ OnlyBuild

(* From the list of open batches, which may be older than the batch.       *)
ContinueBatch(j, b) ==
    /\ Screen("build") /\ ~build.busy /\ build.batch = None /\ batches[b].status # "none"
    /\ build' = Busy(build) /\ Calls(j, "detail", b)
    /\ UNCHANGED <<vars, lost, batches>> /\ OnlyBuild

AddUnit(j) ==
    /\ Screen("build") /\ ~build.busy /\ build.batch # None /\ ~build.submitted
    /\ build' = Busy(build) /\ Calls(j, "add", build.batch)
    /\ UNCHANGED <<vars, lost, batches>> /\ OnlyBuild

SubmitBatch(j) ==
    /\ Screen("build") /\ ~build.busy /\ build.batch # None /\ ~build.submitted /\ build.rows # {}
    /\ build' = Busy(build) /\ Calls(j, "submit", build.batch)
    /\ UNCHANGED <<vars, lost, batches>> /\ OnlyBuild

(* Mutant: leaving gives the workflow free although a request is running.  *)
LeftFree(s) == [s EXCEPT !.busy = FALSE]

(* leaveActive leaves busy to the request that is running.                 *)
Left(s) == s

LeaveBatch(j) ==
    /\ Screen("build") /\ build.batch # None
    /\ LET s == [Left(build) EXCEPT !.batch = None, !.rows = {}] IN
         IF build.busy THEN build' = s /\ UNCHANGED call
         ELSE build' = Busy(s) /\ Calls(j, "open", None)
    /\ UNCHANGED <<vars, lost, batches>> /\ OnlyBuild

BuildAnswered(j) ==
    /\ \/ /\ Answered(j, "open")
          /\ build' = [Rests(build) EXCEPT !.expired = (Why(j) = "401")] /\ Ended(j)
       \/ /\ Answered(j, "create") /\ Good(j)
          /\ build' = [Rests(build) EXCEPT !.batch = call[j].out.batch, !.rows = call[j].out.rows,
                                           !.submitted = FALSE]
          /\ Ended(j)
       \/ /\ Answered(j, "detail") /\ Good(j)
          /\ build' = [Rests(build) EXCEPT !.batch = call[j].in, !.rows = call[j].out,
                                           !.submitted = FALSE]
          /\ Ended(j)
       \/ /\ Answered(j, "add") /\ Good(j)
          /\ build' = [Rests(build) EXCEPT !.rows = @ \cup {call[j].out}] /\ Ended(j)
       \/ /\ Answered(j, "submit") /\ Good(j)
          /\ build' = [build EXCEPT !.batch = None, !.rows = {}, !.submitted = TRUE]
          /\ Continues(j, "open", None)
       \/ /\ call[j].kind \in {"create", "detail", "add", "submit"} /\ call[j].at = "answered" /\ ~Good(j)
          /\ build' = [Rests(build) EXCEPT !.expired = @ \/ Why(j) = "401"] /\ Ended(j)
    /\ Transport(j)
    /\ UNCHANGED <<lost, batches>> /\ OnlyBuild

(* Batch build: the server (see Batch).                                    *)
Unused(u) == \A b \in Batches : u \notin batches[b].items

ServeBuild(j) ==
    /\ \/ /\ Asked(j, "open")
          /\ Arrives(j, "ok", None) /\ UNCHANGED <<lost, batches>>
       \/ /\ Asked(j, "create")
          /\ \E b \in Batches, units \in {{}} \cup {{u} : u \in {v \in Units : Unused(v)}} :
               /\ batches[b].status = "none" /\ (call[j].in <=> units # {})
               /\ batches' = [batches EXCEPT ![b] = [status |-> "CREATED", items |-> units]]
               /\ Served(j, [batch |-> b, rows |-> units])
       \/ /\ Asked(j, "detail")
          /\ Arrives(j, "ok", batches[call[j].in].items) /\ UNCHANGED <<lost, batches>>
       \/ /\ Asked(j, "add") /\ batches[call[j].in].status = "CREATED"
          /\ \E u \in Units :
               /\ Unused(u)
               /\ batches' = [batches EXCEPT ![call[j].in].items = @ \cup {u}]
               /\ Served(j, u)
       \/ /\ Asked(j, "submit") /\ batches[call[j].in].status = "CREATED"
          /\ batches[call[j].in].items # {}
          /\ batches' = [batches EXCEPT ![call[j].in].status = "SUBMITTED"]
          /\ Served(j, None)
    /\ UNCHANGED <<vars, build>> /\ OnlyBuild

-------------------------------------------------------------------------------
(* Batch receive                                                           *)

StartIntake(j, b) ==
    /\ Screen("intake") /\ ~intake.busy /\ intake.batch = None
    /\ intake' = Busy(intake) /\ Calls(j, "start", b)
    /\ UNCHANGED <<vars, lost, got>> /\ OnlyIntake

ScanUnit(j, u) ==
    /\ Screen("intake") /\ ~intake.busy /\ intake.batch # None /\ ~intake.completed
    /\ intake' = Busy(intake) /\ Calls(j, "receive", [batch |-> intake.batch, unit |-> u])
    /\ UNCHANGED <<vars, lost, got>> /\ OnlyIntake

CompleteIntake(j) ==
    /\ Screen("intake") /\ ~intake.busy /\ intake.batch # None /\ ~intake.completed
    /\ intake.scanned >= intake.expected
    /\ intake' = Busy(intake) /\ Calls(j, "complete", intake.batch)
    /\ UNCHANGED <<vars, lost, got>> /\ OnlyIntake

LeaveIntake(j) ==
    /\ Screen("intake")
    /\ LET s == CASE intake.batch # None -> [Left(intake) EXCEPT !.batch = None, !.scanned = 0, !.expected = 0]
                  [] OTHER -> [intake EXCEPT !.completed = FALSE]
       IN /\ intake.batch # None \/ intake.completed
          /\ IF intake.busy THEN intake' = s /\ UNCHANGED call
             ELSE intake' = Busy(s) /\ Calls(j, "queue", None)
    /\ UNCHANGED <<vars, lost, got>> /\ OnlyIntake

IntakeAnswered(j) ==
    /\ \/ /\ Answered(j, "queue") /\ Good(j)
          /\ intake' = [Rests(intake) EXCEPT !.expired = FALSE] /\ Ended(j)
       \/ /\ Answered(j, "start") /\ Good(j)
          /\ intake' = [Rests(intake) EXCEPT !.batch = call[j].in, !.expected = Total,
                                             !.scanned = call[j].out, !.completed = FALSE]
          /\ Ended(j)
       \/ /\ Answered(j, "receive") /\ Good(j)
          /\ intake' = [Rests(intake) EXCEPT !.scanned = call[j].out, !.expected = Total] /\ Ended(j)
       \/ /\ Answered(j, "complete") /\ Good(j)
          /\ intake' = [intake EXCEPT !.batch = None, !.completed = TRUE] /\ Continues(j, "queue", None)
       \/ /\ call[j].kind \in Kinds.intake /\ call[j].at = "answered" /\ ~Good(j)
          /\ intake' = [Rests(intake) EXCEPT !.expired = @ \/ Why(j) = "401"] /\ Ended(j)
    /\ Transport(j)
    /\ UNCHANGED <<lost, got>> /\ OnlyIntake

(* Batch receive: the server; another handheld receives units, too.        *)
Received(b, u) == got' = [got EXCEPT ![b].units = @ \cup {u}]

ServeIntake(j) ==
    /\ \/ /\ Asked(j, "queue")
          /\ Arrives(j, "ok", None) /\ UNCHANGED <<lost, got>>
       \/ /\ Asked(j, "start") /\ got[call[j].in].status # "COMPLETED"
          /\ got' = [got EXCEPT ![call[j].in].status = "OPEN"]
          /\ Served(j, Cardinality(got[call[j].in].units))
       \/ /\ Asked(j, "receive") /\ got[call[j].in.batch].status = "OPEN"
          /\ Received(call[j].in.batch, call[j].in.unit)
          /\ Served(j, Cardinality(got'[call[j].in.batch].units))
       \/ /\ Asked(j, "complete") /\ got[call[j].in].status = "OPEN"
          /\ Cardinality(got[call[j].in].units) = Total
          /\ got' = [got EXCEPT ![call[j].in].status = "COMPLETED"]
          /\ Served(j, None)
    /\ UNCHANGED <<vars, intake>> /\ OnlyIntake

OtherReceives(b, u) ==
    /\ Uses("intake") /\ got[b].status = "OPEN"
    /\ u \notin got[b].units /\ Received(b, u)
    /\ UNCHANGED <<vars, call, lost, intake>> /\ OnlyIntake

-------------------------------------------------------------------------------
(* The confirmation report                                                 *)

OpenReport(j) ==
    /\ Screen("report")
    /\ IF report.session THEN Calls(j, "view", None) ELSE Calls(j, "find", None)
    /\ report' = IF report.session THEN [report EXCEPT !.loading = TRUE]
                 ELSE [report EXCEPT !.loading = TRUE, !.none = FALSE]
    /\ UNCHANGED <<vars, lost, filed>> /\ OnlyReport

(* A draft, the damage of a line, or the submission.                       *)
WriteReport(j, kind) ==
    /\ Screen("report") /\ report.session /\ ~report.loading /\ ~report.none /\ report.view = "DRAFT"
    /\ report' = [report EXCEPT !.loading = TRUE] /\ Calls(j, kind, None)
    /\ UNCHANGED <<vars, lost, filed>> /\ OnlyReport

(* Leaving the screen forgets a report that is finished.                   *)
ReleaseFinished ==
    /\ Screen("report") /\ report.view = "SUBMITTED"
    /\ report' = [report EXCEPT !.loading = FALSE, !.session = FALSE, !.none = TRUE, !.view = "unknown"]
    /\ UNCHANGED <<vars, call, lost, filed>> /\ OnlyReport

ReportAnswered(j) ==
    /\ \/ /\ Answered(j, "find") /\ Good(j) /\ call[j].out
          /\ report' = [report EXCEPT !.session = TRUE] /\ Continues(j, "view", None)
       \/ /\ Answered(j, "find") /\ Good(j) /\ ~call[j].out
          /\ report' = [report EXCEPT !.loading = FALSE, !.none = TRUE] /\ Ended(j)
       \/ /\ Answered(j, "view") /\ Good(j)
          /\ report' = [report EXCEPT !.loading = FALSE, !.none = FALSE, !.view = call[j].out] /\ Ended(j)
       \/ /\ Answered(j, "draft") /\ Good(j)
          /\ report' = [report EXCEPT !.loading = FALSE, !.view = call[j].out] /\ Ended(j)
       \/ /\ Answered(j, "file") /\ Good(j)
          /\ Continues(j, "view", None) /\ UNCHANGED report
       \/ /\ call[j].kind \in Kinds.report /\ call[j].at = "answered" /\ ~Good(j)
          /\ report' = [report EXCEPT !.loading = FALSE, !.expired = @ \/ Why(j) = "401"] /\ Ended(j)
    /\ Transport(j)
    /\ UNCHANGED <<lost, filed>> /\ OnlyReport

(* The server: see ReceivingReport; the session stays the worker's until   *)
(* the report is submitted.                                                *)
ServeReport(j) ==
    /\ \/ /\ Asked(j, "find")
          /\ Arrives(j, "ok", filed = "DRAFT") /\ UNCHANGED <<lost, filed>>
       \/ /\ Asked(j, "view")
          /\ Arrives(j, "ok", filed) /\ UNCHANGED <<lost, filed>>
       \/ /\ Asked(j, "draft") /\ filed = "DRAFT"
          /\ Served(j, filed) /\ UNCHANGED filed
       \/ /\ Asked(j, "file") /\ filed = "DRAFT"
          /\ filed' = "SUBMITTED" /\ Served(j, None)
    /\ UNCHANGED <<vars, report>> /\ OnlyReport

-------------------------------------------------------------------------------
(* A workflow that met "401" asks the application to expire the session.   *)
LaneExpired ==
    /\ \/ Screen("home") /\ home.expired
       \/ Screen("build") /\ build.expired
       \/ Screen("intake") /\ intake.expired
       \/ Screen("report") /\ report.expired
    /\ Expires(store, app)
    /\ store' = ExpiredStore(store) /\ app' = Wiped(app)
    /\ UNCHANGED <<session, job, outcome, synced, revoked, kills, uses, lanes>>

LaneWork(j) ==
    \/ LoadHome(j) \/ PollHome(j) \/ Retry(j) \/ HomeAnswered(j)
    \/ \E code \in Codes : ScanHome(j, code)
    \/ RefreshStorage(j) \/ GoHome(j) \/ ScanProduct(j) \/ ScanContainer(j)
    \/ SendToReview(j) \/ StorageAnswered(j)
    \/ \E letter \in Letters : OpenSection(j, letter)
    \/ \E first \in BOOLEAN : CreateBatch(j, first)
    \/ \E b \in Batches : ContinueBatch(j, b) \/ StartIntake(j, b)
    \/ AddUnit(j) \/ SubmitBatch(j) \/ LeaveBatch(j) \/ BuildAnswered(j)
    \/ \E u \in 1 .. Total : ScanUnit(j, u)
    \/ CompleteIntake(j) \/ LeaveIntake(j) \/ IntakeAnswered(j)
    \/ OpenReport(j) \/ ReportAnswered(j)
    \/ \E kind \in {"draft", "file"} : WriteReport(j, kind)

LaneServer(j) ==
    ServeHome(j) \/ ServeStorage(j) \/ ServeBuild(j) \/ ServeIntake(j) \/ ServeReport(j) \/ NotServed(j)

LanesNext ==
    \/ uses \cap Lanes = {} /\ Next /\ UNCHANGED lanes
    \/ \E j \in Jobs : LaneWork(j) \/ LaneServer(j)
    \/ \E step \in {"AUTO", "PRODUCT", "CARTON"} : OpenLane(step)
    \/ BackToHome \/ ClearPending \/ ReleaseFinished \/ LaneExpired
    \/ \E b \in Batches, u \in 1 .. Total : OtherReceives(b, u)

LanesSpec == LanesInit /\ [][LanesNext]_lanesVars

-------------------------------------------------------------------------------
(* A scan is not counted twice behind the worker's back.  Receiving counts *)
(* more pieces of a model than were scanned only after the worker was told *)
(* that the outcome of a receipt is unknown (OperationalMessage.kt:24-52), *)
(* and a product scan of Temporary Storage stores one item, however often  *)
(* its container is scanned after a failure or a lost answer.              *)
CountedOncePerScan ==
    /\ counted["model"] > scans["model"] => told
    /\ \A n \in Scans : placed[n] <= 1

(* What a batch screen shows belongs to the batch it shows: a late answer  *)
(* for a batch that the worker has left never adds a unit to the rows, nor *)
(* progress to the counters, of the batch that was opened since.           *)
ShownIsOfTheBatch ==
    /\ build.batch # None => build.rows \subseteq batches[build.batch].items
    /\ intake.batch # None => intake.scanned <= Cardinality(got[intake.batch].units)

(* Statements of the source that the code does not keep; they are    *)
(* not checked by any run.  ReceivingHomeWorkflow.kt:331-332 "success and  *)
(* lane changes clear the review, so RETRY can never double-count": a      *)
(* retry after a lost answer counts again, with a fresh operation id.      *)
RetryNeverDoubles == counted["model"] <= scans["model"]

(* ReceivingHomeWorkflow.kt:108 "unit-distinct identifiers already         *)
(* confirmed": after a failed attempt and another scan, the retry files    *)
(* the other scan.                                                         *)
RememberedWasReceived == \A c \in home.known : c \in Cards /\ counted[c] > 0

(* ReceivingReportWorkflow.kt:194-196 "no trace of the old transaction     *)
(* resurfaces": a load that was running puts the report back.              *)
FinishedStaysGone == report.none => report.view = "unknown"

(* The board on the screen is the one of the section that is open; not so  *)
(* after reloadQuietly (TsStorageWorkflow.kt:348-355).                     *)
BoardIsOfSection == storage.letter # None /\ ~storage.busy => storage.board \in {storage.letter, None}
================================================================================
