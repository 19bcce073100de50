---------------------------- MODULE StationScreens ----------------------------
(***************************************************************************)
(* The screens at the stations: the configuration of the displays, their   *)
(* messages and help calls (displays/displays.service.ts), the stream that *)
(* feeds a screen (displays/display-views.controller.ts), and the page     *)
(* that shows it and acts on it (StationDisplay.tsx, display-view.ts).     *)
(* Printing is in PrintQueue.                                              *)
(*                                                                         *)
(* A snapshot is read in one step.  It reaches the page later, as the      *)
(* answer of a poll, as the first event of a stream, or as a push of the   *)
(* stream; each of these is a slot of read[p], and they overtake each      *)
(* other.  An event of a stream is received when it is written.            *)
(*                                                                         *)
(* The station is reduced to one receiving session; batches, tasks and     *)
(* stored goods only add further texts.  An action of the page checks and  *)
(* writes in one step.                                                     *)
(***************************************************************************)
EXTENDS Integers, FiniteSets, Sequences

CONSTANTS
    Stations,
    Pages,         \* browsers that show a screen
    LinkOf,        \* the link each page was opened with
    Profiles,      \* configurations that administrators send
    Sets,          \* roles that administrators ask a screen set for
    Texts,         \* messages that are sent: their severity, and whether to confirm
    Admins,        \* administration calls that run at the same time
    MaxDisplays,   \* bound: rows of StationDisplay
    MaxLinks,      \* bound: access tokens
    MaxFloor,      \* bound: events at the stations
    MaxMessages,   \* bound: messages to a display
    Take,          \* active messages that a snapshot carries
    MaxActions,    \* bound: actions made on a page
    MaxOutages,    \* bound: restarts of the server, broken connections
    MaxChanges,    \* bound: administration calls
    Workloads,     \* the sets of events that occur in one behaviour
    None

DisplayViews == {"BOARD", "ACTION", "QUEUE", "ALERTS", "PRINT", "STATS"}
Blocks == {"lastScan", "guidance", "queue", "alerts", "stats"}
Actions == {"print", "reprint", "ack", "help", "exception", "message"}
Severities == {"INFO", "URGENT"}

ScreensAssumption ==
    /\ LinkOf \in [Pages -> 1 .. MaxLinks]
    /\ {MaxDisplays, MaxLinks, MaxFloor, MaxMessages} \subseteq Nat
    /\ {Take, MaxActions, MaxOutages, MaxChanges} \subseteq Nat
    /\ \A s \in Sets : s \subseteq DisplayViews
    /\ Texts \subseteq [severity : Severities, ack : BOOLEAN]
    /\ None \notin Stations

VARIABLES
    display,   \* StationDisplay: [station, link, enabled, config] by number
    issued,    \* access tokens that were generated
    created,   \* rows of StationDisplay that were created
    message,   \* StationDisplayMessage of each display, oldest first
    floor,     \* the receiving session of each station and what is wrong there
    calling,   \* a HELP action of the station that no ACK has followed yet
    page,      \* the page: what it shows, and its event source
    stream,    \* the server's side of the open stream of each page
    read,      \* snapshots on their way to each page
    acting,    \* the action a page has posted
    up,        \* the server answers
    admin,     \* the administration calls in flight
    used,      \* how often each bounded event has happened
    events     \* the workload

rows == <<display, issued, created, message>>
station == <<floor, calling>>
screen == <<page, stream, read, acting>>
vars == <<rows, station, screen, up, admin, used, events>>

NoRow == [link |-> None]
Idle == [at |-> "idle"]
NotFound == [enabled |-> FALSE, found |-> FALSE]
Disabled == [enabled |-> FALSE, found |-> TRUE]
Slots == {"poll", "poll after action", "first", "tick", "forced"}
PollSlots == {"poll", "poll after action"}
Screens == 1 .. MaxDisplays

Exists(d) == display[d] # NoRow
At(s) == {d \in Screens : Exists(d) /\ display[d].station = s}
Behind(l) == {d \in Screens : display[d].link = l}

-----------------------------------------------------------------------------
(* normalizeDisplayConfig: what is missing gets its default, the preset of *)
(* the role overrides the switches of the blocks.                          *)
Switched == {"guidance", "queue", "alerts", "stats"}
On(v) ==
    {b \in Switched : <<v, b>> \in
        {<<"ACTION", "guidance">>, <<"ACTION", "alerts">>, <<"QUEUE", "guidance">>,
         <<"QUEUE", "queue">>, <<"ALERTS", "alerts">>, <<"STATS", "stats">>}}
Off(v) ==
    IF v = "BOARD" THEN {}
    ELSE (Switched \ On(v)) \cup (IF v \in {"ALERTS", "STATS"} THEN {"lastScan"} ELSE {})

DefaultConfig ==
    [view |-> "BOARD", blocks |-> Blocks, interactive |-> FALSE,
     actions |-> {"print", "reprint", "message"}]

Normalize(raw) ==
    LET c == [k \in DOMAIN DefaultConfig |-> IF k \in DOMAIN raw THEN raw[k] ELSE DefaultConfig[k]]
    IN [c EXCEPT !.blocks = (@ \cup On(c.view)) \ Off(c.view), !.interactive = @ /\ c.actions # {}]

Config == [view : DisplayViews, blocks : SUBSET Blocks, interactive : BOOLEAN, actions : SUBSET Actions]

-----------------------------------------------------------------------------
(* What a screen is told of its station.                                   *)

(* stationGuidance, for a station of the receiving department.             *)
Guidance(f) ==
    CASE ~f.open -> "WAITING"
      [] f.open /\ f.left > 0 -> "SCAN_PRODUCT"
      [] f.open /\ f.left = 0 /\ f.discrepancy -> "RESOLVE_DISCREPANCY"
      [] f.open /\ f.left = 0 /\ ~f.discrepancy -> "CLOSE_SESSION"

(* andonState: the colour of the line.                                     *)
Andon(f, help) ==
    CASE help -> "HELP_UNANSWERED"
      [] ~help /\ f.exception -> "EXCEPTION_OPEN"
      [] ~help /\ ~f.exception /\ f.discrepancy -> "DISCREPANCY_OPEN"
      [] OTHER -> IF ~f.open THEN "NOTHING_OPEN" ELSE IF f.stalled THEN "STALLED" ELSE "RUNNING"

Alerts(f, help) ==
    {a \in {"DISCREPANCY", "EXCEPTION", "HELP"} :
        \/ a = "DISCREPANCY" /\ f.discrepancy
        \/ a = "EXCEPTION" /\ f.exception
        \/ a = "HELP" /\ help}

Block(b, f, help) ==
    CASE b = "lastScan" -> f.scan
      [] b = "guidance" -> Guidance(f)
      [] b = "queue" -> f.left
      [] b = "alerts" -> Alerts(f, help)
      [] b = "stats" -> f.scan

(* activeMessages: the newest ones that nobody has confirmed.              *)
Waiting(d) == SelectSeq([i \in 1 .. Len(message[d]) |-> i], LAMBDA i : message[d][i].active)
ActiveMessages(d) ==
    LET w == Waiting(d) IN SubSeq(w, IF Len(w) > Take THEN Len(w) - Take + 1 ELSE 1, Len(w))

(* displayActionAvailability and filterSnapshotByConfig.                   *)
Available(c) == IF c.interactive THEN c.actions ELSE {}

(* Mutant: the blocks are not filtered by what the screen is for.          *)
Unfiltered(s, c) == [b \in Blocks |-> Block(b, floor[s], calling[s])]

Filtered(s, c) == [b \in c.blocks |-> Block(b, floor[s], calling[s])]

(* snapshotForToken after the row was read: the station as it is now,      *)
(* filtered by the configuration that was read.                            *)
Snapshot(d, s, c) ==
    [enabled |-> TRUE, found |-> TRUE, display |-> d, view |-> c.view,
     actions |-> Available(c), blocks |-> Filtered(s, c),
     andon |-> Andon(floor[s], calling[s]),
     messages |-> IF Exists(d) THEN ActiveMessages(d) ELSE <<>>]

Current(l) ==
    IF Behind(l) = {} THEN NotFound
    ELSE LET d == CHOOSE d \in Behind(l) : TRUE
         IN IF display[d].enabled THEN Snapshot(d, display[d].station, display[d].config)
            ELSE Disabled

-----------------------------------------------------------------------------
Floor == [open : BOOLEAN, left : 0 .. 1, scan : 0 .. MaxFloor, stalled : BOOLEAN,
          discrepancy : BOOLEAN, exception : BOOLEAN]
Row == [station : Stations, link : 1 .. MaxLinks, enabled : BOOLEAN, config : Config]
Counted == {"floor", "action", "outage", "change"}

IsContent(c) ==
    \/ c \in {NotFound, Disabled}
    \/ /\ DOMAIN c = {"enabled", "found", "display", "view", "actions", "blocks", "andon", "messages"}
       /\ c.enabled /\ c.found /\ c.view \in DisplayViews /\ c.actions \subseteq Actions
       /\ DOMAIN c.blocks \subseteq Blocks \ Off(c.view)
       /\ c.messages \in Seq(1 .. MaxMessages) /\ Len(c.messages) <= Take

TypeOK ==
    /\ display \in [Screens -> Row \cup {NoRow}]
    /\ issued \in 0 .. MaxLinks /\ created \in 0 .. MaxDisplays
    /\ \A d, e \in Screens : Exists(d) /\ display[d].link = display[e].link => d = e
    /\ \A d \in Screens : message[d] \in Seq([severity : Severities, ack : BOOLEAN, active : BOOLEAN])
    /\ floor \in [Stations -> Floor] /\ calling \in [Stations -> BOOLEAN]
    /\ \A p \in Pages :
          /\ page[p].shown = None \/ IsContent(page[p].shown)
          /\ page[p].fatal \in BOOLEAN /\ page[p].live \in BOOLEAN
          /\ page[p].source \in {"connecting", "open", "closed"}
          /\ stream[p] = Idle \/ (stream[p].forced \in BOOLEAN /\ IsContent(stream[p].fingerprint))
          /\ stream[p] # Idle <=> page[p].source = "open"
          /\ \A t \in Slots : read[p][t] = Idle \/ IsContent(read[p][t])
          /\ acting[p] = Idle \/ acting[p].kind \in Actions
    /\ up \in BOOLEAN
    /\ \A a \in Admins : admin[a].at \in {"idle", "update", "create", "apply", "enable", "interactive"}
    /\ used \in [Counted -> Nat]

Init ==
    /\ events \in Workloads
    /\ \E s \in Stations :
          display = [d \in Screens |->
              IF d # 1 THEN NoRow
              ELSE [station |-> s, link |-> 1, enabled |-> TRUE,
                    config |-> Normalize([interactive |-> TRUE, actions |-> Actions])]]
    /\ issued = 1 /\ created = 1
    /\ message = [d \in Screens |-> <<>>]
    /\ floor = [s \in Stations |-> [open |-> FALSE, left |-> 0, scan |-> 0, stalled |-> FALSE,
                                    discrepancy |-> FALSE, exception |-> FALSE]]
    /\ calling = [s \in Stations |-> FALSE]
    /\ page = [p \in Pages |-> [shown |-> None, fatal |-> FALSE, live |-> FALSE,
                                source |-> "connecting"]]
    /\ stream = [p \in Pages |-> Idle]
    /\ read = [p \in Pages |-> [t \in Slots |-> Idle]]
    /\ acting = [p \in Pages |-> Idle]
    /\ up = TRUE
    /\ admin = [a \in Admins |-> Idle]
    /\ used = [e \in Counted |-> 0]

Use(e, max) == used[e] < max /\ used' = [used EXCEPT ![e] = @ + 1]

-----------------------------------------------------------------------------
(* Reading a snapshot.                                                     *)

Begin(p, t) ==
    /\ up /\ read[p][t] = Idle
    /\ read' = [read EXCEPT ![p][t] = Current(LinkOf[p])]

Arrived(p, t) ==
    /\ read[p][t] # Idle
    /\ read' = [read EXCEPT ![p][t] = Idle]

(* The page polls every ten seconds while it is not connected.             *)
Poll(p) ==
    /\ ~page[p].live /\ ~page[p].fatal
    /\ Begin(p, "poll")
    /\ UNCHANGED <<rows, station, page, stream, acting, up, admin, used>>

(* Mutant: a link that is not known is like any other error.               *)
PollAnswerQuiet(p, t) ==
    /\ t \in PollSlots /\ Arrived(p, t)
    /\ page' = IF read[p][t] = NotFound THEN page
               ELSE [page EXCEPT ![p].shown = read[p][t]]
    /\ UNCHANGED <<rows, station, stream, acting, up, admin, used>>

PollAnswer(p, t) ==
    /\ t \in PollSlots /\ Arrived(p, t)
    /\ page' = IF read[p][t] = NotFound THEN [page EXCEPT ![p].fatal = TRUE]
               ELSE [page EXCEPT ![p].shown = read[p][t]]
    /\ UNCHANGED <<rows, station, stream, acting, up, admin, used>>

-----------------------------------------------------------------------------
(* The stream.  The effect that makes the event source depends on "live":  *)
(* whenever that changes, the source is closed and a new one made.         *)

Connect(p) ==
    /\ page[p].source = "connecting" /\ ~page[p].fatal
    /\ Begin(p, "first")
    /\ UNCHANGED <<rows, station, page, stream, acting, up, admin, used>>

(* An event source that was refused stays closed, one that lost its        *)
(* connection tries again.                                                 *)
AfterError(g, refused) ==
    IF g.live THEN [g EXCEPT !.live = FALSE, !.source = "connecting"]
    ELSE [g EXCEPT !.source = IF refused THEN "closed" ELSE "connecting"]

Connected(p) ==
    /\ Arrived(p, "first")
    /\ LET c == read[p]["first"]
       IN IF c = NotFound
          THEN page' = [page EXCEPT ![p] = AfterError(@, TRUE)] /\ UNCHANGED stream
          ELSE IF page[p].live
          THEN /\ page' = [page EXCEPT ![p].shown = c, ![p].source = "open"]
               /\ stream' = [stream EXCEPT ![p] = [fingerprint |-> c, forced |-> FALSE]]
          ELSE /\ \E shown \in {c, page[p].shown} :
                      page' = [page EXCEPT ![p].live = TRUE, ![p].shown = shown]
               /\ UNCHANGED stream
    /\ UNCHANGED <<rows, station, acting, up, admin, used>>

Refused(p) ==
    /\ ~up /\ page[p].source = "connecting" /\ ~page[p].fatal
    /\ \E refused \in BOOLEAN : page' = [page EXCEPT ![p] = AfterError(@, refused)]
    /\ UNCHANGED <<rows, station, stream, read, acting, up, admin, used>>

(* Every three seconds, and shortly after something happened, the stream   *)
(* builds a snapshot; the first kind is sent only when it differs from the *)
(* last one that was sent.                                                 *)
Tick(p) ==
    /\ stream[p] # Idle /\ Begin(p, "tick")
    /\ UNCHANGED <<rows, station, page, stream, acting, up, admin, used>>

Forced(p) ==
    /\ stream[p] # Idle /\ stream[p].forced /\ Begin(p, "forced")
    /\ stream' = [stream EXCEPT ![p].forced = FALSE]
    /\ UNCHANGED <<rows, station, page, acting, up, admin, used>>

Push(p, t) ==
    /\ t \in {"tick", "forced"} /\ Arrived(p, t)
    /\ LET c == read[p][t]
       IN IF c # NotFound /\ (t = "forced" \/ c # stream[p].fingerprint)
          THEN /\ stream' = [stream EXCEPT ![p].fingerprint = c]
               /\ page' = [page EXCEPT ![p].shown = c]
          ELSE UNCHANGED <<stream, page>>
    /\ UNCHANGED <<rows, station, acting, up, admin, used>>

NoPush(r) == [t \in Slots |-> IF t \in {"tick", "forced"} THEN Idle ELSE r[t]]

(* Mutant: a stream lasts as long as the server.                           *)
RenewNever(p) == stream[p] # Idle /\ FALSE

(* The server ends every stream after four minutes.                        *)
Renew(p) ==
    /\ stream[p] # Idle
    /\ stream' = [stream EXCEPT ![p] = Idle]
    /\ read' = [read EXCEPT ![p] = NoPush(@)]
    /\ page' = [page EXCEPT ![p] = AfterError(@, FALSE)]
    /\ UNCHANGED <<rows, station, acting, up, admin, used>>

(* The server goes away and comes back; what was on its way is lost.       *)
Outage ==
    /\ "outage" \in events /\ up /\ Use("outage", MaxOutages)
    /\ up' = FALSE
    /\ stream' = [p \in Pages |-> Idle]
    /\ read' = [p \in Pages |-> [t \in Slots |-> Idle]]
    /\ page' = [p \in Pages |-> IF stream[p] # Idle THEN AfterError(page[p], FALSE) ELSE page[p]]
    /\ acting' = [p \in Pages |-> Idle]
    /\ admin' = [a \in Admins |-> Idle]
    /\ UNCHANGED <<rows, station>>

Restore == ~up /\ up' = TRUE /\ UNCHANGED <<rows, station, screen, admin, used>>

-----------------------------------------------------------------------------
(* What happens at the station.  Scans and the beginning and end of a      *)
(* session are published, and every open stream is forced to look.         *)
Stir == stream' = [p \in Pages |-> IF stream[p] = Idle THEN Idle ELSE [stream[p] EXCEPT !.forced = TRUE]]

FloorOnly == UNCHANGED <<rows, page, read, acting, up, admin>>

OpenSession(s) ==
    /\ ~floor[s].open
    /\ Use("floor", MaxFloor)
    /\ floor' = [floor EXCEPT ![s].open = TRUE, ![s].left = 1, ![s].stalled = FALSE]
    /\ Stir /\ UNCHANGED calling /\ FloorOnly

ScanProduct(s) ==
    /\ floor[s].open /\ floor[s].left > 0
    /\ Use("floor", MaxFloor)
    /\ floor' = [floor EXCEPT ![s].left = @ - 1, ![s].scan = used["floor"] + 1, ![s].stalled = FALSE]
    /\ Stir /\ UNCHANGED calling /\ FloorOnly

Flag(s) ==
    /\ floor[s].open /\ ~floor[s].discrepancy
    /\ Use("floor", MaxFloor)
    /\ floor' = [floor EXCEPT ![s].discrepancy = TRUE]
    /\ UNCHANGED <<stream, calling>> /\ FloorOnly

(* The discrepancy or the exception is resolved elsewhere.                 *)
Settle(s) ==
    /\ floor[s].discrepancy \/ floor[s].exception
    /\ \/ floor' = [floor EXCEPT ![s].discrepancy = FALSE]
       \/ floor' = [floor EXCEPT ![s].exception = FALSE]
    /\ Use("floor", MaxFloor)
    /\ UNCHANGED <<stream, calling>> /\ FloorOnly

CloseSession(s) ==
    /\ floor[s].open /\ ~floor[s].discrepancy
    /\ floor' = [floor EXCEPT ![s].open = FALSE, ![s].left = 0, ![s].stalled = FALSE]
    /\ Use("floor", MaxFloor)
    /\ Stir /\ UNCHANGED calling /\ FloorOnly

(* Nothing moves for a while; a call of two hours ago counts no more.      *)
TimePasses(s) ==
    /\ \/ /\ floor[s].open /\ ~floor[s].stalled
          /\ floor' = [floor EXCEPT ![s].stalled = TRUE] /\ UNCHANGED calling
       \/ calling[s] /\ calling' = [calling EXCEPT ![s] = FALSE] /\ UNCHANGED floor
    /\ Use("floor", MaxFloor)
    /\ UNCHANGED stream /\ FloorOnly

Station(s) ==
    "floor" \in events /\ (\/ OpenSession(s) \/ ScanProduct(s) \/ Flag(s) \/ Settle(s)
                             \/ CloseSession(s) \/ TimePasses(s))

-----------------------------------------------------------------------------
(* What is done on a page.                                                 *)

(* topMessage: the highest severity, then the oldest.                      *)
Top(c) ==
    LET m == {i \in 1 .. Len(c.messages) : TRUE}
        severe == {i \in m : message[c.display][c.messages[i]].severity = "URGENT"}
        best == IF severe # {} THEN severe ELSE m
    IN IF m = {} THEN 0 ELSE c.messages[CHOOSE i \in best : \A j \in best : i <= j]

(* What the page offers comes from the snapshot it shows: the bar of       *)
(* availableActions, and the SEEN buttons of the alerts and of the message *)
(* on top.  The alert of the help call has no button.                      *)
ActionBar(c) == {[kind |-> k, about |-> "station"] : k \in c.actions \cap {"ack", "help", "exception"}}

AlertButtons(c) ==
    IF "ack" \in c.actions /\ "alerts" \in DOMAIN c.blocks
    THEN {[kind |-> "ack", about |-> a] : a \in c.blocks["alerts"] \ {"HELP"}} ELSE {}

MessageButton(c) ==
    IF Top(c) # 0 /\ message[c.display][Top(c)].ack
    THEN {[kind |-> "message", about |-> Top(c)]} ELSE {}

Offers(p) ==
    LET c == page[p].shown
    IN IF page[p].fatal \/ c = None \/ c = Disabled THEN {}
       ELSE ActionBar(c) \cup AlertButtons(c) \cup MessageButton(c)

Press(p, offer) ==
    /\ "press" \in events /\ acting[p] = Idle /\ offer \in Offers(p)
    /\ Use("action", MaxActions)
    /\ acting' = [acting EXCEPT ![p] = [at |-> "posted", kind |-> offer.kind, about |-> offer.about]]
    /\ UNCHANGED <<rows, station, page, stream, read, up, admin>>

(* actorForAction.                                                         *)
Allowed(d, kind) ==
    display[d].enabled /\ display[d].config.interactive /\ kind \in display[d].config.actions

(* An action that is allowed is recorded and published.                    *)
Performing(p, d, kind) ==
    /\ up /\ acting[p].at = "posted" /\ acting[p].kind = kind
    /\ d \in Behind(LinkOf[p]) /\ Allowed(d, kind)
    /\ acting' = [acting EXCEPT ![p].at = "done"]
    /\ Stir
    /\ UNCHANGED <<display, issued, created, page, read, up, admin, used>>

(* An ACK is recorded as such, whatever alert it names.                    *)
Acknowledge(p) ==
    \E d \in Screens :
        /\ Performing(p, d, "ack")
        /\ calling' = [calling EXCEPT ![display[d].station] = FALSE]
        /\ UNCHANGED <<floor, message>>

RequestHelp(p) ==
    \E d \in Screens :
        /\ Performing(p, d, "help")
        /\ calling' = [calling EXCEPT ![display[d].station] = TRUE]
        /\ UNCHANGED <<floor, message>>

RaiseException(p) ==
    \E d \in Screens :
        /\ Performing(p, d, "exception")
        /\ floor' = [floor EXCEPT ![display[d].station].exception = TRUE]
        /\ UNCHANGED <<calling, message>>

AcknowledgeMessage(p) ==
    \E d \in Screens :
        /\ Performing(p, d, "message")
        /\ message' = [message EXCEPT ![d][acting[p].about].active = FALSE]
        /\ UNCHANGED station

Perform(p) == Acknowledge(p) \/ RequestHelp(p) \/ RaiseException(p) \/ AcknowledgeMessage(p)

(* A page that was refused says so; one that was not polls.                *)
PerformRefused(p) ==
    /\ up /\ acting[p].at = "posted"
    /\ ~\E d \in Behind(LinkOf[p]) : Allowed(d, acting[p].kind)
    /\ acting' = [acting EXCEPT ![p] = Idle]
    /\ UNCHANGED <<rows, station, page, stream, read, up, admin, used>>

Performed(p) ==
    /\ acting[p].at = "done"
    /\ acting' = [acting EXCEPT ![p] = Idle]
    /\ Begin(p, "poll after action")
    /\ UNCHANGED <<rows, station, page, stream, up, admin, used>>

-----------------------------------------------------------------------------
(* Administration.  late: the rows that somebody else wrote while the call *)
(* was under way.                                                          *)

Late(ds) ==
    [a \in Admins |-> IF admin[a] = Idle THEN Idle ELSE [admin[a] EXCEPT !.late = @ \cup ds]]
Next1(a, ds, next) == admin' = [Late(ds) EXCEPT ![a] = next]

Start(a, next) ==
    /\ up /\ admin[a] = Idle /\ Use("change", MaxChanges)
    /\ admin' = [admin EXCEPT ![a] = next]
    /\ UNCHANGED <<rows, station, screen, up>>

AdminOnly == UNCHANGED <<station, screen, up, used>>

(* update: reads the row, for the role that a configuration may leave out. *)
Inputs ==
    [config : Profiles] \cup [enabled : BOOLEAN] \cup [station : Stations]

Update(a, d, input) ==
    /\ "config" \in events /\ Exists(d)
    /\ Start(a, [at |-> "update", display |-> d, input |-> input,
                 view |-> display[d].config.view, late |-> {}])

Given(input, k, old) == IF k \in DOMAIN input THEN input[k] ELSE old

(* Mutant: what the configuration leaves out gets its default.             *)
WithoutRole(raw, view) == raw

WithRole(raw, view) ==
    IF "view" \in DOMAIN raw THEN raw
    ELSE [k \in DOMAIN raw \cup {"view"} |-> IF k = "view" THEN view ELSE raw[k]]

WriteUpdate(a) ==
    /\ admin[a].at = "update"
    /\ LET d == admin[a].display  input == admin[a].input
       IN IF ~Exists(d) THEN UNCHANGED display /\ Next1(a, {}, Idle)
          ELSE /\ display' = [display EXCEPT
                      ![d].enabled = Given(input, "enabled", @),
                      ![d].station = Given(input, "station", @),
                      ![d].config = IF "config" \in DOMAIN input
                                    THEN Normalize(WithRole(input.config, admin[a].view)) ELSE @]
               /\ Next1(a, {d}, Idle)
    /\ UNCHANGED <<issued, created, message>> /\ AdminOnly

(* create, createScreenSet and bulk CREATE_MISSING: what is to be made is  *)
(* decided once, the rows are inserted one after another.                  *)
Standard == {"BOARD", "ACTION", "ALERTS", "PRINT"}
Making(kind, todo) == [at |-> "create", kind |-> kind, todo |-> todo, late |-> {}]

Create(a, s, raw) ==
    "create" \in events /\ Start(a, Making("one", {<<s, Normalize(raw)>>}))

CreateScreenSet(a, s, views) ==
    LET have == {display[d].config.view : d \in At(s)}
        todo == {<<s, Normalize([view |-> v])>> : v \in (Standard \cap views) \ have}
    IN "create" \in events /\ todo # {} /\ Start(a, Making("set", todo))

(* ss: the active stations among those that were asked for.                *)
CreateMissing(a, ss, config) ==
    LET todo == {<<s, config>> : s \in {s \in ss : At(s) = {}}}
    IN "create" \in events /\ todo # {} /\ Start(a, Making("missing", todo))

Insert(a) ==
    /\ admin[a].at = "create" /\ created < MaxDisplays /\ issued < MaxLinks
    /\ \E t \in admin[a].todo :
          /\ created' = created + 1 /\ issued' = issued + 1
          /\ display' = [display EXCEPT ![created + 1] =
                 [station |-> t[1], link |-> issued + 1, enabled |-> TRUE, config |-> t[2]]]
          /\ Next1(a, {created + 1},
                   IF admin[a].todo = {t} THEN Idle ELSE [admin[a] EXCEPT !.todo = @ \ {t}])
    /\ UNCHANGED message /\ AdminOnly

(* bulk: the rows are looked up first, of all stations or of some.         *)
ApplyConfig(a, ss, raw) ==
    "bulk" \in events /\ Start(a, [at |-> "apply", rows |-> UNION {At(s) : s \in ss},
                                   config |-> Normalize(raw), late |-> {}])

SetEnabled(a, ss, on) ==
    "bulk" \in events /\ Start(a, [at |-> "enable", rows |-> UNION {At(s) : s \in ss},
                                   on |-> on, late |-> {}])

WriteMany(a) ==
    /\ admin[a].at \in {"apply", "enable"}
    /\ LET hit == {d \in admin[a].rows : Exists(d)}
       IN /\ display' = [d \in Screens |->
                IF d \notin hit THEN display[d]
                ELSE IF admin[a].at = "apply" THEN [display[d] EXCEPT !.config = admin[a].config]
                ELSE [display[d] EXCEPT !.enabled = admin[a].on]]
          /\ Next1(a, hit, Idle)
    /\ UNCHANGED <<issued, created, message>> /\ AdminOnly

(* SET_INTERACTIVE writes each configuration back as it was read; a row    *)
(* that is gone ends the call.                                             *)
SetInteractive(a, ss, on) ==
    LET hit == UNION {At(s) : s \in ss}
    IN "bulk" \in events /\ hit # {}
       /\ Start(a, [at |-> "interactive", on |-> on, late |-> {},
                    rest |-> [d \in hit |-> display[d].config]])

WriteInteractive(a) ==
    /\ admin[a].at = "interactive"
    /\ \E d \in DOMAIN admin[a].rest :
          LET rest == admin[a].rest  left == DOMAIN rest \ {d}
          IN IF ~Exists(d) THEN UNCHANGED display /\ Next1(a, {}, Idle)
             ELSE /\ display' = [display EXCEPT ![d].config =
                                    [rest[d] EXCEPT !.interactive = admin[a].on]]
                  /\ Next1(a, {d}, IF left = {} THEN Idle
                                   ELSE [admin[a] EXCEPT !.rest = [e \in left |-> rest[e]]])
    /\ UNCHANGED <<issued, created, message>> /\ AdminOnly

(* Single statements.                                                      *)
Regenerate(d) ==
    /\ "link" \in events /\ up /\ Exists(d) /\ issued < MaxLinks /\ Use("change", MaxChanges)
    /\ issued' = issued + 1
    /\ display' = [display EXCEPT ![d].link = issued + 1]
    /\ admin' = Late({d})
    /\ UNCHANGED <<created, message, station, screen, up>>

Remove(d) ==
    /\ "link" \in events /\ up /\ Exists(d) /\ Use("change", MaxChanges)
    /\ display' = [display EXCEPT ![d] = NoRow]
    /\ message' = [message EXCEPT ![d] = <<>>]
    /\ admin' = Late({d})
    /\ UNCHANGED <<issued, created, station, screen, up>>

SendMessage(d, text) ==
    /\ "message" \in events /\ up /\ Exists(d) /\ Len(message[d]) < MaxMessages
    /\ Use("change", MaxChanges)
    /\ message' = [message EXCEPT ![d] =
                      Append(@, [severity |-> text.severity, ack |-> text.ack, active |-> TRUE])]
    /\ Stir
    /\ UNCHANGED <<display, issued, created, station, page, read, acting, up, admin>>

Expire(d, i) ==
    /\ "message" \in events /\ message[d][i].active
    /\ Use("change", MaxChanges)
    /\ message' = [message EXCEPT ![d][i].active = FALSE]
    /\ UNCHANGED <<display, issued, created, station, screen, up, admin>>

Administration ==
    \/ \E a \in Admins :
          \/ \E d \in Screens, i \in Inputs : Update(a, d, i)
          \/ \E s \in Stations, raw \in Profiles : Create(a, s, raw)
          \/ \E s \in Stations, v \in Sets : CreateScreenSet(a, s, v)
          \/ \E ss \in SUBSET Stations, config \in {DefaultConfig} \cup {Normalize(raw) : raw \in Profiles} :
                CreateMissing(a, ss, config)
          \/ \E ss \in SUBSET Stations, raw \in Profiles : ApplyConfig(a, ss, raw)
          \/ \E ss \in SUBSET Stations, on \in BOOLEAN : SetEnabled(a, ss, on) \/ SetInteractive(a, ss, on)
    \/ \E d \in Screens : Regenerate(d) \/ Remove(d)
    \/ \E d \in Screens, text \in Texts : SendMessage(d, text)

Writing(a) == WriteUpdate(a) \/ Insert(a) \/ WriteMany(a) \/ WriteInteractive(a)

Server(p) == \/ \E t \in Slots : PollAnswer(p, t) \/ Push(p, t)
             \/ Connected(p) \/ Perform(p) \/ PerformRefused(p) \/ Performed(p)
Watching == "page" \in events

Next ==
    /\ \/ Administration
       \/ \E a \in Admins : Writing(a)
       \/ \E d \in Screens : \E i \in 1 .. Len(message[d]) : Expire(d, i)
       \/ \E s \in Stations : Station(s)
       \/ \E p \in Pages : \E o \in Offers(p) : Press(p, o)
       \/ /\ Watching
          /\ \E p \in Pages : Server(p) \/ Poll(p) \/ Connect(p) \/ Refused(p)
                               \/ Tick(p) \/ Forced(p) \/ Renew(p)
       \/ Outage \/ Restore
    /\ UNCHANGED events

Spec == Init /\ [][Next]_vars

(* Requests are answered, and timers go off.                               *)
Fairness ==
    /\ WF_vars(Watching /\ Restore /\ UNCHANGED events)
    /\ \A p \in Pages :
          /\ \A t \in Slots : WF_vars(Watching /\ (PollAnswer(p, t) \/ Push(p, t))
                                      /\ UNCHANGED events)
          /\ WF_vars(Watching /\ (Connected(p) \/ Perform(p) \/ PerformRefused(p) \/ Performed(p))
                     /\ UNCHANGED events)
          /\ WF_vars(Watching /\ (Connect(p) \/ Refused(p)) /\ UNCHANGED events)
          /\ WF_vars(Watching /\ Tick(p) /\ UNCHANGED events)
          /\ WF_vars(Watching /\ Forced(p) /\ UNCHANGED events)
          /\ WF_vars(Watching /\ Poll(p) /\ UNCHANGED events)
          /\ WF_vars(Watching /\ Renew(p) /\ UNCHANGED events)

-----------------------------------------------------------------------------
(* An answer that is late may put an older snapshot on the screen, also    *)
(* one that the stream has followed by a newer.  Once the station is quiet *)
(* the screen shows it as it is all the same.                              *)
ScreenCatchesUp ==
    Watching => \A p \in Pages :
        <>[](Behind(LinkOf[p]) # {} => page[p].shown = Current(LinkOf[p]))

(* "killing read AND write": a page whose link was replaced or whose       *)
(* display was removed ends with the notice that it is not valid.          *)
DeadLinkGoesDark ==
    Watching => \A p \in Pages : [](Behind(LinkOf[p]) = {} => <>page[p].fatal)

MakesScreenOf(a) ==
    /\ admin[a].at = "create" /\ admin[a].kind = "set"
    /\ admin[a]'.at = "idle" \/ admin[a].todo # admin[a]'.todo

(* "The role is a physical property of the screen, so it only changes when *)
(* the caller asks for it", by naming it or by a profile for many screens; *)
(* and a screen set adds only the roles a station does not have.  The      *)
(* exception is a row that somebody else wrote in between.                 *)
RolesAsAsked ==
    [][/\ \A d \in Screens :
             Exists(d) /\ Exists(d)' /\ display[d].config.view # display'[d].config.view =>
                \E a \in Admins :
                   \/ admin[a].at = "update" /\ admin[a].display = d /\ "config" \in DOMAIN admin[a].input
                      /\ ("view" \in DOMAIN admin[a].input.config \/ d \in admin[a].late)
                   \/ admin[a].at = "apply" /\ d \in admin[a].rows
                   \/ admin[a].at = "interactive" /\ d \in admin[a].late
       /\ \A a \in Admins :
             (created' # created /\ MakesScreenOf(a)) =>
                \A d \in At(display'[created'].station) :
                   display[d].config.view = display'[created'].config.view => d \in admin[a].late]_vars
=============================================================================
