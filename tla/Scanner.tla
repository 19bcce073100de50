-------------------------------- MODULE Scanner --------------------------------
(***************************************************************************)
(* The scanner overlay of the web terminal on top of a task page           *)
(* (frontend/src/modules/receiving-terminal: ContinuousScanner.tsx,        *)
(* scanner-state.ts, dedupe.ts, multiframe.ts, HardwareScannerPanel.tsx).  *)
(*                                                                         *)
(* A decode loop takes a frame, looks for a barcode and, when none was     *)
(* found for a while, reads the text; both are awaited.  A loop that is    *)
(* torn down (EXIT, the other camera, RETRY) finishes the frame it has.    *)
(* The state machine is shared by the loops, the confirmation of an        *)
(* uncertain text and the verdict that the page shows.                     *)
(*                                                                         *)
(* A barcode is decoded within a frame: a loop that was torn down while it *)
(* decodes is done before the worker does anything else (Quiet).  Reading  *)
(* a text takes as long as it takes.                                       *)
(***************************************************************************)
EXTENDS TaskScreens
LOCAL INSTANCE SequencesExt

CONSTANT
    Loops     \* bound: decode loops that exist at the same time

VARIABLES
    overlay,  \* the page shows the scanner, for receiving the hardware panel
    cam,      \* the state machine
    loop,     \* decode loops
    held,     \* the uncertain text that waits for the worker, or None
    resuming, \* the timer that takes the scanner back to scanning
    inView,   \* what the camera sees
    panel     \* what the hardware panel knew of the page when it was mounted

cameraVars == <<overlay, cam, loop, held, resuming, inView, panel>>
scannerVars == <<screenVars, cameraVars>>

(* TRANSITIONS of scanner-state.ts.                                        *)
Transitions ==
    [IDLE |-> [OPEN |-> "CAMERA_STARTING", EXIT |-> "EXITING"],
     CAMERA_STARTING |-> [CAMERA_READY |-> "SCANNING", CAMERA_FAILED |-> "ERROR", EXIT |-> "EXITING"],
     SCANNING |-> [BARCODE_SCAN |-> "BARCODE_DETECTING", OCR_SCAN |-> "OCR_PROCESSING",
                   CANDIDATE |-> "CANDIDATE_FOUND", EXIT |-> "EXITING"],
     BARCODE_DETECTING |-> [CANDIDATE |-> "CANDIDATE_FOUND", OCR_SCAN |-> "OCR_PROCESSING",
                            RESUME |-> "SCANNING", EXIT |-> "EXITING"],
     OCR_PROCESSING |-> [CANDIDATE |-> "CANDIDATE_FOUND", RESUME |-> "SCANNING", EXIT |-> "EXITING"],
     CANDIDATE_FOUND |-> [VALIDATE |-> "VALIDATING", RESUME |-> "SCANNING", EXIT |-> "EXITING"],
     VALIDATING |-> [SUBMIT |-> "SUBMITTING", CONFIRM |-> "SUBMITTING", REJECTED |-> "ERROR",
                     RESUME |-> "SCANNING", EXIT |-> "EXITING"],
     SUBMITTING |-> [ACCEPTED |-> "SUCCESS", REJECTED |-> "ERROR", EXIT |-> "EXITING"],
     SUCCESS |-> [RESUME |-> "SCANNING", EXIT |-> "EXITING"],
     ERROR |-> [RESUME |-> "SCANNING", OPEN |-> "CAMERA_STARTING", EXIT |-> "EXITING"],
     EXITING |-> [CLOSED |-> "IDLE"]]

(* send: an event that the state does not allow is ignored.                *)
Send(state, event) ==
    IF event \in DOMAIN Transitions[state] THEN Transitions[state][event] ELSE state
Sends(state, events) == FoldLeft(Send, state, events)
Still(state) == state \in {"VALIDATING", "SUBMITTING", "SUCCESS", "ERROR"}

(* `at`: where the loop is, "stray" when it was torn down before its camera *)
(* opened; `life`: still wanted, torn down, or of a scanner that is no      *)
(* longer mounted and has a state machine of its own; `label`: what its     *)
(* frame shows; `votes`: texts it read, in too few frames; `dup`: the code  *)
(* it handed over last, within the window.                                  *)
Loop == [at : {"off", "opening", "starting", "stray", "ready", "decoding", "reading"},
         life : {"none", "wanted", "stopped", "unmounted"},
         label : Labels \cup {None}, votes : SUBSET Labels, dup : Labels \cup {None}]
Off == [at |-> "off", life |-> "none", label |-> None, votes |-> {}, dup |-> None]

ScannerTypeOK ==
    /\ TasksTypeOK
    /\ overlay \in {"none", "camera", "panel"}
    /\ cam \in DOMAIN Transitions
    /\ loop \in [Loops -> Loop]
    /\ held \in Labels \cup {None}
    /\ resuming \in BOOLEAN
    /\ inView \in Labels \cup {None}
    /\ panel \in [cards : SUBSET Items, busy : BOOLEAN]

NoPanel == [cards |-> {}, busy |-> FALSE]

ScannerInit ==
    /\ TasksInit
    /\ overlay = "none" /\ cam = "IDLE"
    /\ loop = [n \in Loops |-> Off]
    /\ held = None /\ resuming = FALSE /\ inView = None
    /\ panel = NoPanel

-----------------------------------------------------------------------------
(* teardown: a loop that waits for its next frame ends; one that awaits    *)
(* something is told to stop, and the votes of its frames go.              *)
Idling(r) == r.at \in {"off", "ready"}
KeepsVotes(r) ==
    IF Idling(r) THEN Off
    ELSE IF r.life = "wanted" THEN [r EXCEPT !.life = "stopped"] ELSE r
TornDown(r) ==
    IF Idling(r) THEN Off
    ELSE IF r.life = "wanted" THEN [r EXCEPT !.life = "stopped", !.votes = {}] ELSE r
Stopped(loops) == [n \in Loops |-> TornDown(loops[n])]

(* start: teardown of the loop before, and a new one.                      *)
Start(loops) ==
    \E n \in Loops :
        /\ Stopped(loops)[n] = Off
        /\ loop' = [Stopped(loops) EXCEPT ![n] = [Off EXCEPT !.at = "opening", !.life = "wanted"]]
        /\ cam' = "CAMERA_STARTING"
        /\ held' = None

(* The scanner is unmounted, and its timer with it; what its loops decode  *)
(* or read at that moment they finish.                                     *)
Unmount(loops) ==
    /\ loop' = [n \in Loops |->
                   IF loops[n].at \in {"decoding", "reading"}
                   THEN [TornDown(loops[n]) EXCEPT !.life = "unmounted"] ELSE Off]
    /\ cam' = "IDLE" /\ held' = None /\ resuming' = FALSE

(* ReceivingHome shows the scanner of its lane, a camera or the panel of   *)
(* the hardware scanners, except while a card is reviewed.                 *)
Receives == task = "receiving"
Camera == day.scanner # "none"
Wanted(s) == s.phase = "open" /\ s.hand = NoHand

Mount ==
    \/ Camera /\ overlay' = "camera" /\ Start(loop) /\ UNCHANGED panel
    \/ /\ overlay' = "panel"
       /\ panel' = [cards |-> screen'.cards, busy |-> screen'.busy]
       /\ UNCHANGED <<cam, loop, held>>

(* The verdict: ContinuousScanner.tsx:268.                                 *)
Verdict(state) ==
    IF overlay # "camera" \/ outcome' = outcome
    THEN cam' = state /\ UNCHANGED resuming
    ELSE /\ cam' = CASE outcome'.kind = "ok" -> Send(state, "ACCEPTED")
                     [] outcome'.kind = "bad" -> Send(state, "REJECTED")
                     [] OTHER -> state
         /\ resuming' = (outcome'.kind # "none")

(* The effects of a step of the page, for loops, a state and a held text   *)
(* that the step leaves.                                                   *)
Follow(loops, state, text) ==
    IF Receives /\ overlay = "none" /\ Wanted(screen') THEN Mount /\ UNCHANGED resuming
    ELSE IF Receives /\ overlay # "none" /\ ~Wanted(screen')
    THEN overlay' = "none" /\ panel' = NoPanel /\ Unmount(loops)
    ELSE loop' = loops /\ held' = text /\ Verdict(state) /\ UNCHANGED <<overlay, panel>>

Quiet == \A n \in Loops : loop[n].at = "decoding" => loop[n].life = "wanted"

PageBelow ==
    /\ (Quiet /\ WorkerStep) \/ WireStep
    /\ Follow(loop, cam, held)
    /\ UNCHANGED inView

(* The page goes with its scanner; the frame of the moment is done before, *)
(* and of a text that is still read the page would hear nothing.           *)
LeavePage ==
    /\ Leave /\ \A n \in Loops : loop[n].at # "decoding"
    /\ overlay' = "none" /\ panel' = NoPanel
    /\ loop' = [n \in Loops |-> Off]
    /\ cam' = "IDLE" /\ held' = None /\ resuming' = FALSE
    /\ inView' = None

(* OPEN SCANNER of a task page, and EXIT, which forgets the outcome.       *)
OpenScanner ==
    /\ Quiet /\ Camera /\ "scanner" \in Offers /\ overlay = "none"
    /\ overlay' = "camera" /\ Start(loop)
    /\ resuming' = (outcome.kind # "none")
    /\ UNCHANGED <<screenVars, inView, panel>>

Exit ==
    /\ overlay = "camera" /\ ~Receives
    /\ overlay' = "none" /\ Unmount(loop) /\ inView' = None
    /\ outcome' = [outcome EXCEPT !.kind = "none"]
    /\ UNCHANGED <<day, screen, calls, server, last, accepted, left, panel>>

(* flipCamera and RETRY.                                                   *)
Restart ==
    /\ Quiet /\ overlay = "camera" /\ Start(loop)
    /\ UNCHANGED <<screenVars, overlay, resuming, inView, panel>>

(* The tabs SOFTWARE and HARDWARE of ReceivingScanner.                     *)
PickMethod ==
    /\ Quiet /\ Receives
    /\ \/ /\ overlay = "camera" /\ overlay' = "panel"
          /\ panel' = [cards |-> screen.cards, busy |-> screen.busy]
          /\ Unmount(loop)
       \/ /\ overlay = "panel" /\ Camera /\ overlay' = "camera"
          /\ panel' = NoPanel /\ Start(loop) /\ UNCHANGED resuming
    /\ UNCHANGED <<screenVars, inView>>

(* The worker holds something else before the camera.                      *)
Show(l) ==
    /\ Quiet /\ overlay = "camera" /\ l # inView /\ left.views > 0
    /\ inView' = l /\ left' = [left EXCEPT !.views = @ - 1]
    /\ UNCHANGED <<day, screen, calls, outcome, server, last, accepted>>
    /\ UNCHANGED <<overlay, cam, loop, held, resuming, panel>>

-----------------------------------------------------------------------------
(* The decode loops *)

(* The machine that a loop sends to: its own scanner's.                    *)
SentBy(n, events) == IF loop[n].life = "unmounted" THEN cam ELSE Sends(cam, events)
Onward(r) == IF r.life = "wanted" THEN [r EXCEPT !.at = "ready", !.label = None] ELSE Off
Moves(n, r) == [loop EXCEPT ![n] = r]

OnlyLoop == UNCHANGED <<screenVars, overlay, resuming, inView, panel>>

(* begin: the camera is opened, then started.  A loop that is stopped      *)
(* between the two starts its camera all the same; one that is stopped     *)
(* while the camera starts ends there, with or without a failure.          *)
CameraOpened(n) ==
    /\ loop[n].at = "opening"
    /\ loop' = Moves(n, [loop[n] EXCEPT !.at = IF loop[n].life = "wanted" THEN "starting" ELSE "stray"])
    /\ UNCHANGED <<cam, held>> /\ OnlyLoop

CameraReady(n) ==
    /\ loop[n].at = "stray" \/ (loop[n].at = "starting" /\ loop[n].life = "wanted")
    /\ loop' = Moves(n, Onward(loop[n]))
    /\ cam' = SentBy(n, <<"CAMERA_READY">>)
    /\ UNCHANGED held /\ OnlyLoop

CameraFailed(n) ==
    /\ loop[n].at \in {"opening", "starting", "stray"}
    /\ loop' = Moves(n, Off)
    /\ \/ cam' = SentBy(n, <<"CAMERA_FAILED">>)
       \/ loop[n].at = "starting" /\ loop[n].life # "wanted" /\ UNCHANGED cam
    /\ UNCHANGED held /\ OnlyLoop

(* tick: a frame is taken, unless the machine waits for something.         *)
Frame(n) ==
    /\ loop[n].at = "ready" /\ ~Still(cam)
    /\ loop' = Moves(n, [loop[n] EXCEPT !.at = "decoding", !.label = inView])
    /\ cam' = Send(cam, "BARCODE_SCAN")
    /\ UNCHANGED held /\ OnlyLoop

(* submit: a code that the loop handed over within the window is not       *)
(* handed over again.  A scanner that is unmounted hands over to the page  *)
(* as it was: busy, or with its lane still open.                           *)
Suppressed(n) == loop[n].dup = loop[n].label

HandOver(n) ==
    LET l == loop[n].label
    IN  /\ l # None /\ ~Suppressed(n)
        /\ \/ Submit(l)
           \/ /\ loop[n].life = "unmounted"
              /\ \/ UNCHANGED screenVars
                 \/ Receives /\ screen.phase = "closed" /\ MatchCard(l, screen.cards)
        /\ Follow(Moves(n, Onward([loop[n] EXCEPT !.dup = l, !.votes = {}])),
                  SentBy(n, <<"CANDIDATE", "VALIDATE", "SUBMIT">>), held)
        /\ UNCHANGED inView

Nothing(n, events) ==
    /\ loop' = Moves(n, Onward(loop[n]))
    /\ cam' = SentBy(n, events)
    /\ UNCHANGED held /\ OnlyLoop

Decoded(n) ==
    /\ loop[n].at = "decoding"
    /\ \/ HandOver(n)
       \/ Nothing(n, <<"RESUME">>)
       \/ /\ held = None
          /\ loop' = Moves(n, [loop[n] EXCEPT !.at = "reading"])
          /\ cam' = SentBy(n, <<"RESUME", "OCR_SCAN">>)
          /\ UNCHANGED held /\ OnlyLoop

(* runOcr, runOcrLevel2: a text that enough frames agree on is handed over *)
(* when it is certain, held for the worker when it is not quite, dropped   *)
(* otherwise.  The last line sends RESUME if the machine is still reading. *)
Stable(n) == loop[n].label # None /\ (day.scanner = "ppocr" \/ loop[n].label \in loop[n].votes)
Finally == IF cam = "OCR_PROCESSING" THEN <<"RESUME">> ELSE <<>>

ReadNothing(n) == Nothing(n, Finally)

Vote(n) ==
    /\ loop[n].label # None /\ day.scanner = "tesseract"
    /\ loop' = Moves(n, Onward([loop[n] EXCEPT !.votes = @ \cup {loop[n].label}]))
    /\ cam' = SentBy(n, Finally)
    /\ UNCHANGED held /\ OnlyLoop

Hold(n) ==
    /\ Stable(n)
    /\ loop' = Moves(n, Onward([loop[n] EXCEPT !.votes = @ \ {loop[n].label}]))
    /\ cam' = SentBy(n, <<"CANDIDATE", "VALIDATE">>)
    /\ held' = IF loop[n].life = "unmounted" THEN held ELSE loop[n].label
    /\ OnlyLoop

Read(n) ==
    /\ loop[n].at = "reading"
    /\ \/ ReadNothing(n) \/ Vote(n) \/ Hold(n)
       \/ Stable(n) /\ HandOver(n)

(* The window of dedupe.ts passes; while the code stays in view and frames *)
(* are decoded it is renewed.                                              *)
Forget(n) ==
    /\ loop[n].dup # None /\ (inView # loop[n].dup \/ Still(cam))
    /\ loop' = Moves(n, [loop[n] EXCEPT !.dup = None])
    /\ UNCHANGED <<cam, held>> /\ OnlyLoop

-----------------------------------------------------------------------------
(* The worker and the timer *)

(* confirmPending, the choice among candidates, and rescanPending.         *)
Confirm ==
    /\ Quiet /\ held # None /\ cam = "VALIDATING"
    /\ Submit(held)
    /\ Follow(loop, Send(cam, "CONFIRM"), None)
    /\ UNCHANGED inView

Choose(l) ==
    /\ Quiet /\ held # None /\ l # held
    /\ held' = l
    /\ UNCHANGED <<cam, loop>> /\ OnlyLoop

Rescan ==
    /\ Quiet /\ held # None
    /\ held' = None /\ cam' = Send(cam, "RESUME")
    /\ UNCHANGED loop /\ OnlyLoop

Resume ==
    /\ resuming /\ resuming' = FALSE
    /\ cam' = Send(cam, "RESUME")
    /\ UNCHANGED <<screenVars, overlay, loop, held, inView, panel>>

(* handleRead of HardwareScannerPanel: the listener was attached with the  *)
(* first render, and calls the page as it was then.                        *)
HardRead(l) ==
    /\ Quiet /\ overlay = "panel" /\ ~panel.busy
    /\ MatchCard(l, panel.cards)
    /\ Follow(loop, cam, held)
    /\ UNCHANGED inView

LoopStep(n) ==
    \/ CameraOpened(n) \/ CameraReady(n) \/ CameraFailed(n)
    \/ Frame(n) \/ Decoded(n) \/ Read(n) \/ Forget(n)

ScannerNext ==
    \/ PageBelow \/ LeavePage \/ OpenScanner \/ Exit \/ Restart \/ PickMethod
    \/ Confirm \/ Rescan \/ Resume
    \/ \E l \in Labels \cup {None} : Show(l)
    \/ \E l \in Labels : Choose(l)
    \/ \E l \in Labels : HardRead(l)
    \/ \E n \in Loops : LoopStep(n)

-----------------------------------------------------------------------------
(* A text takes long to read.  When the scanner was closed, or its camera  *)
(* changed, meanwhile, it is not handed to the page, and not offered to    *)
(* the worker (consensus.reset in teardown, ContinuousScanner.tsx:352, and *)
(* a text takes two frames, scan-config.ts:196), unless the whole page is  *)
(* left, which forgets everything.  The engine "ppocr" has no such rule.   *)
TextStaysInItsLoop ==
    [][\A n \in Loops :
          (loop[n].at = "reading" /\ loop[n].life # "wanted" /\ loop'[n].at = "off"
               /\ day.scanner = "tesseract")
          => UNCHANGED <<screenVars, held>> \/ screen' = Mounted]_scannerVars
=============================================================================
