------------------------------- MODULE TerminalDay -------------------------------
(***************************************************************************)
(* What the workers of the receiving floor do at their devices: they build *)
(* and receive batches (Batch), stand at the web terminal, on one of its   *)
(* task pages, with the keyboard or with a scanner (Scanner), or write the *)
(* report of a session there (ReportPage).  A behaviour shows one of the   *)
(* three: of a batch the terminal knows no more than the cards and counts  *)
(* that Scanner leaves abstract, and a report is a page of its own, whose  *)
(* state is gone when another one is opened.                               *)
(***************************************************************************)
EXTENDS Batch

CONSTANTS
    Scenes,    \* what behaviours show
    Items, Places, Fits, Stock, Verified, Days, Loops,   \* of Scanner
    Sessions, MaxRequests   \* of ReportPage

VARIABLES
    scene,
    day, screen, calls, outcome, server, last, accepted, left,
    overlay, cam, loop, held, resuming, inView, panel,   \* of Scanner
    address, view, findings, taking, failed, listed,
    asked, stored, sent, hurried   \* of ReportPage

T == INSTANCE Scanner
R == INSTANCE ReportPage

ASSUME TerminalAssumption ==
    /\ Scenes \subseteq {"batches", "terminal", "report"}
    /\ T!TasksAssumption
    /\ R!ReportPageAssumption

terminalVars == <<day, screen, calls, outcome, server, last, accepted, left,
                  overlay, cam, loop, held, resuming, inView, panel>>
reportVars == <<address, view, findings, taking, failed, listed,
                asked, stored, sent, hurried>>
dayVars == <<vars, terminalVars, reportVars, scene>>

NoTerminal == T!ScannerInit /\ day = CHOOSE d \in Days : TRUE

DayInit ==
    \/ /\ scene = "batches" /\ scene \in Scenes
       /\ Init
       /\ NoTerminal /\ R!ReportPageInit
    \/ /\ scene = "terminal" /\ scene \in Scenes
       /\ Inheriting(<<>>, <<>>, <<>>)
       /\ T!ScannerInit /\ R!ReportPageInit
    \/ /\ scene = "report" /\ scene \in Scenes
       /\ Inheriting(<<>>, <<>>, <<>>)
       /\ NoTerminal /\ R!ReportPageInit

DayNext ==
    \/ scene = "batches" /\ Next /\ UNCHANGED <<terminalVars, reportVars, scene>>
    \/ scene = "terminal" /\ T!ScannerNext /\ UNCHANGED <<vars, reportVars, scene>>
    \/ scene = "report" /\ R!ReportPageNext /\ UNCHANGED <<vars, terminalVars, scene>>

DaySpec == DayInit /\ [][DayNext]_dayVars

-----------------------------------------------------------------------------
(* The server counts no more units than first scans were accepted: a       *)
(* commit whose answer was lost and that the worker repeats, a label that  *)
(* is scanned again, a page that is left and opened again are not another  *)
(* unit (TempStorageTask.tsx:147-149, 158-166).                            *)
CountedAsHandled == T!CountedAsHandled

(* What is committed is what the worker scanned last, however the answers  *)
(* of earlier scans come (busy, SortingTask.tsx:58; setView(null),         *)
(* PackingTask.tsx:60).                                                    *)
CommitsWhatWasScanned == T!CommitsWhatWasScanned

(* A text that a loop still reads when the worker closes the scanner or    *)
(* changes its camera is neither handed to the page nor offered to the     *)
(* worker (ContinuousScanner.tsx:352).                                     *)
TextStaysInItsLoop == T!TextStaysInItsLoop

(* What was found in one session does not end up under the heading of      *)
(* another, on the page or in its row, as long as the worker lets the page *)
(* finish a step before loading a report: neither by requests that fail,   *)
(* nor by saves that are repeated because their answer was lost, nor by a  *)
(* change of session (ReceivingReport.tsx:105-126, 150-210).               *)
WrittenUnderItsHeading == R!WrittenUnderItsHeading
=============================================================================
