------------------------------ MODULE ReportPage ------------------------------
(***************************************************************************)
(* The verification report at the web terminal                             *)
(* (frontend/src/terminal/ReceivingReport.tsx) with the part of the server *)
(* its requests reach: the draft, the damage and the submission of         *)
(* receiving-reports.service.ts, each reduced to its effect on the report. *)
(*                                                                         *)
(* One page serves the list of sessions and the report of every session:   *)
(* the route keeps the component when the session in the address changes,  *)
(* and what it shows of the last report stays, and stays editable, until   *)
(* another one is loaded.  Nothing orders the answers of its requests.     *)
(*                                                                         *)
(* The manual findings (description, observation, photos) are abstracted   *)
(* to the sessions they were written for.                                  *)
(***************************************************************************)
EXTENDS Naturals

CONSTANTS
    None,
    Sessions,   \* receiving sessions that have a report
    MaxRequests \* bound: requests of a behaviour

ReportPageAssumption ==
    /\ None \notin Sessions \cup {"away", "picker"}
    /\ None \notin [of : Sessions, locked : BOOLEAN]
    /\ MaxRequests \in Nat

VARIABLES
    address,  \* session of the address, "picker" without one, "away": another page
    view,     \* the report that is displayed, or None
    findings, \* sessions whose findings the manual fields hold
    taking,   \* session for which photos are being read, or None
    failed,   \* an error is displayed, with RETRY below it
    listed,   \* the list of sessions is loaded
    asked,    \* its requests, in the order they were sent
    stored,   \* the server: findings in the report row of each session
    sent,     \* the server: sessions whose report is submitted, and locked
    hurried   \* a report was loaded while another step of the page ran

pageVars == <<address, view, findings, taking, failed, listed, hurried>>
serverVars == <<stored, sent>>
reportPageVars == <<pageVars, serverVars, asked>>

Nothing == [kind |-> "none", of |-> None, text |-> {}, at |-> "idle", heard |-> FALSE,
            got |-> {}, locked |-> FALSE]
Over == [Nothing EXCEPT !.at = "over"]
Loads == {"load", "reload"}
Operations == {"save", "submit", "damage"}

Requests == 1 .. MaxRequests

(* A request is over when its answer was taken, or when nobody waits for   *)
(* it and it reaches the server no more.                                   *)
Ask(kind, s, text) ==
    [kind |-> kind, of |-> s, text |-> text, at |-> "sent", heard |-> TRUE,
     got |-> {}, locked |-> FALSE]

Idle(q) == asked[q].at = "idle"
Heard(kinds) == {q \in Requests : asked[q].heard /\ asked[q].kind \in kinds}

(* busy is set when an operation starts, buttons that start one are        *)
(* disabled meanwhile, and it is reset when that one ends: with the answer *)
(* or, for a declared damage, when the report is loaded again.             *)
Busy == Heard(Operations \cup {"reload"}) # {}
Editable == view # None /\ ~view.locked
Displayed(s, locked) == [of |-> s, locked |-> locked]

(* Everything the page has under way that writes the fields or sends them. *)
Running == Heard(Loads \cup Operations) # {} \/ taking # None

ReportPageInit ==
    /\ address = "away" /\ view = None /\ findings = {} /\ taking = None
    /\ failed = FALSE /\ listed = FALSE /\ hurried = FALSE
    /\ asked = [q \in Requests |-> Nothing]
    /\ stored = [s \in Sessions |-> {}] /\ sent = {}

-----------------------------------------------------------------------------
(* The worker                                                              *)

Send(q, kind, s, text) ==
    /\ Idle(q) /\ \A p \in Requests : p < q => ~Idle(p)
    /\ asked' = [asked EXCEPT ![q] = Ask(kind, s, text)]

(* loadChoices and loadView, by the effect that follows the address and by *)
(* RETRY; the error that was displayed goes.                               *)
LoadChoices(q) ==
    Send(q, "choices", None, {}) /\ UNCHANGED hurried
LoadView(q, s) ==
    Send(q, "load", s, {}) /\ hurried' = (hurried \/ Running)
Load(q, a) == IF a = "picker" THEN LoadChoices(q) ELSE LoadView(q, a)

(* The page opens on the list (ReceivingHome, WorkerTerminalHome) or, by   *)
(* its address, on a session.                                              *)
Enter(q, a) ==
    /\ address = "away" /\ address' = a
    /\ Load(q, a) /\ failed' = FALSE
    /\ UNCHANGED <<view, findings, taking, listed, serverVars>>

(* OUVRIR, on the list, and SESSIONS, on a report.                         *)
Open(q, s) ==
    /\ address = "picker" /\ listed /\ address' = s
    /\ LoadView(q, s) /\ failed' = FALSE
    /\ UNCHANGED <<view, findings, taking, listed, serverVars>>
BackToList(q) ==
    /\ address \in Sessions /\ address' = "picker"
    /\ LoadChoices(q) /\ failed' = FALSE
    /\ UNCHANGED <<view, findings, taking, listed, serverVars>>
Retry(q) ==
    /\ address # "away" /\ failed /\ failed' = FALSE
    /\ Load(q, address)
    /\ UNCHANGED <<address, view, findings, taking, listed, serverVars>>

(* RETOUR: the component is gone, nobody hears the answers that still come.*)
Unheard(c) == [c EXCEPT !.heard = FALSE]
LeavePage ==
    /\ address # "away" /\ address' = "away"
    /\ view' = None /\ findings' = {} /\ taking' = None /\ failed' = FALSE /\ listed' = FALSE
    /\ asked' = [q \in Requests |-> Unheard(asked[q])]
    /\ UNCHANGED <<serverVars, hurried>>

(* The manual fields, and "retirer" of a photo.                            *)
Write ==
    /\ Editable /\ ~Busy
    /\ findings' = findings \cup {view.of}
    /\ UNCHANGED <<address, view, taking, failed, listed, hurried, serverVars, asked>>
Remove(s) ==
    /\ Editable /\ s \in findings
    /\ findings' = findings \ {s}
    /\ UNCHANGED <<address, view, taking, failed, listed, hurried, serverVars, asked>>

(* onFiles reads the photos and then appends them, to the fields as they   *)
(* are by then.                                                            *)
TakePhotos ==
    /\ Editable /\ ~Busy /\ taking = None
    /\ taking' = view.of
    /\ hurried' = (hurried \/ Heard(Loads) # {})
    /\ UNCHANGED <<address, view, findings, failed, listed, serverVars, asked>>
PhotosRead ==
    /\ taking # None /\ taking' = None
    /\ \/ findings' = findings \cup {taking} /\ UNCHANGED failed
       \/ failed' = TRUE /\ UNCHANGED findings
    /\ UNCHANGED <<address, view, listed, hurried, serverVars, asked>>

(* saveDraft, submit and declareDamage, for the report that is displayed.  *)
Operate(q, kind, text) ==
    /\ Editable /\ ~Busy
    /\ Send(q, kind, view.of, text) /\ failed' = FALSE
    /\ hurried' = (hurried \/ Heard(Loads) # {})
    /\ UNCHANGED <<address, view, findings, taking, listed, serverVars>>
SaveDraft(q) == Operate(q, "save", findings)
Submit(q) == Operate(q, "submit", findings)
DeclareDamage(q) == Operate(q, "damage", {})

WorkerStep ==
    \/ LeavePage \/ Write \/ TakePhotos \/ PhotosRead
    \/ \E s \in Sessions : Remove(s)
    \/ \E q \in Requests :
         \/ \E a \in Sessions \cup {"picker"} : Enter(q, a)
         \/ \E s \in Sessions : Open(q, s)
         \/ BackToList(q) \/ Retry(q) \/ SaveDraft(q) \/ Submit(q) \/ DeclareDamage(q)

-----------------------------------------------------------------------------
(* The server                                                              *)

Served(q, got, locked) ==
    asked' = [asked EXCEPT ![q].at = "served", ![q].got = got, ![q].locked = locked]

(* getReport: the manual fields are those of the row, and a submitted      *)
(* report is locked.  activeSession and arrivals: any of the sessions.     *)
ServeRead(q) ==
    /\ asked[q].at = "sent" /\ asked[q].kind \in Loads
    /\ Served(q, stored[asked[q].of], asked[q].of \in sent)
    /\ UNCHANGED <<pageVars, serverVars>>
ServeChoices(q) ==
    /\ asked[q].at = "sent" /\ asked[q].kind = "choices"
    /\ Served(q, {}, FALSE)
    /\ UNCHANGED <<pageVars, serverVars>>

(* saveDraft and submitReport write the fields they are sent over those of *)
(* the row, unless it is locked; markDamage writes none of them.  The      *)
(* first two answer with the report.                                       *)
ServeWrite(q) ==
    LET c == asked[q] IN
    /\ c.at = "sent" /\ c.kind \in {"save", "submit"} /\ c.of \notin sent
    /\ stored' = [stored EXCEPT ![c.of] = c.text]
    /\ sent' = IF c.kind = "submit" THEN sent \cup {c.of} ELSE sent
    /\ Served(q, c.text, c.kind = "submit")
    /\ UNCHANGED pageVars
ServeDamage(q) ==
    /\ asked[q].at = "sent" /\ asked[q].kind = "damage" /\ asked[q].of \notin sent
    /\ Served(q, {}, FALSE)
    /\ UNCHANGED <<pageVars, serverVars>>

(* The request was refused, never came, or its answer is lost: the page    *)
(* displays an error, and what was sent may still reach the server.        *)
Fail(q) ==
    /\ asked[q].heard /\ failed' = TRUE
    /\ asked' = [asked EXCEPT ![q] = Unheard(asked[q])]
    /\ UNCHANGED <<address, view, findings, taking, listed, hurried, serverVars>>
Vanish(q) ==
    /\ asked[q].at \in {"sent", "served"} /\ ~asked[q].heard
    /\ asked' = [asked EXCEPT ![q] = Over]
    /\ UNCHANGED <<pageVars, serverVars>>

-----------------------------------------------------------------------------
(* The answers                                                             *)

Answers(q, kinds) == asked[q].at = "served" /\ asked[q].heard /\ asked[q].kind \in kinds
Taken(q) == asked' = [asked EXCEPT ![q] = Over]

(* Mutant: the fields keep what they held when another report is loaded.   *)
ViewLoadedBesideFields(q) ==
    /\ Answers(q, Loads)
    /\ view' = Displayed(asked[q].of, asked[q].locked)
    /\ Taken(q)
    /\ UNCHANGED <<address, findings, taking, failed, listed, hurried, serverVars>>

(* loadView: the report, and the fields as they are in its row.            *)
ViewLoaded(q) ==
    /\ Answers(q, Loads)
    /\ view' = Displayed(asked[q].of, asked[q].locked)
    /\ findings' = asked[q].got
    /\ Taken(q)
    /\ UNCHANGED <<address, taking, failed, listed, hurried, serverVars>>
ChoicesLoaded(q) ==
    /\ Answers(q, {"choices"})
    /\ listed' = TRUE
    /\ Taken(q)
    /\ UNCHANGED <<address, view, findings, taking, failed, hurried, serverVars>>

(* saveDraft and submit display the report of the answer, whatever is      *)
(* displayed by then, and leave the fields as they are.                    *)
Written(q) ==
    /\ Answers(q, {"save", "submit"})
    /\ view' = Displayed(asked[q].of, asked[q].locked)
    /\ Taken(q)
    /\ UNCHANGED <<address, findings, taking, failed, listed, hurried, serverVars>>

(* declareDamage loads the report it was declared for again.               *)
DamageDeclared(q) ==
    /\ Answers(q, {"damage"})
    /\ asked' = [asked EXCEPT ![q] = Ask("reload", asked[q].of, {})]
    /\ failed' = FALSE
    /\ hurried' = (hurried \/ taking # None \/ Heard(Loads \cup Operations) # {q})
    /\ UNCHANGED <<address, view, findings, taking, listed, serverVars>>

WireStep(q) ==
    \/ ServeRead(q) \/ ServeChoices(q) \/ ServeWrite(q) \/ ServeDamage(q)
    \/ Fail(q) \/ Vanish(q)
    \/ ViewLoaded(q) \/ ChoicesLoaded(q) \/ Written(q) \/ DamageDeclared(q)

ReportPageNext == WorkerStep \/ \E q \in Requests : WireStep(q)

-----------------------------------------------------------------------------
(* Findings stay with the session they were written for, for a worker who  *)
(* does not hurry (TerminalDay; ReceivingReport.tsx:105-126, 150-210).     *)
WrittenUnderItsHeading ==
    ~hurried =>
        /\ \A s \in Sessions : stored[s] \subseteq {s}
        /\ view # None => findings \subseteq {view.of}
=============================================================================
