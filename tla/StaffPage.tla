------------------------------- MODULE StaffPage -------------------------------
(***************************************************************************)
(* The forms of the workers' page of the administration                    *)
(* (frontend/src/admin/pages/Workers.tsx): a worker is hired, with a       *)
(* station and tasks, is given a task, blocked, unblocked or removed, and  *)
(* a task of the registry is cancelled; with what their requests do at the *)
(* server (users.service.ts, operations.service.ts,                        *)
(* assignments.service.ts).                                                *)
(*                                                                         *)
(* Hiring is a sequence of requests: the account, the station, one request *)
(* per task.  Nothing holds them together: when one fails the form shows   *)
(* the error and can be submitted again, from the beginning.               *)
(*                                                                         *)
(* A page has one form at a time; forms that are open at the same time are *)
(* of different administrators.  The list of workers on the page may be    *)
(* as old as the page, so its buttons are offered whatever the account has *)
(* become.  Each request is one step of the server: the module Access has  *)
(* the interleavings of the account's status, TaskDispatch those of a task.*)
(***************************************************************************)
EXTENDS Naturals

CONSTANTS
    Forms,      \* forms that are opened
    Codes,      \* employee codes
    Posts,      \* stations
    TaskKeys,   \* TASK_CATALOG
    MaxTries,   \* bound: submissions of one form
    NoPost      \* "bind later"

StaffAssumption == MaxTries \in Nat /\ NoPost \notin Posts \cup Forms

VARIABLES
    form,      \* the forms
    account,   \* the server: User rows, with the submission that made them
    bound,     \* the server: the worker of each station
    tasks,     \* the server: WorkerTaskAssignment rows
    cancelled, \* those that are CANCELLED
    late,      \* requests whose page has given up and that are not served yet
    unsure     \* forms that were told of a failure and do not know of what

staffServer == <<account, bound, tasks, cancelled>>
staffVars == <<form, staffServer, late, unsure>>

Controls == {"block", "unblock", "remove", "cancel"}
Kinds == {"hire", "assign"} \cup Controls

(* ask: the request that is under way; left: the tasks still to be asked   *)
(* for.                                                                    *)
Closed == [kind |-> "none", code |-> NoPost, post |-> NoPost, keys |-> {}, left |-> {},
           stage |-> "closed", ask |-> "none", key |-> NoPost, try |-> 0, told |-> FALSE]
NoAccount == [status |-> "none", by |-> NoPost, try |-> 0]
OldAccount == [status |-> "ACTIVE", by |-> NoPost, try |-> 0]

StaffInit ==
    /\ form = [f \in Forms |-> Closed]
    /\ account \in [Codes -> {NoAccount, OldAccount}]
    /\ bound = [p \in Posts |-> NoPost]
    /\ tasks = {} /\ cancelled = {} /\ late = {} /\ unsure = {}

-----------------------------------------------------------------------------
(* The administrator                                                       *)

Exists(c) == account[c].status # "none"

(* "+ Add worker", and the buttons of a row for its worker.                *)
OpenForm(f, kind, c) ==
    /\ form[f].stage = "closed"
    /\ kind # "hire" => Exists(c)
    /\ form' = [form EXCEPT ![f].kind = kind, ![f].code = c, ![f].stage = "open"]
    /\ UNCHANGED <<staffServer, late, unsure>>
CloseForm(f) ==
    /\ form[f].stage = "open"
    /\ form' = [form EXCEPT ![f].stage = "over"]
    /\ UNCHANGED <<staffServer, late, unsure>>

Submitted(f, ask, c, p, keys, left, k) ==
    /\ form[f].stage = "open" /\ form[f].try < MaxTries
    /\ form' = [form EXCEPT ![f].stage = "sent", ![f].ask = ask, ![f].code = c, ![f].post = p,
                            ![f].keys = keys, ![f].left = left, ![f].key = k, ![f].try = @ + 1]
    /\ UNCHANGED <<staffServer, late, unsure>>

(* Every submission takes the fields as they are, and begins with the      *)
(* account.                                                                *)
SubmitHire(f, c, p, keys) ==
    form[f].kind = "hire" /\ Submitted(f, "account", c, p, keys, keys, NoPost)
SubmitAssign(f, k) ==
    form[f].kind = "assign" /\ Submitted(f, "task", form[f].code, NoPost, {k}, {}, k)
SubmitControl(f) ==
    form[f].kind \in Controls /\ Submitted(f, form[f].kind, form[f].code, NoPost, {}, {}, NoPost)

-----------------------------------------------------------------------------
(* The server                                                              *)

RequestOf(f) ==
    [by |-> f, try |-> form[f].try, ask |-> form[f].ask, hires |-> form[f].kind = "hire",
     code |-> form[f].code, post |-> form[f].post, key |-> form[f].key]
TaskOf(q) == [by |-> q.by, try |-> q.try, key |-> q.key, of |-> q.code, hires |-> q.hires]

SetStatus(c, s) == account' = [account EXCEPT ![c].status = s]
OpenTasks(c) == {t \in tasks : t.of = c} \ cancelled

(* Mutant: a worker who is there already is not refused.                   *)
CreateWorkerAgain(q) ==
    /\ q.ask = "account"
    /\ account' = IF Exists(q.code) THEN account
                  ELSE [account EXCEPT ![q.code] = [status |-> "ACTIVE", by |-> q.by, try |-> q.try]]
    /\ UNCHANGED <<bound, tasks, cancelled>>

(* The code is read first and unique in any case.                          *)
CreateWorker(q) ==
    /\ q.ask = "account" /\ ~Exists(q.code)
    /\ account' = [account EXCEPT ![q.code] = [status |-> "ACTIVE", by |-> q.by, try |-> q.try]]
    /\ UNCHANGED <<bound, tasks, cancelled>>
AssignStation(q) ==
    /\ q.ask = "station" /\ account[q.code].status = "ACTIVE"
    /\ bound' = [p \in Posts |-> IF p = q.post THEN q.code ELSE IF bound[p] = q.code THEN NoPost ELSE bound[p]]
    /\ UNCHANGED <<account, tasks, cancelled>>
WorkerTaskCreate(q) ==
    /\ q.ask = "task" /\ account[q.code].status \in {"ACTIVE", "LOCKED"}
    /\ tasks' = tasks \cup {TaskOf(q)}
    /\ UNCHANGED <<account, bound, cancelled>>
BlockWorker(q) ==
    /\ q.ask = "block" /\ account[q.code].status = "ACTIVE"
    /\ SetStatus(q.code, "LOCKED") /\ UNCHANGED <<bound, tasks, cancelled>>
UnblockWorker(q) ==
    /\ q.ask = "unblock" /\ account[q.code].status = "LOCKED"
    /\ SetStatus(q.code, "ACTIVE") /\ UNCHANGED <<bound, tasks, cancelled>>
RemoveWorker(q) ==
    /\ q.ask = "remove" /\ account[q.code].status \in {"ACTIVE", "LOCKED"}
    /\ SetStatus(q.code, "DISABLED")
    /\ cancelled' = cancelled \cup OpenTasks(q.code)
    /\ UNCHANGED <<bound, tasks>>
WorkerTaskCancel(q) ==
    /\ q.ask = "cancel"
    /\ \E t \in OpenTasks(q.code) : cancelled' = cancelled \cup {t}
    /\ UNCHANGED <<account, bound, tasks>>

Handle(q) ==
    \/ CreateWorker(q) \/ AssignStation(q) \/ WorkerTaskCreate(q)
    \/ BlockWorker(q) \/ UnblockWorker(q) \/ RemoveWorker(q) \/ WorkerTaskCancel(q)

ServeForm(f) ==
    /\ form[f].stage = "sent" /\ Handle(RequestOf(f))
    /\ form' = [form EXCEPT ![f].stage = "answered"]
    /\ UNCHANGED <<late, unsure>>
ServeLate(q) ==
    /\ Handle(q) /\ late' = late \ {q}
    /\ UNCHANGED <<form, unsure>>

-----------------------------------------------------------------------------
(* The answers                                                             *)

(* An error is displayed in the form, which can be submitted again; act,   *)
(* of the other dialogs, displays it on the page and they close.           *)
Failing(f) ==
    form' = [form EXCEPT ![f].stage = IF form[f].kind \in Controls THEN "over" ELSE "open"]

(* The server says no: a code that is taken, a status, a permission.       *)
Refuse(f) ==
    /\ form[f].stage = "sent" /\ Failing(f)
    /\ UNCHANGED <<staffServer, late, unsure>>

(* The answer is lost, or the request, which may be served later or never. *)
LoseAnswer(f) ==
    /\ form[f].stage = "answered" /\ Failing(f)
    /\ unsure' = unsure \cup {f}
    /\ UNCHANGED <<staffServer, late>>
LoseRequest(f) ==
    /\ form[f].stage = "sent" /\ Failing(f)
    /\ unsure' = unsure \cup {f}
    /\ late' \in {late, late \cup {RequestOf(f)}}
    /\ UNCHANGED staffServer

(* The next request of the form, or its end.                               *)
AskStation(f) ==
    /\ form[f].ask = "account" /\ form[f].post # NoPost
    /\ form' = [form EXCEPT ![f].stage = "sent", ![f].ask = "station"]
AskTask(f, k) ==
    /\ form[f].ask \in {"account", "station", "task"} /\ k \in form[f].left
    /\ form[f].ask = "account" => form[f].post = NoPost
    /\ form' = [form EXCEPT ![f].stage = "sent", ![f].ask = "task", ![f].key = k, ![f].left = @ \ {k}]
Tell(f) ==
    /\ form[f].left = {}
    /\ form[f].ask = "account" => form[f].post = NoPost
    /\ form' = [form EXCEPT ![f].stage = "over", ![f].told = TRUE]
Answered(f) ==
    /\ form[f].stage = "answered"
    /\ AskStation(f) \/ Tell(f) \/ \E k \in form[f].left : AskTask(f, k)
    /\ UNCHANGED <<staffServer, late, unsure>>

StaffNext ==
    \/ \E f \in Forms :
         \/ \E kind \in Kinds, c \in Codes : OpenForm(f, kind, c)
         \/ \E c \in Codes, p \in Posts \cup {NoPost}, keys \in SUBSET TaskKeys : SubmitHire(f, c, p, keys)
         \/ \E k \in TaskKeys : SubmitAssign(f, k)
         \/ SubmitControl(f) \/ CloseForm(f)
         \/ ServeForm(f) \/ Refuse(f) \/ LoseAnswer(f) \/ LoseRequest(f) \/ Answered(f)
    \/ \E q \in late : ServeLate(q)

-----------------------------------------------------------------------------
(* The tasks of a worker who is hired are those of one form, each once,    *)
(* however often, and from however many pages, the worker is added again   *)
(* after an error; a form that reports success has given all of them.  A   *)
(* task that is assigned is there twice only if its form was told of a     *)
(* failure without knowing whether the task was assigned                   *)
(* (Workers.tsx:417-447, 546-564).                                         *)
TasksAsAsked ==
    /\ \A s, t \in tasks : s.hires /\ t.hires /\ s.of = t.of /\ s.key = t.key => s = t
    /\ \A s, t \in tasks : ~s.hires /\ ~t.hires /\ s.by = t.by => s = t \/ s.by \in unsure
    /\ \A f \in Forms : form[f].kind = "hire" /\ form[f].told =>
          \A k \in form[f].keys : \E t \in tasks : t.hires /\ t.of = form[f].code /\ t.key = k
=============================================================================
