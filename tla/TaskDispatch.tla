----------------------------- MODULE TaskDispatch -----------------------------
(***************************************************************************)
(* The tasks of the workers: assignments/assignments.service.ts,           *)
(* assignments/dispatch.service.ts, the task registry, and the users and   *)
(* stations that decide who is eligible.                                   *)
(*                                                                         *)
(* A job is a task key with the entity it is about: receive this arrival,  *)
(* pack this bin.  The workflow services finish a job, complete the tasks  *)
(* of the worker who did it and dispatch the job that follows.  Staging    *)
(* and card intake dispatch inside their transaction, all others after the *)
(* commit, in a call that may be stopped in between.  call[r] keeps what a *)
(* call has read until it writes.                                          *)
(*                                                                         *)
(* COMPLETED stands for COMPLETED_WITH_DISCREPANCY too.  The load of the   *)
(* workers, by which dispatch chooses among the eligible ones, is left     *)
(* open.                                                                   *)
(***************************************************************************)
EXTENDS Integers, FiniteSets

CONSTANTS
    Workers,
    Roles,      \* the task keys whose permission a worker has
    Stations,
    Place,      \* the department of each station
    Jobs,
    Key,        \* the task key of each job
    Following,  \* the job that follows on an arrival and on a tote, or None
    Parcels,    \* the shipments that can be made of a bin, one by each packing
    MaxTasks,   \* bound: rows of WorkerTaskAssignment
    Calls,      \* handler calls that run at the same time
    Workloads,  \* sets of handlers and task keys that occur in one behaviour
    None

(* task-registry.ts: the department of a task key, and the shared keys.    *)
Department ==
    [receiving |-> "RECEIVING", container |-> "RECEIVING", sorting |-> "SORTING",
     putaway |-> "PUTAWAY", packing |-> "PACKING", shipping |-> "DISPATCH"]
Keys == DOMAIN Department
Shared == {"receiving", "container"}

(* What follows on a job: the tote of an arrival, in which there may be    *)
(* articles of another arrival too, and the sorting of a tote.             *)
Follows == {<<"receiving", "container">>, <<"container", "sorting">>}

(* Jobs of no task key are plain instructions of an administrator.         *)
DispatchAssumption ==
    /\ Key \in [Jobs -> Keys \cup {"instruction"}]
    /\ Roles \in [Workers -> SUBSET Keys]
    /\ Place \in [Stations -> {Department[k] : k \in Keys}]
    /\ Following \in [Jobs -> Jobs \cup {None}]
    /\ \A j \in Jobs : Following[j] # None => <<Key[j], Key[Following[j]]>> \in Follows
    /\ \A i, j \in Jobs :
          Following[i] = Following[j] /\ Following[j] # None /\ Key[j] # "receiving" => i = j
    /\ Parcels \in [Jobs -> SUBSET Jobs]
    /\ \A b \in Jobs, n \in Jobs :
          n \in Parcels[b] => /\ Key[b] = "packing" /\ Key[n] = "shipping"
                             /\ \A c \in Jobs : n \in Parcels[c] => c = b
    /\ MaxTasks \in Nat
    /\ IsFiniteSet(Calls)
    /\ None \notin Workers \cup Jobs \cup Stations

VARIABLES
    user,     \* status of each worker's account
    station,  \* Station: status and assignedWorker
    task,     \* WorkerTaskAssignment
    work,     \* the state of the entity each job is about
    call,     \* the handler calls in flight
    handlers  \* the handlers that are called, the task keys there is work of

vars == <<user, station, task, work, call, handlers>>

Tasks == 1 .. MaxTasks
NoRow == [status |-> "none"]
Idle == [at |-> "idle"]
Open == {"ASSIGNED", "IN_PROGRESS"}
Live == Open \cup {"BLOCKED"}
Closed == {"COMPLETED", "CANCELLED"}

Task == [status : Live \cup Closed, worker : Workers, job : Jobs, auto : BOOLEAN,
         station : Stations \cup {None}]
Station == [status : {"ACTIVE", "DISABLED"}, worker : Workers \cup {None}]
Call == {Idle}
        \cup [at : {"create"}, worker : Workers, job : Jobs, station : Stations \cup {None}]
        \cup [at : {"cancel", "block", "unblock"}, task : Tasks]
        \cup [at : {"assign"}, station : Stations, worker : Workers]
        \cup [at : {"finish"}, job : Jobs, worker : Workers]
        \cup [at : {"stage"}, job : Jobs, next : Workers \cup {None}]
        \cup [at : {"card", "insert"}, job : Jobs, next : Workers \cup {None}]
        \cup [at : {"totes", "dispatch", "fill", "reopen"}, job : Jobs]

TypeOK ==
    /\ user \in [Workers -> {"ACTIVE", "DISABLED"}]
    /\ station \in [Stations -> Station]
    /\ task \in [Tasks -> Task \cup {NoRow}]
    /\ work \in [Jobs -> {"later", "open", "done"}]
    /\ call \in [Calls -> Call]
    /\ handlers \in Workloads

Init ==
    /\ user = [w \in Workers |-> "ACTIVE"]
    /\ station = [s \in Stations |-> [status |-> "ACTIVE", worker |-> None]]
    /\ task = [t \in Tasks |-> NoRow]
    /\ work = [j \in Jobs |-> "later"]
    /\ call = [r \in Calls |-> Idle]
    /\ handlers \in Workloads

-----------------------------------------------------------------------------
Receives(r, handler) == call[r] = Idle /\ handler \in handlers
Works(r, j) == Receives(r, Key[j])
At(r, at) == call[r].at = at
Goto(r, c) == call' = [call EXCEPT ![r] = c] /\ UNCHANGED handlers
Return(r) == Goto(r, Idle)

Rows(j) == {t \in Tasks : task[t] # NoRow /\ task[t].job = j}
LiveRows(j) == {t \in Rows(j) : task[t].status \in Live}
OpenRows(j) == {t \in Rows(j) : task[t].status \in Open}
OwnOpen(j, w) == {t \in OpenRows(j) : task[t].worker = w}
Free == {t \in Tasks : task[t] = NoRow}

(* A new row for the worker; the rows get their numbers in the order of    *)
(* their creation.  Only an administrator names a station.                 *)
InsertedAt(rows, w, j, auto, s) ==
    IF w = None THEN rows
    ELSE [t \in Tasks |->
             IF t \in Free /\ \A u \in Free : t <= u
             THEN [status |-> "ASSIGNED", worker |-> w, job |-> j, auto |-> auto, station |-> s]
             ELSE rows[t]]
Inserted(rows, w, j) == InsertedAt(rows, w, j, TRUE, None)
Completed(rows) ==
    [t \in Tasks |-> IF t \in rows THEN [task[t] EXCEPT !.status = "COMPLETED"] ELSE task[t]]

(* eligibleWorkers: active, permitted, and if they stand at active         *)
(* stations, one of them is of the department.                             *)
StationsOf(w) == {s \in Stations : station[s].status = "ACTIVE" /\ station[s].worker = w}
Eligible(j) ==
    {w \in Workers :
        /\ user[w] = "ACTIVE"
        /\ Key[j] \in Roles[w]
        /\ StationsOf(w) = {}
           \/ \E s \in StationsOf(w) : Place[s] = Department[Key[j]]}

(* dispatch: an open or blocked task of the job exists already.            *)
Existing(j) == LiveRows(j) # {}

(* Whom dispatch chooses: nobody if the job has its task, or no worker is  *)
(* eligible.                                                               *)
Choices(j) == IF Existing(j) \/ Eligible(j) = {} THEN {None} ELSE Eligible(j)

-----------------------------------------------------------------------------
(* assignments.create by an administrator, who may name any job: whether   *)
(* it has a task, or is done, is not looked at.  Bound: a station is named *)
(* only where stations change, and there one task is given.                *)
Create(r, w, j, s) ==
    /\ Receives(r, "create") /\ Key[j] \in handlers
    /\ user[w] # "DISABLED"
    /\ IF "stations" \in handlers
       THEN Free = Tasks /\ \A k \in Calls : call[k] = Idle
       ELSE s = None
    /\ Goto(r, [at |-> "create", worker |-> w, job |-> j, station |-> s])
    /\ UNCHANGED <<user, station, task, work>>

WriteCreate(r) ==
    /\ At(r, "create")
    /\ Free # {}
    /\ task' = InsertedAt(task, call[r].worker, call[r].job, FALSE, call[r].station)
    /\ Return(r)
    /\ UNCHANGED <<user, station, work>>

(* Mutant: a completed task may be cancelled.                              *)
CancellableCompleted(t) == task[t].status \in Live \cup {"COMPLETED"}

(* cancel accepts a task that is not closed.                               *)
Cancellable(t) == task[t].status \in Live

(* cancel and setBlocked read the status and update without asking again.  *)
Cancel(r, t) ==
    /\ Receives(r, "cancel")
    /\ Cancellable(t)
    /\ Goto(r, [at |-> "cancel", task |-> t])
    /\ UNCHANGED <<user, station, task, work>>

SetBlocked(r, t) ==
    /\ Receives(r, "block")
    /\ \/ /\ task[t].status \in Open
          /\ Goto(r, [at |-> "block", task |-> t])
       \/ /\ task[t].status = "BLOCKED"
          /\ Goto(r, [at |-> "unblock", task |-> t])
    /\ UNCHANGED <<user, station, task, work>>

WriteStatus(r) ==
    /\ \/ At(r, "cancel") /\ task' = [task EXCEPT ![call[r].task].status = "CANCELLED"]
       \/ At(r, "block") /\ task' = [task EXCEPT ![call[r].task].status = "BLOCKED"]
       \/ At(r, "unblock") /\ task' = [task EXCEPT ![call[r].task].status = "ASSIGNED"]
    /\ Return(r)
    /\ UNCHANGED <<user, station, work>>

(* completeAssignment: the worker closes a plain instruction, one guarded  *)
(* statement.                                                              *)
CompleteAssignment(t) ==
    /\ "complete" \in handlers
    /\ task[t] # NoRow /\ Key[task[t].job] = "instruction"
    /\ task[t].status \in Open
    /\ task' = [task EXCEPT ![t].status = "COMPLETED"]
    /\ UNCHANGED <<user, station, work, call, handlers>>

-----------------------------------------------------------------------------
(* The intake of a card: the arrival and its task are committed together.  *)
CardArrives(r, j) ==
    /\ Works(r, j)
    /\ Key[j] = "receiving" /\ work[j] = "later"
    /\ \E w \in Choices(j) : Goto(r, [at |-> "card", job |-> j, next |-> w])
    /\ UNCHANGED <<user, station, task, work>>

WriteCard(r) ==
    LET c == call[r] IN
    /\ At(r, "card")
    /\ work[c.job] = "later"
    /\ Free # {} \/ c.next = None
    /\ work' = [work EXCEPT ![c.job] = "open"]
    /\ task' = Inserted(task, c.next, c.job)
    /\ Return(r)
    /\ UNCHANGED <<user, station>>

(* The transaction that finishes a job holds the row of its entity.        *)
Held(j) == \E r \in Calls : At(r, "finish") /\ call[r].job = j

(* orderSortingAssign reads the bin, which must be open; what its order    *)
(* still needs is left open.                                               *)
FillBin(r, j) ==
    /\ Works(r, j)
    /\ Key[j] = "packing" /\ work[j] = "later"
    /\ Goto(r, [at |-> "fill", job |-> j])
    /\ UNCHANGED <<user, station, task, work>>

(* Its transaction: if the order is complete, the bin that was open when   *)
(* it was read is locked - whatever another call has made of it since,     *)
(* locked or packed - and after the commit it is dispatched.               *)
WriteFill(r) ==
    LET j == call[r].job IN
    /\ At(r, "fill")
    /\ \/ Return(r) /\ UNCHANGED work
       \/ /\ ~Held(j)
          /\ work' = [work EXCEPT ![j] = "open"]
          /\ Goto(r, [at |-> "dispatch", job |-> j])
    /\ UNCHANGED <<user, station, task>>

(* corrections.reopenCustomerBin: a locked bin is open again, whatever it  *)
(* is by the time of the update.  No task is looked at.                    *)
ReopenBin(r, j) ==
    /\ Receives(r, "reopen") /\ Key[j] \in handlers
    /\ Key[j] = "packing" /\ work[j] = "open"
    /\ Goto(r, [at |-> "reopen", job |-> j])
    /\ UNCHANGED <<user, station, task, work>>

WriteReopen(r) ==
    /\ At(r, "reopen")
    /\ ~Held(call[r].job)
    /\ work' = [work EXCEPT ![call[r].job] = "later"]
    /\ Return(r)
    /\ UNCHANGED <<user, station, task>>

(* A carton is received, and can be put away: nothing is dispatched.       *)
CartonReceived(j) ==
    /\ Key[j] \in handlers
    /\ Key[j] = "putaway" /\ work[j] = "later"
    /\ work' = [work EXCEPT ![j] = "open"]
    /\ UNCHANGED <<user, station, task, call, handlers>>

(* A tote is closed when it is full, or by hand, while its arrival is      *)
(* still being received or after: no task is looked at.                    *)
CloseContainer(j) ==
    /\ Key[j] \in handlers
    /\ Key[j] = "container" /\ work[j] = "later"
    /\ work' = [work EXCEPT ![j] = "open"]
    /\ UNCHANGED <<user, station, task, call, handlers>>

(* dispatch after the commit: the existing task, the eligible workers and  *)
(* their load are read, then the task is inserted.                         *)
Dispatch(r) ==
    /\ At(r, "dispatch")
    /\ \E w \in Choices(call[r].job) :
          IF w = None THEN Return(r)
          ELSE Goto(r, [at |-> "insert", job |-> call[r].job, next |-> w])
    /\ UNCHANGED <<user, station, task, work>>

WriteDispatch(r) ==
    /\ At(r, "insert")
    /\ Free # {}
    /\ task' = Inserted(task, call[r].next, call[r].job)
    /\ Return(r)
    /\ UNCHANGED <<user, station, work>>

(* receivingStarted: the worker's own task of the arrival.                 *)
StartReceiving(w, j) ==
    /\ Key[j] \in handlers
    /\ Key[j] = "receiving" /\ work[j] = "open"
    /\ task' = [t \in Tasks |->
                   IF t \in OwnOpen(j, w) THEN [task[t] EXCEPT !.status = "IN_PROGRESS"]
                   ELSE task[t]]
    /\ UNCHANGED <<user, station, work, call, handlers>>

(* receivingCompleted, cartonStored, containerPacked, outboundShipped: the *)
(* tasks of the worker who did it.                                         *)
CompletedBy(j, w) == OwnOpen(j, w)

(* A staged tote may be sorted.                                            *)
Opens(j) == Following[j] # None /\ Key[j] = "container"
DoneAndOpened(j, k) ==
    [work EXCEPT ![j] = "done", ![k] = IF @ = "later" THEN "open" ELSE @]
Done(j) == IF Opens(j) THEN DoneAndOpened(j, Following[j]) ELSE [work EXCEPT ![j] = "done"]

(* Mutant: the shipment is left to the administrator.                      *)
DispatchNothing(r, n) == Return(r)

(* After the commit the shipment is dispatched.                            *)
DispatchNext(r, n) == Goto(r, [at |-> "dispatch", job |-> n])

(* receiving.complete: anyone who may receive closes the session.          *)
CompleteReceiving(r, w, j) ==
    /\ Works(r, j)
    /\ Key[j] = "receiving" /\ work[j] = "open"
    /\ "receiving" \in Roles[w]
    /\ work' = Done(j)
    /\ task' = Completed(CompletedBy(j, w))
    /\ Goto(r, [at |-> "totes", job |-> j])
    /\ UNCHANGED <<user, station>>

(* Mutant: a tote is dispatched whether it is staged or not.               *)
FindsAll(j) == j # None

(* After the commit the totes of the session are read, and those that are  *)
(* not staged are dispatched.                                              *)
Finds(j) == j # None /\ work[j] # "done"
FindTotes(r) ==
    LET next == Following[call[r].job] IN
    /\ At(r, "totes")
    /\ IF Finds(next) THEN Goto(r, [at |-> "dispatch", job |-> next]) ELSE Return(r)
    /\ UNCHANGED <<user, station, task, work>>

(* assertOperationalAccess: shared work is for everybody who is permitted; *)
(* other work that has tasks is for the owner of an open one, who must     *)
(* stand at the station it names.                                          *)
AtItsStation(t) ==
    LET s == task[t].station IN
    s # None => station[s].status = "ACTIVE" /\ station[s].worker = task[t].worker
MayWork(w, j) ==
    \/ Key[j] \in Shared
    \/ {t \in Rows(j) : task[t].status # "CANCELLED"} = {}
    \/ \E t \in OwnOpen(j, w) : AtItsStation(t)

(* pack and ship hold the row of their entity while they check and write;  *)
(* the placement of a carton, also of one that is stowed already, does not.*)
Spare(j) == {n \in Parcels[j] : work[n] = "later"}
Begin(r, w, j) ==
    /\ Works(r, j)
    /\ Key[j] \in {"packing", "shipping", "putaway"} \cap Roles[w]
    /\ IF Key[j] = "putaway" THEN work[j] # "later" ELSE work[j] = "open" /\ ~Held(j)
    /\ Key[j] = "packing" => Spare(j) # {}
    /\ MayWork(w, j)
    /\ Goto(r, [at |-> "finish", job |-> j, worker |-> w])
    /\ UNCHANGED <<user, station, task, work>>

(* Every packing makes a shipment of its own.                              *)
Pack(r) ==
    LET c == call[r] IN
    /\ At(r, "finish") /\ Key[c.job] = "packing"
    /\ \E n \in Spare(c.job) :
          work' = DoneAndOpened(c.job, n) /\ DispatchNext(r, n)
    /\ task' = Completed(CompletedBy(c.job, c.worker))
    /\ UNCHANGED <<user, station>>

(* A shipment leaves, and its bin is closed, whatever it is by then; a     *)
(* carton is stowed.                                                       *)
Finish(r) ==
    LET c == call[r]
        over == {j \in Jobs : j = c.job \/ c.job \in Parcels[j]}
    IN
    /\ At(r, "finish") /\ Key[c.job] # "packing"
    /\ \A j \in over : j # c.job => ~Held(j)
    /\ work' = [j \in Jobs |-> IF j \in over THEN "done" ELSE work[j]]
    /\ task' = Completed(CompletedBy(c.job, c.worker))
    /\ Return(r)
    /\ UNCHANGED <<user, station>>

(* A closed tote that has not been staged.                                 *)
Stageable(j) == Key[j] = "container" /\ work[j] = "open"

(* stageContainer: the placement tasks of the tote are completed, whoever  *)
(* has them, and its sorting is dispatched in the same transaction.        *)
Stage(r, j) ==
    /\ Works(r, j)
    /\ Stageable(j)
    /\ \E w \in Choices(Following[j]) :
          Goto(r, [at |-> "stage", job |-> j, next |-> w])
    /\ UNCHANGED <<user, station, task, work>>

WriteStage(r) ==
    LET c == call[r] IN
    /\ At(r, "stage")
    /\ Free # {} \/ c.next = None
    /\ work' = Done(c.job)
    /\ task' = Inserted(Completed(OpenRows(c.job)), c.next, Following[c.job])
    /\ Return(r)
    /\ UNCHANGED <<user, station>>

(* The last article of a tote is stored: no task is looked at.             *)
Sort(j) ==
    /\ Key[j] \in handlers
    /\ Key[j] = "sorting" /\ work[j] = "open"
    /\ work' = Done(j)
    /\ UNCHANGED <<user, station, task, call, handlers>>

-----------------------------------------------------------------------------
(* stations.assign releases the other stations of the worker, then takes   *)
(* this one: two statements.                                               *)
AssignStation(r, s, w) ==
    /\ Receives(r, "stations")
    /\ user[w] = "ACTIVE"
    /\ station' = [x \in Stations |->
                      IF x # s /\ station[x].worker = w
                      THEN [station[x] EXCEPT !.worker = None] ELSE station[x]]
    /\ Goto(r, [at |-> "assign", station |-> s, worker |-> w])
    /\ UNCHANGED <<user, task, work>>

WriteAssignStation(r) ==
    /\ At(r, "assign")
    /\ station' = [station EXCEPT ![call[r].station].worker = call[r].worker]
    /\ Return(r)
    /\ UNCHANGED <<user, task, work>>

(* assign without a worker, setStatus and update, a statement each.        *)
ChangeStation(s) ==
    /\ "stations" \in handlers
    /\ \/ station' = [station EXCEPT ![s].worker = None]
       \/ \E status \in {"ACTIVE", "DISABLED"} :
             station' = [station EXCEPT ![s].status = status]
    /\ UNCHANGED <<user, task, work, call, handlers>>

(* users.update and users.remove: the account only, no task, no station.   *)
SetUserStatus(w, status) ==
    /\ "users" \in handlers
    /\ user' = [user EXCEPT ![w] = status]
    /\ UNCHANGED <<station, task, work, call, handlers>>

(* A failed statement or a stopped process.                                *)
Abort(r) ==
    /\ "fail" \in handlers
    /\ call[r] # Idle
    /\ Return(r)
    /\ UNCHANGED <<user, station, task, work>>

-----------------------------------------------------------------------------
Continue(r) ==
    \/ WriteCreate(r) \/ WriteStatus(r) \/ WriteCard(r) \/ Dispatch(r) \/ WriteDispatch(r)
    \/ FindTotes(r) \/ WriteFill(r) \/ WriteReopen(r) \/ Pack(r) \/ Finish(r)
    \/ WriteStage(r) \/ WriteAssignStation(r)

Next ==
    \/ \E r \in Calls :
          \/ Continue(r) \/ Abort(r)
          \/ \E j \in Jobs :
                CardArrives(r, j) \/ FillBin(r, j) \/ ReopenBin(r, j) \/ Stage(r, j)
          \/ \E j \in Jobs, w \in Workers :
                \/ CompleteReceiving(r, w, j) \/ Begin(r, w, j)
                \/ \E s \in Stations \cup {None} : Create(r, w, j, s)
          \/ \E t \in Tasks : Cancel(r, t) \/ SetBlocked(r, t)
          \/ \E s \in Stations, w \in Workers : AssignStation(r, s, w)
    \/ \E j \in Jobs : CartonReceived(j) \/ CloseContainer(j) \/ Sort(j)
    \/ \E j \in Jobs, w \in Workers : StartReceiving(w, j)
    \/ \E t \in Tasks : CompleteAssignment(t)
    \/ \E s \in Stations : ChangeStation(s)
    \/ \E w \in Workers, status \in {"ACTIVE", "DISABLED"} : SetUserStatus(w, status)

Spec == Init /\ [][Next]_vars

(* A call whose next database operation is possible makes it, or fails.    *)
Fairness == \A r \in Calls : WF_vars(Continue(r) \/ Abort(r))

-----------------------------------------------------------------------------
(* Calls that have found no task of a job and are about to insert one.     *)
Inserts(r, j) ==
    /\ call[r].at \in {"card", "insert", "stage"}
    /\ call[r].next # None
    /\ j = IF At(r, "stage") THEN Following[call[r].job] ELSE call[r].job
AutoRows(j) == {t \in Rows(j) : task[t].auto}

Dispatches(r, j) == Inserts(r, j) \/ (At(r, "dispatch") /\ call[r].job = j)

(* Nobody but an administrator makes a task that is not needed.  While a   *)
(* job has a task that is open or blocked, it gets another only from a     *)
(* dispatch that saw none.  And a job that stays done gets a task only     *)
(* from a dispatch that was already under way: a packed bin, only once it  *)
(* is locked again.                                                        *)
NoNeedlessTask ==
    [][\A j \in Jobs :
          /\ (LiveRows(j) # {} /\ ~\E r \in Calls : Inserts(r, j)) =>
                /\ AutoRows(j)' = AutoRows(j)
                /\ ~\E r \in Calls : Inserts(r, j)'
          /\ (work[j] = "done" /\ work'[j] = "done" /\ ~\E r \in Calls : Dispatches(r, j)) =>
                /\ AutoRows(j)' = AutoRows(j)
                /\ ~\E r \in Calls : Dispatches(r, j)']_vars

(* "When X is completed, the backend automatically creates the next        *)
(* required operational task": when no call fails and the floor keeps its  *)
(* workers, work that becomes possible - a bin that is locked again, too - *)
(* is given a task that somebody still has to do, or done meanwhile; a     *)
(* closed tote, once its arrival is received.                              *)
WorkIsOffered ==
    handlers \subseteq Keys =>
        \A j \in {j \in Jobs : Key[j] \in {"container", "sorting", "packing", "shipping"}} :
            (work[j] = "open" /\ \A i \in Jobs : Following[i] = j => work[i] = "done")
                ~> (LiveRows(j) # {} \/ work[j] # "open")

-----------------------------------------------------------------------------
(* Claims of the source that its interleavings do not keep.                *)

(* "One open assignment per (taskKey + entity): replays never duplicate"   *)
(* (dispatch.service.ts, rule 5).                                          *)
OneOpenTask ==
    \A j \in Jobs : \A t, u \in LiveRows(j) : task[t].auto /\ task[u].auto => t = u

(* "A worker may hold at most one station at a time": the floor view never *)
(* shows one person at two positions.                                      *)
OneStation ==
    \A s, x \in Stations :
        station[s].worker = station[x].worker => s = x \/ station[s].worker = None
=============================================================================
