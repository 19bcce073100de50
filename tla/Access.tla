-------------------------------- MODULE Access --------------------------------
(***************************************************************************)
(* Who may use the system: login, token renewal, the check of every        *)
(* request, and the administration that ends access (auth.service.ts,      *)
(* login-throttle.service.ts, jwt.strategy.ts, devices.service.ts,         *)
(* users.service.ts, Worker Control of operations.service.ts).             *)
(*                                                                         *)
(* Each handler is a sequence of database statements; call[c] is what the  *)
(* handler has read so far and the statement it makes next.  Only refresh  *)
(* is a transaction: between its two writes it holds the lock of the       *)
(* session row, and an UPDATE of many sessions that meets the row waits    *)
(* and does not see the session that the transaction is inserting.         *)
(*                                                                         *)
(* A token is the id of its session: both tokens are signed for one        *)
(* session and the hash of the refresh token never changes.  Which         *)
(* applications the role classes open is abstracted to the set opens[u].   *)
(***************************************************************************)
EXTENDS Integers, FiniteSets

CONSTANTS
    Users,
    Devices,
    Stations,
    Applications,  \* the surfaces in use, of "ADMIN_WEB" and "WORKER_NATIVE"
    Ids,           \* bound: rows of Session
    MaxFailures,   \* failures that lock an identifier, MAX_FAILURES of the throttle
    MaxEras,       \* bound: times the access of a user or a device is ended
    Calls,
    Workloads,     \* sets of handlers that are called in one behaviour
    None

ASSUME AccessAssumption ==
    /\ MaxFailures \in Nat \ {0} /\ MaxEras \in Nat
    /\ Applications \subseteq {"ADMIN_WEB", "WORKER_NATIVE"}
    /\ Users \cap Devices = {} /\ None \notin Users \cup Devices \cup Stations \cup Ids

VARIABLES
    status,    \* User.status
    opens,     \* the applications the roles of a user open
    bucket,    \* the throttle, in memory: failures in the window, locked or not
    device,    \* Device: its status and the worker it is assigned to
    station,   \* Station: its status and the worker it is assigned to
    session,   \* Session
    call,
    era,       \* how often the access of a user or a device was ended
    handlers

accounts == <<status, opens>>
places == <<device, station>>
vars == <<accounts, bucket, places, session, call, era, handlers>>

Idle == [at |-> "idle"]
NoSession == [status |-> "none"]
Subjects == Users \cup Devices
Eras == [user : Nat, device : Nat]

(* root, late, opened and era are not in the row: the login a session      *)
(* comes from, whether its opening overlapped the end of the access, the   *)
(* device it was opened on and how often access had been ended by then.    *)
Session == [status : {"ACTIVE", "REVOKED"}, user : Users, application : Applications,
            device : Devices \cup {None}, station : Stations \cup {None}, expired : BOOLEAN,
            root : Ids, late : BOOLEAN, opened : Devices \cup {None}, era : Eras]

Login(ats, on) == [at : ats, user : Users, application : Applications, device : on, era : Eras]
Call == {Idle}
        \cup Login({"secret", "roles", "station"}, Devices \cup {None})
        \cup Login({"device"}, Devices)
        \cup [at : {"bind"}, user : Users, application : Applications, device : Devices,
              era : Eras, holder : Users \cup {None}]
        \cup [at : {"create"}, user : Users, application : Applications,
              device : Devices \cup {None}, era : Eras, station : Stations \cup {None}]
        \cup [at : {"consume", "rotate"}, id : Ids, device : Devices \cup {None},
              station : Stations \cup {None}, era : Eras]
        \cup [at : {"checkRoles", "checkStation", "kill", "served"}, id : Ids, user : Users,
              deviceOk : BOOLEAN, station : Stations \cup {None}, era : Eras]
        \cup [at : {"write"}, user : Users, to : {"LOCKED", "ACTIVE", "DISABLED"}]
        \cup [at : {"ending", "waiting", "last"}, subject : Subjects, seen : SUBSET Ids,
              then : {"nothing", "assign", "give", "delete"}, to : Users \cup {None}]

TypeOK ==
    /\ status \in [Users -> {"ACTIVE", "LOCKED", "DISABLED"}]
    /\ opens \in [Users -> SUBSET Applications]
    /\ bucket \in [Users -> [fails : 0 .. MaxFailures, locked : BOOLEAN]]
    /\ device \in [Devices -> [status : {"none", "ACTIVE", "DISABLED"}, holder : Users \cup {None}]]
    /\ station \in [Stations -> [status : {"ACTIVE", "OFF"}, worker : Users \cup {None}]]
    /\ session \in [Ids -> Session \cup {NoSession}]
    /\ call \in [Calls -> Call]
    /\ era \in [Subjects -> Nat]

Init ==
    /\ handlers \in Workloads
    /\ status = [u \in Users |-> "ACTIVE"]
    /\ opens = [u \in Users |-> Applications]
    /\ bucket = [u \in Users |-> [fails |-> 0, locked |-> FALSE]]
    /\ device = [d \in Devices |-> [status |-> "ACTIVE", holder |-> None]]
    /\ \E u \in IF "station" \in handlers THEN Users ELSE {None} :
         station = [s \in Stations |-> [status |-> "ACTIVE", worker |-> u]]
    /\ session = [i \in Ids |-> NoSession]
    /\ call = [c \in Calls |-> Idle]
    /\ era = [x \in Subjects |-> 0]

Handles(h) == h \in handlers /\ UNCHANGED handlers
Begins(c) == call[c].at = "idle"
Goes(c, next) == call' = [call EXCEPT ![c] = next]
Refused(c) == Goes(c, Idle)
Continues(c, at) == Goes(c, [call[c] EXCEPT !.at = at])

-------------------------------------------------------------------------------
(* What the checks of jwt.strategy and refresh ask of a session.           *)

Live(i) == session[i].status = "ACTIVE"
Bound(d, u) == device[d].status = "ACTIVE" /\ device[d].holder \in {None, u}
Seated(s, u) == station[s].status = "ACTIVE" /\ station[s].worker = u
ErasOf(u, d) == [user |-> era[u], device |-> IF d = None THEN 0 ELSE era[d]]

(* Mutant: a status that no session has.                                   *)
RevokedAs(ids) == [i \in Ids |-> IF i \in ids /\ Live(i) THEN [session[i] EXCEPT !.status = "ENDED"]
                                 ELSE session[i]]

(* UPDATE ... WHERE status = 'ACTIVE'.                                     *)
Revoked(ids) == [i \in Ids |-> IF i \in ids /\ Live(i) THEN [session[i] EXCEPT !.status = "REVOKED"]
                               ELSE session[i]]

(* The row is locked from the write of refresh to its commit.              *)
Locked(i) == \E c \in Calls : call[c].at = "rotate" /\ call[c].id = i

(* A session inserted now is not found by an ending of x any more.         *)
Missed(x) == \E c \in Calls : call[c].at \in {"waiting", "last"} /\ call[c].subject = x
LateNow(u, d, then) == Missed(u) \/ (d # None /\ Missed(d)) \/ ErasOf(u, d) # then

(* Calls that may still insert a row; a bound keeps one free for each.     *)
Opening(c) == call[c].at \in {"secret", "roles", "device", "bind", "station", "create",
                              "consume", "rotate"}
RoomForOne == Cardinality({c \in Calls : Opening(c)}) < Cardinality({i \in Ids : session[i] = NoSession})

-------------------------------------------------------------------------------
(* POST /auth/login                                                        *)

(* The gate, then the account; an account that is not ACTIVE is refused    *)
(* and does not count as a failure.                                        *)
LoginStart(c, u, a, d) ==
    /\ Handles("login") /\ Begins(c) /\ RoomForOne
    /\ a = "ADMIN_WEB" => d = None /\ "roles" \in handlers
    /\ ~bucket[u].locked
    /\ status[u] = "ACTIVE"
    /\ Goes(c, [at |-> "secret", user |-> u, application |-> a, device |-> d, era |-> ErasOf(u, d)])
    /\ UNCHANGED <<accounts, bucket, places, session, era>>

(* LoginThrottleService.failure: the failure that fills the window locks.  *)
Counted(b) == LET n == IF b.fails < MaxFailures THEN b.fails + 1 ELSE MaxFailures
              IN  [fails |-> n, locked |-> b.locked \/ n = MaxFailures]

WrongSecret(c) ==
    /\ Handles("guess")
    /\ call[c].at = "secret"
    /\ bucket' = [bucket EXCEPT ![call[c].user] = Counted(@)]
    /\ Refused(c)
    /\ UNCHANGED <<accounts, places, session, era>>

RightSecret(c) ==
    /\ call[c].at = "secret"
    /\ bucket' = [bucket EXCEPT ![call[c].user] = [fails |-> 0, locked |-> FALSE]]
    /\ Continues(c, "roles")
    /\ UNCHANGED <<accounts, places, session, era, handlers>>

LoginRoles(c) ==
    /\ call[c].at = "roles"
    /\ IF call[c].application \notin opens[call[c].user] THEN Refused(c)
       ELSE IF call[c].application = "ADMIN_WEB"
            THEN Goes(c, [at |-> "create", user |-> call[c].user, era |-> call[c].era,
                          application |-> call[c].application, device |-> None, station |-> None])
       ELSE Continues(c, IF call[c].device = None THEN "station" ELSE "device")
    /\ UNCHANGED <<accounts, bucket, places, session, era, handlers>>

(* authorizeDeviceForWorker reads the device, then binds it on what it read. *)
LoginDevice(c) ==
    /\ call[c].at = "device"
    /\ LET d == call[c].device  u == call[c].user IN
         IF ~Bound(d, u) THEN Refused(c)
         ELSE Goes(c, [at |-> "bind", user |-> u, application |-> call[c].application, device |-> d,
                       era |-> [call[c].era EXCEPT !.device = era[d]],
                       holder |-> device[d].holder])
    /\ UNCHANGED <<accounts, bucket, places, session, era, handlers>>

LoginBind(c) ==
    /\ call[c].at = "bind"
    /\ LET d == call[c].device IN
         IF device[d].status = "none" THEN Refused(c) /\ UNCHANGED device
         ELSE /\ device' = [device EXCEPT ![d].holder =
                               IF call[c].holder = None THEN call[c].user ELSE call[c].holder]
              /\ Goes(c, [at |-> "station", user |-> call[c].user, device |-> d,
                          application |-> call[c].application, era |-> call[c].era])
    /\ UNCHANGED <<accounts, bucket, station, session, era, handlers>>

(* Exactly one ACTIVE station of the worker is captured on the session.    *)
LoginStation(c) ==
    /\ call[c].at = "station"
    /\ LET mine == {s \in Stations : Seated(s, call[c].user)} IN
         Goes(c, [at |-> "create", user |-> call[c].user, application |-> call[c].application,
                  device |-> call[c].device, era |-> call[c].era,
                  station |-> IF Cardinality(mine) = 1 THEN CHOOSE s \in mine : TRUE ELSE None])
    /\ UNCHANGED <<accounts, bucket, places, session, era, handlers>>

(* The insert fails on the foreign key when the device is gone.            *)
LoginCreate(c) ==
    /\ call[c].at = "create"
    /\ LET d == call[c].device  u == call[c].user IN
         IF d # None /\ device[d].status = "none" THEN UNCHANGED session
         ELSE \E i \in Ids :
                /\ session[i] = NoSession
                /\ session' = [session EXCEPT ![i] =
                      [status |-> "ACTIVE", user |-> u, application |-> call[c].application,
                       device |-> d, station |-> call[c].station, expired |-> FALSE, root |-> i,
                       late |-> LateNow(u, d, call[c].era), opened |-> d, era |-> call[c].era]]
    /\ Refused(c)
    /\ UNCHANGED <<accounts, bucket, places, era, handlers>>

-------------------------------------------------------------------------------
(* POST /auth/refresh: one transaction, reads, the guarded update, insert. *)

RefreshRead(c, i) ==
    /\ Handles("refresh") /\ Begins(c) /\ RoomForOne
    /\ session[i] # NoSession
    /\ LET s == session[i] IN
         /\ Live(i) /\ ~s.expired /\ status[s.user] = "ACTIVE"
         /\ s.application \in opens[s.user]
         /\ s.device # None => Bound(s.device, s.user)
         /\ s.station # None => Seated(s.station, s.user)
         /\ Goes(c, [at |-> "consume", id |-> i, device |-> s.device, station |-> s.station,
                     era |-> ErasOf(s.user, s.device)])
    /\ UNCHANGED <<accounts, bucket, places, session, era>>

(* Mutant: the update of the old session is by its id alone.               *)
RefreshConsumeById(c) ==
    /\ call[c].at = "consume"
    /\ ~Locked(call[c].id)
    /\ Continues(c, "rotate")
    /\ UNCHANGED <<accounts, bucket, places, session, era, handlers>>

(* updateMany with the conditions in its WHERE: it waits for the lock of   *)
(* another renewal and looks at the row again after it.                    *)
RefreshConsume(c) ==
    /\ call[c].at = "consume"
    /\ LET i == call[c].id IN
         /\ ~Locked(i)
         /\ IF Live(i) /\ ~session[i].expired THEN Continues(c, "rotate") ELSE Refused(c)
    /\ UNCHANGED <<accounts, bucket, places, session, era, handlers>>

(* The new row copies what was read; a device that is gone fails the       *)
(* foreign key and rolls the transaction back.                             *)
RefreshCreate(c) ==
    /\ call[c].at = "rotate"
    /\ LET i == call[c].id  d == call[c].device  s == session[call[c].id] IN
         IF d # None /\ device[d].status = "none" THEN UNCHANGED session
         ELSE \E j \in Ids :
                /\ session[j] = NoSession
                /\ session' = [session EXCEPT
                      ![i].status = "REVOKED",
                      ![j] = [s EXCEPT !.status = "ACTIVE", !.device = d, !.station = call[c].station,
                                       !.expired = FALSE,
                                       !.late = @ \/ LateNow(s.user, s.opened, call[c].era)]]
    /\ Refused(c)
    /\ UNCHANGED <<accounts, bucket, places, era, handlers>>

-------------------------------------------------------------------------------
(* A request: JwtStrategy.validate, then the handler it is for.            *)

RequestRead(c, i) ==
    /\ Handles("request") /\ Begins(c)
    /\ session[i] # NoSession
    /\ LET s == session[i] IN
         /\ Live(i) /\ ~s.expired /\ status[s.user] = "ACTIVE"
         /\ Goes(c, [at |-> "checkRoles", id |-> i, user |-> s.user, station |-> s.station,
                     deviceOk |-> s.device = None \/ Bound(s.device, s.user),
                     era |-> ErasOf(s.user, s.opened)])
    /\ UNCHANGED <<accounts, bucket, places, session, era>>

RequestRoles(c) ==
    /\ call[c].at = "checkRoles"
    /\ Continues(c, IF session[call[c].id].application \notin opens[call[c].user] \/ ~call[c].deviceOk
                    THEN "kill"
                    ELSE IF call[c].station = None THEN "served" ELSE "checkStation")
    /\ UNCHANGED <<accounts, bucket, places, session, era, handlers>>

RequestStation(c) ==
    /\ call[c].at = "checkStation"
    /\ Continues(c, IF Seated(call[c].station, call[c].user) THEN "served" ELSE "kill")
    /\ UNCHANGED <<accounts, bucket, places, session, era, handlers>>

RequestKill(c) ==
    /\ call[c].at = "kill"
    /\ ~Locked(call[c].id)
    /\ session' = Revoked({call[c].id})
    /\ Refused(c)
    /\ UNCHANGED <<accounts, bucket, places, era, handlers>>

RequestServed(c) ==
    /\ call[c].at = "served"
    /\ Refused(c)
    /\ UNCHANGED <<accounts, bucket, places, session, era, handlers>>

(* POST /auth/logout and the revocation of one session.                    *)
Logout(i) ==
    /\ Handles("logout")
    /\ ~Locked(i)
    /\ session' = Revoked({i})
    /\ UNCHANGED <<accounts, bucket, places, call, era>>

-------------------------------------------------------------------------------
(* The end of an access: statements that go before, one UPDATE of all      *)
(* ACTIVE sessions of the subject, statements that come after.             *)

Ending(x, then, to) == [at |-> "ending", subject |-> x, seen |-> {}, then |-> then, to |-> to]
Hit(x) == {i \in Ids : session[i] # NoSession /\ Live(i) /\ x \in {session[i].user, session[i].device}}
Ended(x) == era' = [era EXCEPT ![x] = @ + 1]

(* Where nothing comes after the revocation, the access is ended with it.  *)
AfterRevocation(c) ==
    IF call[c].then = "nothing" THEN Refused(c) /\ Ended(call[c].subject)
    ELSE Continues(c, "last") /\ UNCHANGED era

(* Mutant: the sessions are left to expire.                                *)
RevokeNone(c) ==
    /\ call[c].at = "ending"
    /\ AfterRevocation(c)
    /\ UNCHANGED <<accounts, bucket, places, session, handlers>>

RevokeSessions(c) ==
    /\ call[c].at = "ending"
    /\ LET hit == Hit(call[c].subject) IN
         IF \E i \in hit : Locked(i)
         THEN /\ Goes(c, [call[c] EXCEPT !.at = "waiting", !.seen = hit])
              /\ UNCHANGED <<session, era>>
         ELSE /\ session' = Revoked(hit)
              /\ AfterRevocation(c)
    /\ UNCHANGED <<accounts, bucket, places, handlers>>

RevokeWaited(c) ==
    /\ call[c].at = "waiting"
    /\ \A i \in call[c].seen : ~Locked(i)
    /\ session' = Revoked(call[c].seen)
    /\ AfterRevocation(c)
    /\ UNCHANGED <<accounts, bucket, places, handlers>>

(* DELETE of a device sets the column of its sessions to null; it waits    *)
(* for the row of a session that is being renewed.                         *)
Uses(i, d) == session[i] # NoSession /\ session[i].device = d
EndingLast(c) ==
    /\ call[c].at = "last"
    /\ call[c].then = "delete" => ~\E i \in Ids : Uses(i, call[c].subject) /\ Locked(i)
    /\ LET d == call[c].subject IN
         IF device[d].status = "none" THEN UNCHANGED <<device, session, era>>
         ELSE IF call[c].then \in {"assign", "give"}
              THEN /\ device' = [device EXCEPT ![d].holder = call[c].to]
                   /\ IF call[c].then = "assign" THEN Ended(d) ELSE UNCHANGED era
                   /\ UNCHANGED session
         ELSE /\ device' = [device EXCEPT ![d] = [status |-> "none", holder |-> None]]
              /\ session' = [i \in Ids |-> IF Uses(i, d) THEN [session[i] EXCEPT !.device = None]
                                           ELSE session[i]]
              /\ Ended(d)
    /\ Refused(c)
    /\ UNCHANGED <<accounts, bucket, station, handlers>>

(* A deletion that waits for the row of a renewal, which in turn waits for *)
(* the device to insert its session: the database aborts one of the two.   *)
Deadlocked(c, e) ==
    /\ call[c].at = "rotate"
    /\ call[e].at = "last" /\ call[e].then = "delete" /\ call[e].subject = call[c].device
    /\ Uses(call[c].id, call[c].device)
    /\ \E loser \in {c, e} : Refused(loser)
    /\ UNCHANGED <<accounts, bucket, places, session, era, handlers>>

-------------------------------------------------------------------------------
(* Users: PATCH and DELETE of users.service, and Worker Control.           *)

Disable(c, u) ==
    /\ Handles("user") /\ Begins(c) /\ era[u] < MaxEras
    /\ status' = [status EXCEPT ![u] = "DISABLED"]
    /\ Goes(c, Ending(u, "nothing", None))
    /\ UNCHANGED <<opens, bucket, places, session, era>>

Enable(u) ==
    /\ Handles("user")
    /\ status[u] # "ACTIVE"
    /\ status' = [status EXCEPT ![u] = "ACTIVE"]
    /\ UNCHANGED <<opens, bucket, places, session, call, era>>

(* Worker Control reads the status, then writes.                           *)
BlockRead(c, u) ==
    /\ Handles("control") /\ Begins(c) /\ era[u] < MaxEras
    /\ status[u] = "ACTIVE"
    /\ Goes(c, [at |-> "write", user |-> u, to |-> "LOCKED"])
    /\ UNCHANGED <<accounts, bucket, places, session, era>>

UnblockRead(c, u) ==
    /\ Handles("control") /\ Begins(c)
    /\ status[u] = "LOCKED"
    /\ Goes(c, [at |-> "write", user |-> u, to |-> "ACTIVE"])
    /\ UNCHANGED <<accounts, bucket, places, session, era>>

RemoveRead(c, u) ==
    /\ Handles("control") /\ Begins(c) /\ era[u] < MaxEras
    /\ status[u] # "DISABLED"
    /\ Goes(c, [at |-> "write", user |-> u, to |-> "DISABLED"])
    /\ UNCHANGED <<accounts, bucket, places, session, era>>

ControlWrite(c) ==
    /\ call[c].at = "write"
    /\ status' = [status EXCEPT ![call[c].user] = call[c].to]
    /\ IF call[c].to = "ACTIVE" THEN Refused(c) ELSE Goes(c, Ending(call[c].user, "nothing", None))
    /\ UNCHANGED <<opens, bucket, places, session, era, handlers>>

(* assignRoles, one transaction; no session is touched.                    *)
AssignRoles(u, apps) ==
    /\ Handles("roles")
    /\ opens' = [opens EXCEPT ![u] = apps]
    /\ UNCHANGED <<status, bucket, places, session, call, era>>

(* Sign out everywhere: the same UPDATE for the user, nothing before it.   *)
RevokeAll(c, u) ==
    /\ Handles("logout") /\ Begins(c) /\ era[u] < MaxEras
    /\ Goes(c, Ending(u, "nothing", None))
    /\ UNCHANGED <<accounts, bucket, places, session, era>>

-------------------------------------------------------------------------------
(* Devices and stations                                                    *)

DisableDevice(c, d) ==
    /\ Handles("device") /\ Begins(c) /\ era[d] < MaxEras
    /\ device[d].status # "none"
    /\ device' = [device EXCEPT ![d].status = "DISABLED"]
    /\ Goes(c, Ending(d, "nothing", None))
    /\ UNCHANGED <<accounts, bucket, station, session, era>>

EnableDevice(d) ==
    /\ Handles("device")
    /\ device[d].status = "DISABLED"
    /\ device' = [device EXCEPT ![d].status = "ACTIVE"]
    /\ UNCHANGED <<accounts, bucket, station, session, call, era>>

(* The sessions of a previous holder are revoked before the assignment is  *)
(* written; without a previous holder, nothing is revoked.                 *)
AssignDevice(c, d, u) ==
    /\ Handles("assign") /\ Begins(c) /\ era[d] < MaxEras
    /\ device[d].status # "none"
    /\ Goes(c, IF device[d].holder \in {None, u}
               THEN [Ending(d, "give", u) EXCEPT !.at = "last"]
               ELSE Ending(d, "assign", u))
    /\ UNCHANGED <<accounts, bucket, places, session, era>>

RemoveDevice(c, d) ==
    /\ Handles("device") /\ Begins(c) /\ era[d] < MaxEras
    /\ device[d].status # "none"
    /\ Goes(c, Ending(d, "delete", None))
    /\ UNCHANGED <<accounts, bucket, places, session, era>>

SetStation(s, to) ==
    /\ Handles("station")
    /\ to.status # station[s].status \/ (to.worker # station[s].worker
                                         /\ to.worker # None => status[to.worker] = "ACTIVE")
    /\ station' = [station EXCEPT ![s] = to]
    /\ UNCHANGED <<accounts, bucket, device, session, call, era>>

-------------------------------------------------------------------------------
(* Time, and the process                                                   *)

(* LOCK_MS is shorter than WINDOW_MS: the failures outlive the lock.       *)
LockExpires(u) ==
    /\ bucket[u].locked
    /\ bucket' = [bucket EXCEPT ![u].locked = FALSE]
    /\ UNCHANGED <<accounts, places, session, call, era, handlers>>

WindowPasses(u) ==
    /\ bucket[u].fails > 0 /\ ~bucket[u].locked
    /\ bucket' = [bucket EXCEPT ![u].fails = 0]
    /\ UNCHANGED <<accounts, places, session, call, era, handlers>>

SessionExpires(i) ==
    /\ Handles("expiry")
    /\ session[i] # NoSession /\ ~session[i].expired
    /\ session' = [session EXCEPT ![i].expired = TRUE]
    /\ UNCHANGED <<accounts, bucket, places, call, era>>

(* Calls in flight end where they are, a transaction is rolled back, and   *)
(* the throttle forgets.                                                   *)
Restart ==
    /\ Handles("restart")
    /\ call' = [c \in Calls |-> Idle]
    /\ bucket' = [u \in Users |-> [fails |-> 0, locked |-> FALSE]]
    /\ UNCHANGED <<accounts, places, session, era>>

-------------------------------------------------------------------------------
LoginStep(c) ==
    \/ \E u \in Users, a \in Applications, d \in Devices \cup {None} : LoginStart(c, u, a, d)
    \/ WrongSecret(c) \/ RightSecret(c) \/ LoginRoles(c) \/ LoginDevice(c) \/ LoginBind(c)
    \/ LoginStation(c) \/ LoginCreate(c)
TokenStep(c) ==
    \/ \E i \in Ids : RefreshRead(c, i) \/ RequestRead(c, i)
    \/ RefreshConsume(c) \/ RefreshCreate(c)
    \/ RequestRoles(c) \/ RequestStation(c) \/ RequestKill(c) \/ RequestServed(c)
EndingStep(c) ==
    \/ RevokeSessions(c) \/ RevokeWaited(c) \/ EndingLast(c) \/ ControlWrite(c)
    \/ \E u \in Users : Disable(c, u) \/ BlockRead(c, u) \/ UnblockRead(c, u) \/ RemoveRead(c, u)
                        \/ RevokeAll(c, u)
    \/ \E d \in Devices : DisableDevice(c, d) \/ RemoveDevice(c, d)
    \/ \E d \in Devices, u \in Users \cup {None} : AssignDevice(c, d, u)
Outside ==
    \/ \E i \in Ids : Logout(i) \/ SessionExpires(i)
    \/ \E u \in Users : Enable(u) \/ LockExpires(u) \/ WindowPasses(u)
    \/ \E u \in Users, apps \in SUBSET Applications : AssignRoles(u, apps)
    \/ \E d \in Devices : EnableDevice(d)
    \/ \E s \in Stations, st \in {"ACTIVE", "OFF"}, u \in Users \cup {None} :
         SetStation(s, [status |-> st, worker |-> u])
    \/ Restart

Next ==
    \/ Outside
    \/ \E c \in Calls : LoginStep(c) \/ TokenStep(c) \/ EndingStep(c)
    \/ \E c, e \in Calls : Deadlocked(c, e)
Spec == Init /\ [][Next]_vars

-------------------------------------------------------------------------------
(* Properties                                                              *)

(* However often a token is presented, copied or retried, one login has at *)
(* most one session that is alive: a renewal consumes what it renews       *)
(* (auth.service.ts:248, "Concurrent rotation has one winner").            *)
OneLivePerLogin ==
    \A i, j \in Ids :
        (/\ session[i] # NoSession /\ session[j] # NoSession
         /\ Live(i) /\ Live(j) /\ session[i].root = session[j].root) => i = j

(* An access that was ended (account blocked, disabled or removed, device  *)
(* disabled, removed or given to another worker) never works again by the  *)
(* old sign-in: after the call has answered, a request is served only on a *)
(* session whose sign-in came after it, even when the account or device    *)
(* was allowed again.  The exception is a login or a renewal that was      *)
(* under way at the end (users.service.ts:115, devices.service.ts:137).    *)
EndedStaysEnded ==
    \A c \in Calls : call[c].at = "served" =>
        LET s == session[call[c].id] IN s.late \/ s.era = call[c].era

(* Claim of operations.service.ts:1945, "REMOVE ... (permanent)": Worker   *)
(* Control never brings a removed account back.  It does not hold: a block *)
(* that read ACTIVE, or an unblock that read LOCKED, writes over it.       *)
RemovedIsPermanent ==
    [][\A u \in Users : (status[u] = "DISABLED" /\ "user" \notin handlers)
                        => status'[u] = "DISABLED"]_vars

(* Claim of jwt.strategy.ts:94, a session bound to a device that is gone   *)
(* "is revoked immediately".  It does not hold: the session of a login     *)
(* that overlaps the removal is inserted after the revocation, and the     *)
(* deletion sets its device to null.                                       *)
GoneDeviceEnds ==
    \A i \in Ids : (session[i] # NoSession /\ session[i].opened # None)
                   => session[i].device = session[i].opened \/ ~Live(i)
===============================================================================
