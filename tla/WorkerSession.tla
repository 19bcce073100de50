----------------------------- MODULE WorkerSession -----------------------------
(***************************************************************************)
(* The session of the handheld: the token store, the one transport of the  *)
(* application with its token renewal, sign-in, sign-out and the context   *)
(* of the signed-in worker (SessionStore.kt, WorkerTransport.kt,           *)
(* WorkerRepository.kt, WorkerSessionUseCase.kt, WorkerAppViewModel.kt).   *)
(*                                                                         *)
(* A job is a coroutine of the main thread.  It runs from one suspension   *)
(* to the next without interruption: what the code does after an answer    *)
(* arrived, up to the next request or the end, is one step.  Signing out,  *)
(* or the end of a session, cancels no job.                                *)
(*                                                                         *)
(* A token is the id of its session row on the server (see Access); the    *)
(* requests that load the context are one request.                         *)
(***************************************************************************)
EXTENDS Integers, FiniteSets

CONSTANTS
    Users,
    Ids,        \* bound: sessions the server may open
    Jobs,       \* bound: coroutines alive at once
    MaxKills,   \* bound: times the application's process ends
    Workloads,  \* sets of what happens in one behaviour besides sign-in and polls
    None

ASSUME WorkerAssumption == MaxKills \in Nat /\ None \notin Users \cup Ids

VARIABLES
    store,    \* SessionStorage: the token and the two version counters
    session,  \* the server's session rows
    app,      \* WorkerAppState, with foreground and explicitSignOut
    job,
    outcome,  \* lastOutcome of the transport: "AUTH_ERROR" or another
    synced,   \* the push token is registered, as far as the device knows
    revoked,  \* logins whose sign-out was reported as confirmed
    kills,
    uses      \* the workload

vars == <<store, session, app, job, outcome, synced, revoked, kills, uses>>

Store == [token : Ids \cup {None}, version : Nat, identity : Nat]
Free == [status |-> "none"]
Session == [status : {"live", "ended"}, user : Users, login : Ids]
NoApp == [signedIn |-> FALSE, generation |-> 0, identity |-> None, busy |-> FALSE,
          verified |-> FALSE, me |-> None]
Idle == [at |-> "idle"]
Paths == {"login", "context", "push", "unpush", "logout", "complete", "screen"}
Answers == {"none", "ok", "401", "refused", "lost", "denied"} \cup Ids

(* snap is what the request captured, token the bearer it sends, user the  *)
(* worker who signs in, or whom the answer of the context named, generation *)
(* the sign-in its screen was opened under.                                *)
Job == {Idle} \cup
       [at : {"expired"}, generation : Nat] \cup
       [at : {"sent", "lock", "renewing"}, path : Paths, snap : Store,
        token : Ids \cup {None}, again : BOOLEAN, answer : Answers,
        user : Users \cup {None}, generation : Nat]

TypeOK ==
    /\ store \in Store
    /\ session \in [Ids -> Session \cup {Free}]
    /\ app \in [signedIn : BOOLEAN, generation : Nat, identity : Nat \cup {None},
                busy : BOOLEAN, verified : BOOLEAN, me : Users \cup {None},
                foreground : BOOLEAN, signOut : BOOLEAN, logins : Nat]
    /\ job \in [Jobs -> Job]
    /\ outcome \in {"AUTH_ERROR", "OTHER"}
    /\ synced \in BOOLEAN
    /\ revoked \subseteq Ids
    /\ kills \in 0 .. MaxKills

(* WorkerAppState() of a process; the rest of app are fields of the model. *)
Started(s) == [signedIn |-> s.token # None, generation |-> 0, identity |-> None, busy |-> FALSE,
               verified |-> FALSE, me |-> None, foreground |-> TRUE, signOut |-> FALSE, logins |-> 0]
Wiped(a) == [a EXCEPT !.signedIn = FALSE, !.generation = 0, !.identity = None, !.busy = FALSE,
                      !.verified = FALSE, !.me = None]

Init ==
    /\ store = [token |-> None, version |-> 0, identity |-> 0]
    /\ session = [i \in Ids |-> Free]
    /\ app = Started(store)
    /\ job = [j \in Jobs |-> Idle]
    /\ outcome = "OTHER"
    /\ synced = FALSE
    /\ revoked = {}
    /\ kills = 0
    /\ uses \in Workloads

-------------------------------------------------------------------------------
(* SessionStore                                                            *)

Cleared(s) == [token |-> None, version |-> s.version + 1, identity |-> s.identity + 1]
ClearIfVersion(s, v) == IF s.version = v THEN Cleared(s) ELSE s
ClearIfIdentity(s, i) == IF s.identity = i THEN Cleared(s) ELSE s

(* Mutant: the tokens are replaced whatever happened to the store.         *)
ReplacedAnyhow(s, v, i, new) ==
    [token |-> i, version |-> s.version + 1,
     identity |-> IF new THEN s.identity + 1 ELSE s.identity]

Replaced(s, v, i, new) ==
    IF s.version # v THEN s
    ELSE [token |-> i, version |-> s.version + 1,
          identity |-> IF new THEN s.identity + 1 ELSE s.identity]

Live(i) == i # None /\ session[i].status = "live"
Fresh(i) == session[i] = Free

-------------------------------------------------------------------------------
(* Jobs: what a step leaves behind                                         *)

Request(path, s, u, g) ==
    [at |-> "sent", path |-> path, snap |-> s, token |-> s.token, again |-> FALSE,
     answer |-> "none", user |-> u, generation |-> g]

Expired(g) == [at |-> "expired", generation |-> g]

(* loadContext, and refresh with its guards.                               *)
MayRefresh(s, a) == ~a.busy /\ ~a.signOut /\ s.token # None
Refreshing(a) == [a EXCEPT !.busy = TRUE, !.verified = FALSE]

(* WorkerSessionUseCase.expire: FALSE for the screen of an earlier login.  *)
Expires(s, a) == s.token = None \/ a.identity = None \/ s.identity = a.identity
ExpiredStore(s) == IF s.token = None THEN s ELSE Cleared(s)

(* A step of j that ends with store s, application a and job n.            *)
Leaves(j, s, a, n) == store' = s /\ app' = a /\ job' = [job EXCEPT ![j] = n]

(* WorkerAppViewModel.fail, then the finally of its caller.                *)
Fails(j, s, why) ==
    IF why = "401"
    THEN IF Expires(s, app) THEN Leaves(j, ExpiredStore(s), Wiped(app), Idle)
         ELSE Leaves(j, s, [app EXCEPT !.verified = FALSE, !.busy = FALSE], Idle)
    ELSE Leaves(j, s, [app EXCEPT !.signedIn = s.token # None, !.verified = FALSE,
                                  !.busy = FALSE], Idle)

(* The end of loadContext: the context that was loaded is shown.           *)
Shows(j, s, identity, u) ==
    Leaves(j, s, [app EXCEPT !.signedIn = TRUE, !.me = u, !.identity = identity,
                             !.verified = app.foreground, !.busy = FALSE], Idle)

Signs(a) == [Wiped(a) EXCEPT !.busy = TRUE, !.signOut = TRUE]

(* WorkerRepository.logout once the push token is released: the store is   *)
(* cleared before the request is sent with the token it held.              *)
SendsLogout(j, s, a) ==
    IF s.token = None THEN Leaves(j, Cleared(s), Wiped(a), Idle)
    ELSE Leaves(j, Cleared(s), a, Request("logout", s, None, 0))

(* Mutant: a sign-out is confirmed whatever the server answered.           *)
ConfirmedAnyhow(why) == TRUE

(* WorkerRepository.logout: only a request that succeeded confirms.        *)
Confirmed(why) == why = "ok"

(* What each caller of the transport does with its result.                 *)
Ends(j, s, why) ==
    LET n == job[j] IN
    /\ \/ /\ n.path = "login" /\ why = "ok"
          /\ LET t == Replaced(s, n.snap.version, n.answer, TRUE) IN
               IF t.version = s.version THEN Fails(j, s, "401")
               ELSE Leaves(j, t, [app EXCEPT !.signedIn = TRUE, !.signOut = FALSE,
                                             !.generation = app.logins + 1, !.logins = @ + 1],
                           Request("context", t, None, 0))
       \/ /\ n.path = "context" /\ why = "ok"
          /\ IF n.answer = "denied" THEN Fails(j, ClearIfIdentity(s, n.snap.identity), "401")
             ELSE IF synced THEN Shows(j, s, n.snap.identity, session[n.token].user)
             ELSE Leaves(j, s, app, Request("push", s, session[n.token].user, 0))
       \/ /\ n.path = "complete" /\ why = "ok"
          /\ Leaves(j, s, [app EXCEPT !.busy = FALSE], Idle)
       \/ /\ n.path \in {"login", "context", "complete"} /\ why # "ok"
          /\ Fails(j, s, why)
       \/ /\ n.path = "push"  \* syncAfterLogin swallows every failure
          /\ Shows(j, s, n.snap.identity, n.user)
       \/ /\ n.path = "unpush"
          /\ SendsLogout(j, s, app)
       \/ /\ n.path = "logout"
          /\ Leaves(j, ClearIfIdentity(s, n.snap.identity), Wiped(app), Idle)
       \/ /\ n.path = "screen"
          /\ Leaves(j, s, app, IF why = "401" THEN Expired(n.generation) ELSE Idle)
    /\ synced' = CASE n.path = "push"   -> synced \/ why = "ok"
                   [] n.path = "unpush" -> FALSE
                   [] OTHER             -> synced
    /\ revoked' = IF n.path = "logout" /\ Confirmed(why) THEN revoked \cup {session[n.token].login}
                  ELSE revoked
    /\ outcome' = CASE why = "changed" -> outcome
                    [] why = "401" \/ (n.path = "unpush" /\ s.token = None) -> "AUTH_ERROR"
                    [] OTHER -> "OTHER"
    /\ UNCHANGED <<session, kills>>

-------------------------------------------------------------------------------
(* The worker, the screens and the process                                 *)

Uses(what) == what \in uses

Login(j, u) ==
    /\ job[j].at = "idle" /\ ~app.busy /\ ~app.signedIn
    /\ app' = [app EXCEPT !.busy = TRUE]
    /\ job' = [job EXCEPT ![j] = [Request("login", store, u, 0) EXCEPT !.token = None]]
    /\ UNCHANGED <<store, session, outcome, synced, revoked, kills>>

Refresh(j) ==
    /\ job[j].at = "idle" /\ MayRefresh(store, app)
    /\ Leaves(j, store, Refreshing(app), Request("context", store, None, 0))
    /\ UNCHANGED <<session, outcome, synced, revoked, kills>>

CompleteAssignment(j) ==
    /\ Uses("complete")
    /\ job[j].at = "idle" /\ ~app.busy /\ app.verified /\ store.token # None
    /\ Leaves(j, store, [app EXCEPT !.busy = TRUE], Request("complete", store, None, 0))
    /\ UNCHANGED <<session, outcome, synced, revoked, kills>>

Logout(j) ==
    /\ Uses("logout")
    /\ job[j].at = "idle" /\ ~app.busy /\ app.signedIn
    /\ IF store.token = None
       THEN SendsLogout(j, store, Signs(app)) /\ synced' = FALSE /\ outcome' = "AUTH_ERROR"
       ELSE /\ Leaves(j, store, Signs(app), Request("unpush", store, None, 0))
            /\ UNCHANGED <<synced, outcome>>
    /\ UNCHANGED <<session, revoked, kills>>

(* A station screen, open for the worker that is shown, makes a request.   *)
ScreenCall(j) ==
    /\ Uses("screen")
    /\ job[j].at = "idle" /\ app.signedIn /\ app.me # None
    /\ LET r == Request("screen", store, None, app.generation) IN
         job' = [job EXCEPT ![j] = IF store.token = None THEN Expired(app.generation) ELSE r]
    /\ outcome' = IF store.token = None THEN "AUTH_ERROR" ELSE outcome
    /\ UNCHANGED <<store, session, app, synced, revoked, kills>>

(* expireSession, from the effect of a screen that is still composed.      *)
Expire(j) ==
    IF Expires(store, app) THEN Leaves(j, ExpiredStore(store), Wiped(app), Idle)
    ELSE IF MayRefresh(store, app)
         THEN Leaves(j, store, Refreshing(app), Request("context", store, None, 0))
    ELSE Leaves(j, store, app, Idle)

ScreenExpired(j) ==
    /\ job[j].at = "expired"
    /\ IF app.signedIn /\ app.me # None /\ app.generation = job[j].generation THEN Expire(j)
       ELSE Leaves(j, store, app, Idle)
    /\ UNCHANGED <<session, outcome, synced, revoked, kills>>

(* The collector of the connection state sees AUTH_ERROR once no request   *)
(* is active.                                                              *)
AuthLost ==
    /\ outcome = "AUTH_ERROR" /\ store.token = None
    /\ \A j \in Jobs : job[j].at \in {"idle", "expired"}
    /\ app' = Wiped(app) /\ outcome' = "OTHER"
    /\ UNCHANGED <<store, session, job, synced, revoked, kills>>

Foreground == ~app.foreground /\ app' = [app EXCEPT !.foreground = TRUE]
Background == app.foreground /\ app' = [app EXCEPT !.foreground = FALSE, !.verified = FALSE]
Offline == app.verified /\ app' = [app EXCEPT !.verified = FALSE]

Device ==
    /\ Uses("device")
    /\ Foreground \/ Background \/ Offline
    /\ UNCHANGED <<store, session, job, outcome, synced, revoked, kills>>

(* The process dies: tokens and the push flag are on disk, counters not.   *)
Kill ==
    /\ Uses("kill")
    /\ kills < MaxKills
    /\ kills' = kills + 1
    /\ store' = [token |-> store.token, version |-> 0, identity |-> 0]
    /\ app' = Started(store)
    /\ job' = [j \in Jobs |-> Idle]
    /\ outcome' = "OTHER"
    /\ UNCHANGED <<session, synced, revoked>>

-------------------------------------------------------------------------------
(* The server, and the network                                             *)

Waits(j, at) == job[j].at = at /\ job[j].answer = "none"
Answer(j, a) == job' = [job EXCEPT ![j].answer = a]
OnlyAnswers == UNCHANGED <<store, app, outcome, synced, revoked, kills>>

ServeLogin(j) ==
    /\ Waits(j, "sent") /\ job[j].path = "login"
    /\ \E i \in Ids : Fresh(i)
         /\ session' = [session EXCEPT ![i] = [status |-> "live", user |-> job[j].user, login |-> i]]
         /\ \E a \in {i, "lost"} : Answer(j, a)
    /\ OnlyAnswers

Serve(j) ==
    /\ Waits(j, "sent") /\ job[j].path # "login" /\ Live(job[j].token)
    /\ \/ /\ job[j].path = "logout"
          /\ session' = [session EXCEPT ![job[j].token].status = "ended"]
          /\ \E a \in {"ok", "lost"} : Answer(j, a)
       \/ /\ job[j].path # "logout" /\ UNCHANGED session
          /\ \E a \in IF job[j].path = "context" /\ Uses("admin") THEN {"ok", "denied"} ELSE {"ok"} : Answer(j, a)
    /\ OnlyAnswers

(* A wrong secret, an access token that expired or whose session ended.    *)
ServeUnauthorized(j) ==
    /\ Waits(j, "sent") \/ (Waits(j, "renewing") /\ ~Live(job[j].snap.token))
    /\ Answer(j, "401")
    /\ UNCHANGED session /\ OnlyAnswers

(* auth.service.refresh: the session is consumed and its successor opened. *)
ServeRenewal(j) ==
    /\ Waits(j, "renewing")
    /\ LET old == job[j].snap.token IN
         /\ Live(old)
         /\ \E i \in Ids : Fresh(i)
              /\ session' = [session EXCEPT ![old].status = "ended",
                                            ![i] = [session[old] EXCEPT !.status = "live"]]
              /\ \E a \in {i, "lost"} : Answer(j, a)
    /\ OnlyAnswers

(* Nothing reached the server, or it refused; for a request both end alike. *)
ServeNot(j) ==
    /\ \/ Waits(j, "sent") /\ Answer(j, "lost")
       \/ Waits(j, "renewing") /\ \E a \in {"lost", "refused"} : Answer(j, a)
    /\ UNCHANGED session /\ OnlyAnswers

(* An administrator ends the access of a worker.                           *)
EndAccess(u) ==
    /\ Uses("admin")
    /\ \E i \in Ids : session[i] # Free /\ session[i].user = u /\ Live(i)
    /\ session' = [i \in Ids |-> IF session[i] # Free /\ session[i].user = u
                                 THEN [session[i] EXCEPT !.status = "ended"] ELSE session[i]]
    /\ UNCHANGED <<store, app, job, outcome, synced, revoked, kills>>

-------------------------------------------------------------------------------
(* HttpWorkerTransport.request and refresh                                 *)

Renews(j) == job[j].answer = "401" /\ job[j].path \notin {"login", "logout"} /\ ~job[j].again

Unauthorized(j) ==
    /\ job[j].at = "sent" /\ Renews(j)
    /\ job' = [job EXCEPT ![j].at = "lock"]
    /\ UNCHANGED <<store, session, app, outcome, synced, revoked, kills>>

Again(j, s) ==
    /\ job' = [job EXCEPT ![j] = [@ EXCEPT !.at = "sent", !.snap = s, !.token = s.token,
                                           !.again = TRUE, !.answer = "none"]]
    /\ UNCHANGED <<session, app, outcome, synced, revoked, kills>>

Renew(j) ==
    /\ job[j].at = "lock"
    /\ \A k \in Jobs : job[k].at # "renewing"
    /\ IF store.identity # job[j].snap.identity THEN Ends(j, store, "changed")
       ELSE IF store.version # job[j].snap.version
            THEN IF store.token # None THEN Again(j, store) /\ UNCHANGED store
                 ELSE Ends(j, store, "changed")
       ELSE /\ job' = [job EXCEPT ![j] = [@ EXCEPT !.at = "renewing", !.answer = "none"]]
            /\ UNCHANGED <<store, session, app, outcome, synced, revoked, kills>>

Renewed(j) ==
    /\ job[j].at = "renewing" /\ job[j].answer # "none"
    /\ LET n == job[j] IN
       \/ /\ n.answer \in Ids
          /\ LET t == Replaced(store, n.snap.version, n.answer, FALSE) IN
               IF t.version = store.version THEN Ends(j, store, "changed")
               ELSE Again(j, t) /\ store' = t
       \/ /\ n.answer \in {"lost", "401"}
          /\ IF store.version = n.snap.version THEN Ends(j, Cleared(store), "401")
             ELSE Ends(j, store, "changed")
       \/ /\ n.answer = "refused"
          /\ Ends(j, store, "failed")

Returned(j) ==
    /\ job[j].at = "sent" /\ job[j].answer # "none" /\ ~Renews(j)
    /\ LET n == job[j]  own == n.path \in {"login", "logout"} IN
       IF ~own /\ store.identity # n.snap.identity THEN Ends(j, store, "changed")
       ELSE IF n.answer = "401"
            THEN Ends(j, IF n.path = "login" THEN store ELSE ClearIfVersion(store, n.snap.version), "401")
       ELSE Ends(j, store, IF n.answer = "lost" THEN "failed" ELSE "ok")

-------------------------------------------------------------------------------
Work(j) ==
    \/ \E u \in Users : Login(j, u)
    \/ Refresh(j) \/ CompleteAssignment(j) \/ Logout(j)
    \/ ScreenCall(j) \/ ScreenExpired(j)
    \/ Unauthorized(j) \/ Renew(j) \/ Renewed(j) \/ Returned(j)

Server(j) ==
    ServeLogin(j) \/ Serve(j) \/ ServeUnauthorized(j) \/ ServeRenewal(j) \/ ServeNot(j)

SessionNext ==
    \/ \E j \in Jobs : Work(j) \/ Server(j)
    \/ AuthLost \/ Device \/ Kill
    \/ \E u \in Users : EndAccess(u)

Next == SessionNext /\ UNCHANGED uses

Spec == Init /\ [][Next]_vars

-------------------------------------------------------------------------------
(* Signed out stays signed out: a store without a token gets one only with *)
(* a new identity, never from the renewal of a request of the session that *)
(* ended (replace, SessionStore.kt:63-70).                                 *)
SignedOutStaysOut ==
    [][(store.token = None /\ store'.token # None) => store'.identity > store.identity]_vars

(* A sign-out that was reported as confirmed left nothing behind: no       *)
(* session of that login is live on the server, though the token may have  *)
(* been renewed by another request while the worker signed out.            *)
ConfirmedMeansRevoked == \A i \in Ids : Live(i) => session[i].login \notin revoked

================================================================================
