---------------------------- MODULE HandheldProofs ----------------------------
(***************************************************************************)
(* Theorems about the handheld (WorkerSession and, on top of it,           *)
(* WorkerLanes), for every number of workers, sessions, coroutines, scans, *)
(* batches and lost answers.                                               *)
(***************************************************************************)
EXTENDS WorkerLanes, FiniteSetTheorems, TLAPS

-------------------------------------------------------------------------------
(* The session: what every step but the end of the process does to the     *)
(* store.  A token appears only under a new identity.                      *)
Evolves(s, t) ==
    /\ t \in Store
    /\ \/ t = s
       \/ /\ t.version > s.version
          /\ \/ t.identity > s.identity
             \/ t.identity = s.identity /\ s.token # None /\ t.token # None

Flying == {"sent", "lock", "renewing"}
Own == {"login", "logout"}
JobFields == {"at", "path", "snap", "token", "again", "answer", "user", "generation"}

(* What a request captured is not newer than the store, and as long as the *)
(* identity is the one it captured, somebody is signed in.                 *)
SnapStands(n, s) ==
    /\ n.snap \in Store
    /\ n.snap.version <= s.version /\ n.snap.identity <= s.identity
    /\ n.snap.version = s.version => n.snap.identity = s.identity
    /\ n.snap.identity = s.identity => s.token # None

JobStands(n, s) ==
    /\ n.at \in {"idle", "expired"} \cup Flying
    /\ n.at \in Flying => DOMAIN n = JobFields
    /\ n.at \in {"lock", "renewing"} => n.path \notin Own
    /\ n.at \in Flying /\ n.path \notin Own => SnapStands(n, s)
    /\ n.at \in Flying /\ n.path = "login" => n.answer \in {"none", "lost", "401"} \cup Ids

SessionInv ==
    /\ store \in Store
    /\ DOMAIN job = Jobs
    /\ \A j \in Jobs : JobStands(job[j], store)

LEMMA EvolvesOn ==
    ASSUME NEW s \in Store, NEW t, NEW u, Evolves(s, t), Evolves(t, u)
    PROVE  Evolves(s, u)
  BY DEF Evolves, Store

LEMMA SnapEvolves ==
    ASSUME NEW s \in Store, NEW t, Evolves(s, t), NEW n, JobStands(n, s)
    PROVE  JobStands(n, t)
  <1>1. ASSUME SnapStands(n, s) PROVE SnapStands(n, t)
    BY <1>1 DEF SnapStands, Evolves, Store
  <1> QED
    BY <1>1 DEF JobStands

LEMMA StoreSteps ==
    ASSUME NEW s \in Store
    PROVE  /\ Evolves(s, s)
           /\ Evolves(s, Cleared(s)) /\ Evolves(s, ExpiredStore(s))
           /\ \A v : Evolves(s, ClearIfVersion(s, v)) /\ Evolves(s, ClearIfIdentity(s, v))
  BY DEF Evolves, Cleared, ExpiredStore, ClearIfVersion, ClearIfIdentity, Store

LEMMA ReplaceSteps ==
    ASSUME NEW s \in Store, NEW v, NEW i \in Ids, NEW new \in BOOLEAN,
           new \/ (s.version = v => s.token # None)
    PROVE  /\ Evolves(s, Replaced(s, v, i, new))
           /\ Replaced(s, v, i, new).version # s.version =>
                 Replaced(s, v, i, new).token # None
  BY WorkerAssumption DEF Evolves, Replaced, Store

LEMMA RequestStands ==
    ASSUME NEW path \in Paths, NEW s \in Store, NEW t, Evolves(s, t), NEW u, NEW g,
           path \notin Own => s.token # None /\ t = s
    PROVE  JobStands(Request(path, s, u, g), t)
  <1>1. DOMAIN Request(path, s, u, g) = JobFields
    BY DEF Request, JobFields
  <1>2. Request(path, s, u, g).at = "sent" /\ Request(path, s, u, g).path = path
        /\ Request(path, s, u, g).snap = s /\ Request(path, s, u, g).answer = "none"
    BY DEF Request
  <1> QED
    BY <1>1, <1>2 DEF JobStands, SnapStands, Flying, Own, Store

LEMMA IdleStands ==
    ASSUME NEW s, NEW g
    PROVE  JobStands(Idle, s) /\ JobStands(Expired(g), s)
  BY DEF JobStands, Idle, Expired, Flying

(* One coroutine ends where Leaves says, the others stand.                 *)
LEMMA JobGoes ==
    ASSUME SessionInv, NEW j \in Jobs, NEW n,
           job' = [job EXCEPT ![j] = n], Evolves(store, store'), JobStands(n, store')
    PROVE  SessionInv'
  <1>1. \A k \in Jobs : JobStands(job[k], store')
    BY SnapEvolves DEF SessionInv
  <1>2. DOMAIN job' = Jobs /\ job'[j] = n /\ \A k \in Jobs : k # j => job'[k] = job[k]
    BY DEF SessionInv
  <1>3. \A k \in Jobs : JobStands(job'[k], store')
    BY <1>1, <1>2
  <1> QED
    BY <1>2, <1>3 DEF SessionInv, Evolves

(* The result of a request that may end well, with the store s of then.    *)
MayEnd(n, s, why) ==
    /\ n.at \in Flying
    /\ n.path = "login" /\ why = "ok" => n.answer \in Ids
    /\ n.path = "context" /\ why = "ok" => s.token # None

LEMMA FailsStands ==
    ASSUME SessionInv, NEW j \in Jobs, NEW s, Evolves(store, s), NEW why, Fails(j, s, why)
    PROVE  SessionInv' /\ Evolves(store, store')
  <1>1. s \in Store /\ store \in Store
    BY DEF SessionInv, Evolves
  <1>2. store' \in {s, ExpiredStore(s)} /\ job' = [job EXCEPT ![j] = Idle]
    BY DEF Fails, Leaves
  <1>3. Evolves(store, store')
    BY <1>1, <1>2, StoreSteps, EvolvesOn
  <1> QED
    BY <1>2, <1>3, IdleStands, JobGoes

LEMMA LogoutStands ==
    ASSUME SessionInv, NEW j \in Jobs, NEW s, Evolves(store, s), NEW a, SendsLogout(j, s, a)
    PROVE  SessionInv' /\ Evolves(store, store')
  <1>1. s \in Store /\ store \in Store
    BY DEF SessionInv, Evolves
  <1>2. store' = Cleared(s)
        /\ \/ job' = [job EXCEPT ![j] = Idle]
           \/ job' = [job EXCEPT ![j] = Request("logout", s, None, 0)]
    BY DEF SendsLogout, Leaves
  <1>3. Evolves(s, store') /\ Evolves(store, store')
    BY <1>1, <1>2, StoreSteps, EvolvesOn
  <1>4. JobStands(Request("logout", s, None, 0), store')
    BY <1>1, <1>3, RequestStands DEF Paths, Own
  <1> QED
    BY <1>2, <1>3, <1>4, IdleStands, JobGoes

LEMMA EndStands ==
    ASSUME SessionInv, NEW j \in Jobs, NEW s, Evolves(store, s), NEW why,
           MayEnd(job[j], s, why), Ends(j, s, why)
    PROVE  SessionInv' /\ Evolves(store, store')
  <1> DEFINE n == job[j]
             t == Replaced(s, n.snap.version, n.answer, TRUE)
  <1>1. s \in Store /\ store \in Store
    BY DEF SessionInv, Evolves
  <1>2. CASE n.path = "login" /\ why = "ok"
    <2>1. n.answer \in Ids
      BY <1>2 DEF MayEnd
    <2>2. Evolves(s, t) /\ (t.version # s.version => t.token # None)
      BY <1>1, <2>1, ReplaceSteps
    <2>3. CASE t.version = s.version
      <3>1. Fails(j, s, "401")
        BY <1>2, <2>3 DEF Ends
      <3> QED
        BY <3>1, FailsStands
    <2>4. CASE t.version # s.version
      <3>1. store' = t /\ job' = [job EXCEPT ![j] = Request("context", t, None, 0)]
        BY <1>2, <2>4 DEF Ends, Leaves
      <3>2. t \in Store /\ Evolves(t, t) /\ Evolves(store, t)
        BY <1>1, <2>2, StoreSteps, EvolvesOn DEF Evolves
      <3>3. JobStands(Request("context", t, None, 0), t)
        BY <2>2, <2>4, <3>2, RequestStands DEF Paths
      <3> QED
        BY <3>1, <3>2, <3>3, JobGoes
    <2> QED
      BY <2>3, <2>4
  <1>3. CASE n.path = "context" /\ why = "ok"
    <2>1. CASE Fails(j, ClearIfIdentity(s, n.snap.identity), "401")
      BY <1>1, <2>1, StoreSteps, EvolvesOn, FailsStands
    <2>2. CASE Shows(j, s, n.snap.identity, session[n.token].user)
      BY <2>2, IdleStands, JobGoes DEF Shows, Leaves
    <2>3. CASE Leaves(j, s, app, Request("push", s, session[n.token].user, 0))
      <3>1. JobStands(Request("push", s, session[n.token].user, 0), s)
        BY <1>1, <1>3, StoreSteps, RequestStands DEF Paths, MayEnd
      <3> QED
        BY <2>3, <3>1, JobGoes DEF Leaves
    <2> QED
      BY <1>3, <2>1, <2>2, <2>3 DEF Ends
  <1>4. CASE n.path = "logout"
    <2>1. store' = ClearIfIdentity(s, n.snap.identity) /\ job' = [job EXCEPT ![j] = Idle]
      BY <1>4 DEF Ends, Leaves
    <2>2. Evolves(s, store')
      BY <1>1, <2>1, StoreSteps
    <2>3. Evolves(store, store')
      BY <1>1, <2>2, EvolvesOn
    <2> QED
      BY <2>1, <2>3, IdleStands, JobGoes
  <1>5. CASE n.path \in {"login", "context", "complete"} /\ why # "ok"
    BY <1>5, FailsStands DEF Ends
  <1>6. CASE n.path = "unpush"
    <2>1. SendsLogout(j, s, app)
      BY <1>6 DEF Ends
    <2> QED
      BY <2>1, LogoutStands
  <1>7. CASE n.path \in {"complete", "push", "screen"} /\ (n.path = "complete" => why = "ok")
    <2>1. store' = s /\ (job' = [job EXCEPT ![j] = Idle]
                           \/ job' = [job EXCEPT ![j] = Expired(n.generation)])
      BY <1>7 DEF Ends, Leaves, Shows
    <2> QED
      BY <2>1, IdleStands, JobGoes
  <1>8. n.path \in Paths
    BY DEF Ends, Paths
  <1> QED
    BY <1>2, <1>3, <1>4, <1>5, <1>6, <1>7, <1>8 DEF Paths

(* A request that goes on: it keeps what it captured, and its answer fits. *)
LEMMA GoesOnStands ==
    ASSUME SessionInv, NEW j \in Jobs, UNCHANGED store, NEW n,
           job' = [job EXCEPT ![j] = n], job[j].at \in Flying, n.at \in Flying,
           DOMAIN n = JobFields, n.path = job[j].path, n.snap = job[j].snap,
           n.at \in {"lock", "renewing"} => n.path \notin Own,
           n.path = "login" => n.answer \in {"none", "lost", "401"} \cup Ids
    PROVE  SessionInv' /\ Evolves(store, store')
  <1>1. JobStands(job[j], store) /\ Evolves(store, store')
    BY StoreSteps DEF SessionInv
  <1>2. JobStands(n, store')
    BY <1>1 DEF JobStands, SnapStands
  <1> QED
    BY <1>1, <1>2, JobGoes

LEMMA ReplyStands ==
    ASSUME SessionInv, NEW j \in Jobs, NEW a, job[j].at \in Flying, OnlyAnswers, Answer(j, a),
           job[j].path = "login" => a \in {"none", "lost", "401"} \cup Ids
    PROVE  SessionInv' /\ Evolves(store, store')
  <1> DEFINE n == [job[j] EXCEPT !.answer = a]
  <1>1. JobStands(job[j], store) /\ DOMAIN job = Jobs
    BY DEF SessionInv
  <1>2. DOMAIN job[j] = JobFields
    BY <1>1 DEF JobStands
  <1>3. DOMAIN n = JobFields /\ n.at = job[j].at /\ n.path = job[j].path
        /\ n.snap = job[j].snap /\ n.answer = a
    BY <1>2 DEF JobFields
  <1>4. job' = [job EXCEPT ![j] = n] /\ UNCHANGED store
    BY DEF Answer, OnlyAnswers
  <1>5. n.at \in {"lock", "renewing"} => n.path \notin Own
    BY <1>1, <1>3 DEF JobStands
  <1> HIDE DEF n
  <1> QED
    BY <1>3, <1>4, <1>5, GoesOnStands

(* The other steps of the session.                                         *)
LEMMA BeginStands ==
    ASSUME SessionInv, NEW j \in Jobs,
           (\E u \in Users : Login(j, u)) \/ Refresh(j) \/ CompleteAssignment(j) \/ Logout(j)
           \/ ScreenCall(j) \/ ScreenExpired(j)
    PROVE  SessionInv' /\ Evolves(store, store')
  <1>1. store \in Store /\ Evolves(store, store)
    BY StoreSteps DEF SessionInv
  <1>2. ASSUME NEW u \in Users, Login(j, u) PROVE SessionInv' /\ Evolves(store, store')
    <2> DEFINE n == [Request("login", store, u, 0) EXCEPT !.token = None]
    <2>1. store' = store /\ job' = [job EXCEPT ![j] = n]
      BY <1>2 DEF Login
    <2>2. DOMAIN n = JobFields /\ n.at = "sent" /\ n.path = "login" /\ n.answer = "none"
      BY DEF Request, JobFields
    <2>3. JobStands(n, store)
      BY <2>2 DEF JobStands, Flying, Own
    <2> HIDE DEF n
    <2> QED
      BY <1>1, <2>1, <2>3, JobGoes
  <1>3. ASSUME NEW path \in Paths \ Own, NEW a, store.token # None,
               Leaves(j, store, a, Request(path, store, None, 0))
               \/ (UNCHANGED store
                   /\ job' = [job EXCEPT ![j] = Request(path, store, None, app.generation)])
        PROVE  SessionInv' /\ Evolves(store, store')
    <2>1. PICK g : store' = store /\ job' = [job EXCEPT ![j] = Request(path, store, None, g)]
      BY <1>3 DEF Leaves
    <2>2. JobStands(Request(path, store, None, g), store)
      BY <1>1, <1>3, RequestStands
    <2> QED
      BY <1>1, <2>1, <2>2, JobGoes
  <1>4. ASSUME Refresh(j) PROVE SessionInv' /\ Evolves(store, store')
    BY <1>3, <1>4 DEF Refresh, MayRefresh, Paths, Own
  <1>5. ASSUME CompleteAssignment(j) PROVE SessionInv' /\ Evolves(store, store')
    BY <1>3, <1>5 DEF CompleteAssignment, Paths, Own
  <1>6. ASSUME Logout(j) PROVE SessionInv' /\ Evolves(store, store')
    <2>1. CASE store.token = None
      BY <1>1, <1>6, <2>1, LogoutStands DEF Logout
    <2>2. CASE store.token # None
      BY <1>3, <1>6, <2>2 DEF Logout, Paths, Own
    <2> QED
      BY <2>1, <2>2
  <1>7. ASSUME ScreenCall(j) PROVE SessionInv' /\ Evolves(store, store')
    <2>1. CASE store.token = None
      <3>1. store' = store /\ job' = [job EXCEPT ![j] = Expired(app.generation)]
        BY <1>7, <2>1 DEF ScreenCall
      <3> QED
        BY <1>1, <3>1, IdleStands, JobGoes
    <2>2. CASE store.token # None
      <3>1. UNCHANGED store
            /\ job' = [job EXCEPT ![j] = Request("screen", store, None, app.generation)]
        BY <1>7, <2>2 DEF ScreenCall
      <3> QED
        BY <1>3, <2>2, <3>1 DEF Paths, Own
    <2> QED
      BY <2>1, <2>2
  <1>8. ASSUME ScreenExpired(j) PROVE SessionInv' /\ Evolves(store, store')
    <2>1. ASSUME NEW s, NEW a, s \in {store, ExpiredStore(store)}, Leaves(j, s, a, Idle)
          PROVE  SessionInv' /\ Evolves(store, store')
      <3>1. Evolves(store, s)
        BY <1>1, <2>1, StoreSteps
      <3> QED
        BY <2>1, <3>1, IdleStands, JobGoes DEF Leaves
    <2>2. ASSUME Expire(j) PROVE SessionInv' /\ Evolves(store, store')
      BY <1>3, <2>1, <2>2 DEF Expire, MayRefresh, Paths, Own
    <2> QED
      BY <1>8, <2>1, <2>2 DEF ScreenExpired
  <1> QED
    BY <1>2, <1>4, <1>5, <1>6, <1>7, <1>8

LEMMA ServeStands ==
    ASSUME SessionInv, NEW j \in Jobs, Server(j)
    PROVE  SessionInv' /\ Evolves(store, store')
  <1>1. JobStands(job[j], store)
    BY DEF SessionInv
  <1>2. PICK a : /\ OnlyAnswers /\ Answer(j, a) /\ job[j].at \in Flying
                 /\ job[j].path = "login" => a \in {"none", "lost", "401"} \cup Ids
    <2>1. CASE ServeLogin(j)
      BY <2>1 DEF ServeLogin, Waits, Flying
    <2>2. CASE Serve(j)
      BY <2>2 DEF Serve, Waits, Flying
    <2>3. CASE ServeUnauthorized(j)
      BY <2>3 DEF ServeUnauthorized, Waits, Flying
    <2>4. CASE ServeRenewal(j)
      BY <1>1, <2>4 DEF ServeRenewal, Waits, Flying, JobStands, Own
    <2>5. CASE ServeNot(j)
      BY <1>1, <2>5 DEF ServeNot, Waits, Flying, JobStands, Own
    <2> QED
      BY <2>1, <2>2, <2>3, <2>4, <2>5 DEF Server
  <1> QED
    BY <1>2, ReplyStands

LEMMA AgainStands ==
    ASSUME SessionInv, NEW j \in Jobs, NEW s, Evolves(store, s), s.token # None,
           job[j].at \in Flying, job[j].path \notin Own, Again(j, s), store' = s
    PROVE  SessionInv' /\ Evolves(store, store')
  <1> DEFINE n == [job[j] EXCEPT !.at = "sent", !.snap = s, !.token = s.token,
                                 !.again = TRUE, !.answer = "none"]
  <1>1. DOMAIN job[j] = JobFields
    BY DEF SessionInv, JobStands
  <1>2. DOMAIN n = JobFields /\ n.at = "sent" /\ n.path = job[j].path /\ n.snap = s
        /\ n.answer = "none"
    BY <1>1 DEF JobFields
  <1>3. s \in Store
    BY DEF Evolves
  <1>4. JobStands(n, s)
    BY <1>2, <1>3 DEF JobStands, SnapStands, Flying, Own, Store
  <1>5. job' = [job EXCEPT ![j] = n]
    BY DEF Again
  <1> HIDE DEF n
  <1> QED
    BY <1>4, <1>5, JobGoes

LEMMA TransportStands ==
    ASSUME SessionInv, NEW j \in Jobs,
           Unauthorized(j) \/ Renew(j) \/ Renewed(j) \/ Returned(j)
    PROVE  SessionInv' /\ Evolves(store, store')
  <1> DEFINE n == job[j]
  <1>1. JobStands(n, store) /\ store \in Store /\ Evolves(store, store)
    BY StoreSteps DEF SessionInv
  <1>2. ASSUME NEW s, Evolves(store, s), NEW why, why # "ok", n.at \in Flying, Ends(j, s, why)
        PROVE  SessionInv' /\ Evolves(store, store')
    BY <1>2, EndStands DEF MayEnd
  <1>3. CASE Unauthorized(j)
    <2> DEFINE m == [n EXCEPT !.at = "lock"]
    <2>1. n.at \in Flying /\ n.path \notin Own /\ UNCHANGED store
      BY <1>3 DEF Unauthorized, Renews, Flying, Own
    <2>2. DOMAIN m = JobFields /\ m.at = "lock" /\ m.path = n.path /\ m.snap = n.snap
      BY <1>1, <2>1 DEF JobStands, JobFields
    <2>3. job' = [job EXCEPT ![j] = m]
      BY <1>3 DEF Unauthorized
    <2> HIDE DEF m
    <2> QED
      BY <2>1, <2>2, <2>3, GoesOnStands DEF Flying, Own
  <1>4. CASE Renew(j)
    <2>1. n.at = "lock" /\ n.at \in Flying /\ n.path \notin Own
      BY <1>1, <1>4 DEF Renew, JobStands, Flying
    <2>2. CASE Ends(j, store, "changed")
      BY <1>1, <1>2, <2>1, <2>2
    <2>3. CASE Again(j, store) /\ UNCHANGED store /\ store.token # None
      BY <1>1, <2>1, <2>3, AgainStands
    <2>4. CASE job' = [job EXCEPT ![j] = [@ EXCEPT !.at = "renewing", !.answer = "none"]]
               /\ UNCHANGED store
      <3> DEFINE m == [n EXCEPT !.at = "renewing", !.answer = "none"]
      <3>1. DOMAIN m = JobFields /\ m.at = "renewing" /\ m.path = n.path /\ m.snap = n.snap
        BY <1>1, <2>1 DEF JobStands, JobFields
      <3>2. job' = [job EXCEPT ![j] = m]
        BY <2>4
      <3> HIDE DEF m
      <3> QED
        BY <2>1, <2>4, <3>1, <3>2, GoesOnStands DEF Flying, Own
    <2> QED
      BY <1>4, <2>2, <2>3, <2>4 DEF Renew
  <1>5. CASE Renewed(j)
    <2>1. n.at \in Flying /\ n.path \notin Own /\ SnapStands(n, store)
      BY <1>1, <1>5 DEF Renewed, JobStands, Flying
    <2>2. CASE n.answer \in Ids
      <3> DEFINE t == Replaced(store, n.snap.version, n.answer, FALSE)
      <3>1. Evolves(store, t) /\ (t.version # store.version => t.token # None)
        BY <1>1, <2>1, <2>2, ReplaceSteps DEF SnapStands
      <3>2. CASE Ends(j, store, "changed")
        BY <1>1, <1>2, <2>1, <3>2
      <3>3. CASE t.version # store.version /\ Again(j, t) /\ store' = t
        <4> HIDE DEF t
        <4> QED
          BY <2>1, <3>1, <3>3, AgainStands
      <3>4. CASE ~(n.answer \in Ids
                   /\ IF t.version = store.version THEN Ends(j, store, "changed")
                      ELSE Again(j, t) /\ store' = t)
        <4>1. \/ /\ n.answer \in {"lost", "401"}
                 /\ IF store.version = n.snap.version THEN Ends(j, Cleared(store), "401")
                    ELSE Ends(j, store, "changed")
              \/ n.answer = "refused" /\ Ends(j, store, "failed")
          BY <1>5, <3>4 DEF Renewed
        <4>2. Evolves(store, Cleared(store))
          BY <1>1, StoreSteps
        <4> QED
          BY <1>1, <1>2, <2>1, <4>1, <4>2
      <3> QED
        BY <2>2, <3>2, <3>3, <3>4
    <2>3. CASE n.answer \notin Ids
      <3>1. \/ /\ n.answer \in {"lost", "401"}
               /\ IF store.version = n.snap.version THEN Ends(j, Cleared(store), "401")
                  ELSE Ends(j, store, "changed")
            \/ n.answer = "refused" /\ Ends(j, store, "failed")
        BY <1>5, <2>3 DEF Renewed
      <3>2. Evolves(store, Cleared(store))
        BY <1>1, StoreSteps
      <3> QED
        BY <1>1, <1>2, <2>1, <3>1, <3>2
    <2> QED
      BY <2>2, <2>3
  <1>6. CASE Returned(j)
    <2>1. n.at = "sent" /\ n.at \in Flying
      BY <1>6 DEF Returned, Flying
    <2>2. CASE Ends(j, store, "changed")
      BY <1>1, <1>2, <2>1, <2>2
    <2>3. CASE Ends(j, IF n.path = "login" THEN store
                       ELSE ClearIfVersion(store, n.snap.version), "401")
      <3>1. Evolves(store, IF n.path = "login" THEN store
                           ELSE ClearIfVersion(store, n.snap.version))
        BY <1>1, StoreSteps
      <3> QED
        BY <1>2, <2>1, <2>3, <3>1
    <2>4. CASE Ends(j, store, "failed")
      BY <1>1, <1>2, <2>1, <2>4
    <2>5. CASE /\ Ends(j, store, "ok") /\ n.answer \notin {"none", "lost", "401"}
               /\ n.path \in Own \/ store.identity = n.snap.identity
      <3>1. MayEnd(n, store, "ok")
        BY <1>1, <2>1, <2>5 DEF MayEnd, JobStands, SnapStands, Flying, Own
      <3> QED
        BY <1>1, <2>5, <3>1, EndStands
    <2> QED
      BY <1>6, <2>2, <2>3, <2>4, <2>5 DEF Returned, Own
  <1> QED
    BY <1>3, <1>4, <1>5, <1>6

(* A step of the session is one of these, or the application dies: then    *)
(* the token stays what it is, and no coroutine is left.                   *)
LEMMA SessionSteps ==
    ASSUME SessionInv, Next
    PROVE  SessionInv' /\ (Evolves(store, store') \/ store'.token = store.token)
  <1>1. ASSUME NEW j \in Jobs, Work(j)
        PROVE  SessionInv' /\ Evolves(store, store')
    BY <1>1, BeginStands, TransportStands DEF Work
  <1>2. ASSUME NEW j \in Jobs, Server(j)
        PROVE  SessionInv' /\ Evolves(store, store')
    BY <1>2, ServeStands
  <1>3. ASSUME AuthLost \/ Device \/ \E u \in Users : EndAccess(u)
        PROVE  SessionInv' /\ store' = store
    <2>1. UNCHANGED <<store, job>>
      BY <1>3 DEF AuthLost, Device, EndAccess
    <2> QED
      BY <2>1 DEF SessionInv
  <1>4. ASSUME Kill PROVE SessionInv' /\ store'.token = store.token
    <2>1. store' = [token |-> store.token, version |-> 0, identity |-> 0]
          /\ job' = [k \in Jobs |-> Idle]
      BY <1>4 DEF Kill
    <2>2. store' \in Store
      BY <2>1 DEF SessionInv, Store
    <2> QED
      BY <2>1, <2>2, IdleStands DEF SessionInv
  <1> QED
    BY <1>1, <1>2, <1>3, <1>4 DEF Next, SessionNext

-------------------------------------------------------------------------------
(* The work screens: whose step it is.                                     *)
HomeStep ==
    \/ \E j \in Jobs : \/ LoadHome(j) \/ PollHome(j) \/ Retry(j) \/ HomeAnswered(j) \/ ServeHome(j)
                       \/ \E code \in Codes : ScanHome(j, code)
    \/ \E step \in {"AUTO", "PRODUCT", "CARTON"} : OpenLane(step)
    \/ BackToHome

StorageStep ==
    \/ \E j \in Jobs : \/ RefreshStorage(j) \/ GoHome(j) \/ ScanProduct(j) \/ ScanContainer(j)
                       \/ SendToReview(j) \/ StorageAnswered(j) \/ ServeStorage(j)
                       \/ \E letter \in Letters : OpenSection(j, letter)
    \/ ClearPending

BuildStep ==
    \E j \in Jobs : \/ \E first \in BOOLEAN : CreateBatch(j, first)
                    \/ \E b \in Batches : ContinueBatch(j, b)
                    \/ AddUnit(j) \/ SubmitBatch(j) \/ LeaveBatch(j) \/ BuildAnswered(j)
                    \/ ServeBuild(j)

IntakeStep ==
    \/ \E j \in Jobs : \/ \E b \in Batches : StartIntake(j, b)
                       \/ \E u \in 1 .. Total : ScanUnit(j, u)
                       \/ CompleteIntake(j) \/ LeaveIntake(j) \/ IntakeAnswered(j)
                       \/ ServeIntake(j)
    \/ \E b \in Batches, u \in 1 .. Total : OtherReceives(b, u)

ReportStep ==
    \/ \E j \in Jobs : \/ OpenReport(j) \/ ReportAnswered(j) \/ ServeReport(j)
                       \/ \E kind \in {"draft", "file"} : WriteReport(j, kind)
    \/ ReleaseFinished

LEMMA WhoseStep ==
    ASSUME LanesNext
    PROVE  \/ Next /\ UNCHANGED lanes
           \/ HomeStep \/ StorageStep \/ BuildStep \/ IntakeStep \/ ReportStep
           \/ \E j \in Jobs : NotServed(j)
           \/ LaneExpired
  <1>1. ASSUME NEW j \in Jobs, LaneWork(j) \/ LaneServer(j)
        PROVE  HomeStep \/ StorageStep \/ BuildStep \/ IntakeStep \/ ReportStep \/ NotServed(j)
    BY <1>1 DEF LaneWork, LaneServer, HomeStep, StorageStep, BuildStep, IntakeStep, ReportStep
  <1> QED
    BY <1>1 DEF LanesNext, HomeStep, StorageStep, IntakeStep, ReportStep

(* What a step of a screen leaves alone: the coroutines of the session, and *)
(* its store but for the end of the session.                               *)
SessionBelow == job' = job /\ store' \in {store, ExpiredStore(store)}

HomeKinds == {"load", "poll", "confirm", "mismatch"}
StorageKinds == {"tsHome", "tsBoard", "tsSection", "tsScan", "tsTarget", "tsPlace",
                 "tsReview", "tsQuiet"}
BuildKinds == {"open", "create", "detail", "add", "submit"}
IntakeKinds == {"queue", "start", "receive", "complete"}
ReportKinds == {"find", "view", "draft", "file"}

(* A step that only touches the requests of one screen.                    *)
Touches(K) ==
    /\ DOMAIN call' = Jobs
    /\ \A k \in Jobs : \/ call'[k] = call[k]
                       \/ {call[k].kind, call'[k].kind} \subseteq K \cup {"none"}

LEMMA CallKinds ==
    ASSUME DOMAIN call = Jobs, NEW j \in Jobs, NEW c, call' = [call EXCEPT ![j] = c]
    PROVE  DOMAIN call' = Jobs /\ call'[j] = c /\ \A k \in Jobs : k # j => call'[k] = call[k]
  OBVIOUS

LEMMA SendTouches ==
    ASSUME DOMAIN call = Jobs, NEW j \in Jobs, NEW K, NEW kind \in K, NEW in, Calls(j, kind, in)
    PROVE  Touches(K)
  BY CallKinds DEF Calls, Sent, NoCall, Touches

LEMMA ContinueTouches ==
    ASSUME DOMAIN call = Jobs, NEW j \in Jobs, NEW K, call[j].kind \in K,
           NEW kind \in K, NEW in, Continues(j, kind, in)
    PROVE  Touches(K)
  BY CallKinds DEF Continues, Sent, Touches

LEMMA EndTouches ==
    ASSUME DOMAIN call = Jobs, NEW j \in Jobs, NEW K, call[j].kind \in K, Ended(j)
    PROVE  Touches(K)
  BY CallKinds DEF Ended, NoCall, Touches

LEMMA ArriveTouches ==
    ASSUME DOMAIN call = Jobs, NEW j \in Jobs, NEW K, call[j].kind \in K,
           NEW why, NEW out, Arrives(j, why, out)
    PROVE  Touches(K)
  BY CallKinds DEF Arrives, Touches

LEMMA ServedTouches ==
    ASSUME DOMAIN call = Jobs, NEW j \in Jobs, NEW K, call[j].kind \in K,
           NEW out, Served(j, out)
    PROVE  Touches(K)
  BY ArriveTouches DEF Served

LEMMA NobodyTouches ==
    ASSUME DOMAIN call = Jobs, UNCHANGED call, NEW K
    PROVE  Touches(K)
  BY DEF Touches

LEMMA HomeFrame ==
    ASSUME DOMAIN call = Jobs, HomeStep
    PROVE  OnlyHome /\ SessionBelow /\ Touches(HomeKinds)
  <1>1. ASSUME NEW j \in Jobs, LoadHome(j) \/ PollHome(j) \/ Retry(j)
        PROVE  OnlyHome /\ SessionBelow /\ Touches(HomeKinds)
    BY <1>1, SendTouches DEF LoadHome, PollHome, Retry, Confirms, SessionBelow, vars, HomeKinds
  <1>2. ASSUME NEW j \in Jobs, NEW code \in Codes, ScanHome(j, code)
        PROVE  OnlyHome /\ SessionBelow /\ Touches(HomeKinds)
    BY <1>2, SendTouches, NobodyTouches DEF ScanHome, Confirms, SessionBelow, vars, HomeKinds
  <1>3. ASSUME NEW j \in Jobs, HomeAnswered(j)
        PROVE  OnlyHome /\ SessionBelow /\ Touches(HomeKinds)
    BY <1>3, EndTouches DEF HomeAnswered, Answered, Transport, SessionBelow, HomeKinds
  <1>4. ASSUME NEW j \in Jobs, ServeHome(j)
        PROVE  OnlyHome /\ SessionBelow /\ Touches(HomeKinds)
    BY <1>4, ArriveTouches, ServedTouches DEF ServeHome, Asked, SessionBelow, vars, HomeKinds
  <1>5. ASSUME BackToHome \/ \E step \in {"AUTO", "PRODUCT", "CARTON"} : OpenLane(step)
        PROVE  OnlyHome /\ SessionBelow /\ Touches(HomeKinds)
    BY <1>5, NobodyTouches DEF BackToHome, OpenLane, SessionBelow, vars
  <1> QED
    BY <1>1, <1>2, <1>3, <1>4, <1>5 DEF HomeStep

LEMMA StorageFrame ==
    ASSUME DOMAIN call = Jobs, StorageStep
    PROVE  OnlyStorage /\ SessionBelow /\ Touches(StorageKinds)
  <1>1. ASSUME NEW j \in Jobs, \/ RefreshStorage(j) \/ ScanProduct(j) \/ ScanContainer(j)
                               \/ SendToReview(j) \/ \E letter \in Letters : OpenSection(j, letter)
        PROVE  OnlyStorage /\ SessionBelow /\ Touches(StorageKinds)
    BY <1>1, SendTouches DEF RefreshStorage, ScanProduct, ScanContainer, SendToReview, OpenSection,
                             SessionBelow, vars, StorageKinds
  <1>2. ASSUME NEW j \in Jobs, GoHome(j)
        PROVE  OnlyStorage /\ SessionBelow /\ Touches(StorageKinds)
    BY <1>2, SendTouches, NobodyTouches DEF GoHome, SessionBelow, vars, StorageKinds
  <1>3. ASSUME NEW j \in Jobs, StorageAnswered(j)
        PROVE  OnlyStorage /\ SessionBelow /\ Touches(StorageKinds)
    <2>1. OnlyStorage /\ SessionBelow
      BY <1>3 DEF StorageAnswered, Transport, SessionBelow
    <2>2. ASSUME BoardAnswered(j) \/ ProductAnswered(j) \/ PlaceAnswered(j)
          PROVE  /\ call[j].kind \in StorageKinds
                 /\ Ended(j) \/ \E kind \in StorageKinds : \E in : Continues(j, kind, in)
      <3>1. CASE BoardAnswered(j)
        BY <3>1 DEF BoardAnswered, Answered, StorageKinds
      <3>2. CASE ProductAnswered(j)
        BY <3>2 DEF ProductAnswered, Answered, StorageKinds
      <3>3. CASE PlaceAnswered(j)
        BY <3>3 DEF PlaceAnswered, Answered, StorageKinds
      <3> QED
        BY <2>2, <3>1, <3>2, <3>3
    <2>3. Touches(StorageKinds)
      BY <1>3, <2>2, EndTouches, ContinueTouches DEF StorageAnswered
    <2> QED
      BY <2>1, <2>3
  <1>4. ASSUME NEW j \in Jobs, ServeStorage(j)
        PROVE  OnlyStorage /\ SessionBelow /\ Touches(StorageKinds)
    BY <1>4, ArriveTouches, ServedTouches DEF ServeStorage, Asked, SessionBelow, vars, StorageKinds
  <1>5. ASSUME ClearPending
        PROVE  OnlyStorage /\ SessionBelow /\ Touches(StorageKinds)
    BY <1>5, NobodyTouches DEF ClearPending, SessionBelow, vars
  <1> QED
    BY <1>1, <1>2, <1>3, <1>4, <1>5 DEF StorageStep

LEMMA BuildFrame ==
    ASSUME DOMAIN call = Jobs, BuildStep
    PROVE  OnlyBuild /\ SessionBelow /\ Touches(BuildKinds)
  <1>1. ASSUME NEW j \in Jobs, \/ \E first \in BOOLEAN : CreateBatch(j, first)
                               \/ \E b \in Batches : ContinueBatch(j, b)
                               \/ AddUnit(j) \/ SubmitBatch(j)
        PROVE  OnlyBuild /\ SessionBelow /\ Touches(BuildKinds)
    BY <1>1, SendTouches DEF CreateBatch, ContinueBatch, AddUnit, SubmitBatch, SessionBelow, vars,
                             BuildKinds
  <1>2. ASSUME NEW j \in Jobs, LeaveBatch(j)
        PROVE  OnlyBuild /\ SessionBelow /\ Touches(BuildKinds)
    BY <1>2, SendTouches, NobodyTouches DEF LeaveBatch, SessionBelow, vars, BuildKinds
  <1>3. ASSUME NEW j \in Jobs, BuildAnswered(j)
        PROVE  OnlyBuild /\ SessionBelow /\ Touches(BuildKinds)
    BY <1>3, EndTouches, ContinueTouches DEF BuildAnswered, Answered, Transport, SessionBelow,
                                             BuildKinds
  <1>4. ASSUME NEW j \in Jobs, ServeBuild(j)
        PROVE  OnlyBuild /\ SessionBelow /\ Touches(BuildKinds)
    BY <1>4, ArriveTouches, ServedTouches DEF ServeBuild, Asked, SessionBelow, vars, BuildKinds
  <1> QED
    BY <1>1, <1>2, <1>3, <1>4 DEF BuildStep

LEMMA IntakeFrame ==
    ASSUME DOMAIN call = Jobs, IntakeStep
    PROVE  OnlyIntake /\ SessionBelow /\ Touches(IntakeKinds)
  <1>1. ASSUME NEW j \in Jobs, \/ \E b \in Batches : StartIntake(j, b)
                               \/ \E u \in 1 .. Total : ScanUnit(j, u)
                               \/ CompleteIntake(j)
        PROVE  OnlyIntake /\ SessionBelow /\ Touches(IntakeKinds)
    BY <1>1, SendTouches DEF StartIntake, ScanUnit, CompleteIntake, SessionBelow, vars, IntakeKinds
  <1>2. ASSUME NEW j \in Jobs, LeaveIntake(j)
        PROVE  OnlyIntake /\ SessionBelow /\ Touches(IntakeKinds)
    BY <1>2, SendTouches, NobodyTouches DEF LeaveIntake, SessionBelow, vars, IntakeKinds
  <1>3. ASSUME NEW j \in Jobs, IntakeAnswered(j)
        PROVE  OnlyIntake /\ SessionBelow /\ Touches(IntakeKinds)
    <2>1. OnlyIntake /\ SessionBelow
      BY <1>3 DEF IntakeAnswered, Transport, SessionBelow
    <2>2. call[j].kind \in IntakeKinds
          /\ (Ended(j) \/ \E kind \in IntakeKinds : Continues(j, kind, None))
      BY <1>3 DEF IntakeAnswered, Answered, IntakeKinds, Kinds
    <2> QED
      BY <2>1, <2>2, EndTouches, ContinueTouches
  <1>4. ASSUME NEW j \in Jobs, ServeIntake(j)
        PROVE  OnlyIntake /\ SessionBelow /\ Touches(IntakeKinds)
    BY <1>4, ArriveTouches, ServedTouches DEF ServeIntake, Asked, SessionBelow, vars, IntakeKinds
  <1>5. ASSUME NEW b \in Batches, NEW u \in 1 .. Total, OtherReceives(b, u)
        PROVE  OnlyIntake /\ SessionBelow /\ Touches(IntakeKinds)
    BY <1>5, NobodyTouches DEF OtherReceives, SessionBelow, vars
  <1> QED
    BY <1>1, <1>2, <1>3, <1>4, <1>5 DEF IntakeStep

LEMMA ReportFrame ==
    ASSUME DOMAIN call = Jobs, ReportStep
    PROVE  OnlyReport /\ SessionBelow /\ Touches(ReportKinds)
  <1>1. ASSUME NEW j \in Jobs, \/ OpenReport(j)
                               \/ \E kind \in {"draft", "file"} : WriteReport(j, kind)
        PROVE  OnlyReport /\ SessionBelow /\ Touches(ReportKinds)
    BY <1>1, SendTouches DEF OpenReport, WriteReport, SessionBelow, vars, ReportKinds
  <1>2. ASSUME NEW j \in Jobs, ReportAnswered(j)
        PROVE  OnlyReport /\ SessionBelow /\ Touches(ReportKinds)
    <2>1. OnlyReport /\ SessionBelow
      BY <1>2 DEF ReportAnswered, Transport, SessionBelow
    <2>2. call[j].kind \in ReportKinds
          /\ (Ended(j) \/ \E kind \in ReportKinds : Continues(j, kind, None))
      BY <1>2 DEF ReportAnswered, Answered, ReportKinds, Kinds
    <2> QED
      BY <2>1, <2>2, EndTouches, ContinueTouches
  <1>3. ASSUME NEW j \in Jobs, ServeReport(j)
        PROVE  OnlyReport /\ SessionBelow /\ Touches(ReportKinds)
    BY <1>3, ArriveTouches, ServedTouches DEF ServeReport, Asked, SessionBelow, vars, ReportKinds
  <1>4. ASSUME ReleaseFinished
        PROVE  OnlyReport /\ SessionBelow /\ Touches(ReportKinds)
    BY <1>4, NobodyTouches DEF ReleaseFinished, SessionBelow, vars
  <1> QED
    BY <1>1, <1>2, <1>3, <1>4 DEF ReportStep

-------------------------------------------------------------------------------
(* The session below the screens                                           *)

LEMMA BelowStands ==
    ASSUME SessionInv, SessionBelow
    PROVE  SessionInv' /\ Evolves(store, store')
  <1>1. store \in Store
    BY DEF SessionInv
  <1>2. Evolves(store, store')
    BY <1>1, StoreSteps DEF SessionBelow
  <1> QED
    BY <1>1, <1>2, SnapEvolves DEF SessionInv, SessionBelow, Evolves

LEMMA LaneSessions ==
    ASSUME SessionInv, DOMAIN call = Jobs, LanesNext
    PROVE  /\ SessionInv' /\ DOMAIN call' = Jobs
           /\ Evolves(store, store') \/ store'.token = store.token
  <1>1. CASE Next /\ UNCHANGED lanes
    BY <1>1, SessionSteps DEF lanes
  <1>2. CASE HomeStep \/ StorageStep \/ BuildStep \/ IntakeStep \/ ReportStep
    <2>1. SessionBelow /\ DOMAIN call' = Jobs
      BY <1>2, HomeFrame, StorageFrame, BuildFrame, IntakeFrame, ReportFrame DEF Touches
    <2> QED
      BY <2>1, BelowStands
  <1>3. ASSUME NEW j \in Jobs, NotServed(j)
        PROVE  SessionBelow /\ DOMAIN call' = Jobs
    BY <1>3, CallKinds DEF NotServed, Arrives, SessionBelow, vars
  <1>4. ASSUME LaneExpired
        PROVE  SessionBelow /\ DOMAIN call' = Jobs
    BY <1>4 DEF LaneExpired, SessionBelow, lanes
  <1> QED
    BY <1>1, <1>2, <1>3, <1>4, BelowStands, WhoseStep

LEMMA LaneSessionsStart ==
    ASSUME LanesInit
    PROVE  SessionInv /\ DOMAIN call = Jobs
  <1>1. store \in Store /\ job = [j \in Jobs |-> Idle]
    <2>1. CASE Init
      BY <2>1 DEF Init, Store
    <2>2. ASSUME NEW u \in Users, NEW i \in Ids, SignedIn(u, i)
          PROVE  store \in Store /\ job = [j \in Jobs |-> Idle]
      <3>1. store = [token |-> i, version |-> 1, identity |-> 1] /\ job = [j \in Jobs |-> Idle]
        BY <2>2 DEF SignedIn
      <3> QED
        BY <3>1 DEF Store
    <2> QED
      BY <2>1, <2>2 DEF LanesInit
  <1> QED
    BY <1>1, IdleStands DEF LanesInit, SessionInv

(* Signing out is final, whatever request, renewal or screen answers late: *)
(* a store without a token gets one only from a login.                     *)
THEOREM SignedOutIsFinal == LanesSpec => SignedOutStaysOut
  <1> DEFINE Inv == SessionInv /\ DOMAIN call = Jobs
             Final == (store.token = None /\ store'.token # None)
                          => store'.identity > store.identity
  <1>1. LanesInit => Inv
    BY LaneSessionsStart
  <1>2. Inv /\ [LanesNext]_lanesVars => Inv' /\ [Final]_vars
    <2>1. ASSUME Inv, LanesNext PROVE Inv' /\ Final
      BY <2>1, LaneSessions DEF Evolves
    <2>2. ASSUME Inv, UNCHANGED lanesVars PROVE Inv' /\ UNCHANGED vars
      BY <2>2 DEF lanesVars, lanes, vars, SessionInv
    <2> QED
      BY <2>1, <2>2
  <1> HIDE DEF Inv
  <1>3. LanesSpec => [][Final]_vars
    BY <1>1, <1>2, PTL DEF LanesSpec
  <1> QED
    BY <1>3 DEF SignedOutStaysOut

-------------------------------------------------------------------------------
(* Receiving Home                                                          *)

(* Requests that claim the workflow: one at most, and only while it is     *)
(* busy.                                                                   *)
Claims(K, busy) ==
    /\ \A j \in Jobs : call[j].kind \in K => busy
    /\ \A j, k \in Jobs : call[j].kind \in K /\ call[k].kind \in K => j = k

HomeClaims == HomeKinds \ {"poll"}
Reasons == {"ok", "failed", "lost", "401"}

HomeTyped ==
    /\ home \in [step : Steps, auto : BOOLEAN, busy : BOOLEAN, review : Cards \cup {None},
                 last : Codes \cup {None}, known : SUBSET Codes, expired : BOOLEAN,
                 feed : Feed \cup {None}]
    /\ counted \in Feed /\ scans \in [Codes -> Nat] /\ told \in BOOLEAN

(* What a request of Receiving Home carries, and what its answer brings.   *)
HomeCall(j) ==
    /\ call[j].kind = "confirm" =>
          /\ call[j].in.code \in Cards /\ call[j].in.back \in Steps
          /\ home.review \in {None, call[j].in.code}
    /\ call[j].kind \in HomeKinds => call[j].at \in {"sent", "answered"}
    /\ call[j].kind \in HomeKinds /\ call[j].at = "answered" =>
          /\ call[j].why \in Reasons
          /\ call[j].why = "ok" =>
                IF call[j].kind = "confirm"
                THEN call[j].out.match \in BOOLEAN /\ call[j].out.feed \in Feed
                ELSE call[j].out \in Feed

(* A confirmation that can still count, or has not and the device knows.   *)
Owed(j) ==
    /\ call[j].kind = "confirm" /\ call[j].in.code = "model"
    /\ call[j].at = "sent" \/ call[j].why \in {"failed", "401"}

(* As long as every outcome is known, a confirmation under way, and one    *)
(* that can be tried again, are of a scan that has not been counted yet.   *)
ScansCover ==
    \/ told
    \/ /\ counted["model"] <= scans["model"]
       /\ (\E j \in Jobs : Owed(j)) => counted["model"] < scans["model"]
       /\ home.review = "model" /\ (\A j \in Jobs : call[j].kind # "confirm") =>
             counted["model"] < scans["model"]

HomeInv ==
    /\ DOMAIN call = Jobs
    /\ HomeTyped
    /\ \A j \in Jobs : HomeCall(j)
    /\ Claims(HomeClaims, home.busy)
    /\ ScansCover

(* Requests of other screens come and go.                                  *)
LEMMA HomeElsewhere ==
    ASSUME HomeInv, UNCHANGED homeVars, NEW K, Touches(K), K \cap HomeKinds = {}
    PROVE  HomeInv'
  <1>1. UNCHANGED <<home, counted, scans, told>>
    BY DEF homeVars
  <1>2. \A j \in Jobs : call'[j] = call[j] \/ {call[j].kind, call'[j].kind} \cap HomeKinds = {}
    BY DEF Touches, HomeKinds
  <1>3. \A j \in Jobs : HomeCall(j)'
    BY <1>1, <1>2 DEF HomeInv, HomeCall, HomeKinds
  <1>4. Claims(HomeClaims, home.busy)'
    BY <1>1, <1>2 DEF HomeInv, Claims, HomeClaims
  <1>5. \A j \in Jobs : /\ Owed(j)' => Owed(j)
                        /\ call'[j].kind # "confirm" => call[j].kind # "confirm"
    BY <1>2 DEF Owed, HomeKinds
  <1>6. ScansCover'
    BY <1>1, <1>5 DEF HomeInv, ScansCover
  <1> QED
    BY <1>1, <1>3, <1>4, <1>6 DEF HomeInv, HomeTyped, Touches

(* The lanes, without a request.                                           *)
LEMMA HomeMoves ==
    ASSUME HomeInv, BackToHome \/ \E step \in {"AUTO", "PRODUCT", "CARTON"} : OpenLane(step)
    PROVE  HomeInv'
  <1>1. PICK step \in Steps : home' = Away(home, step) /\ UNCHANGED <<call, counted, scans, told>>
    BY DEF BackToHome, OpenLane, Steps
  <1>2. HomeTyped' /\ home'.review = None /\ home'.busy = home.busy
    BY <1>1 DEF HomeInv, HomeTyped, Away
  <1>3. \A j \in Jobs : HomeCall(j)'
    BY <1>1, <1>2 DEF HomeInv, HomeCall
  <1>4. Claims(HomeClaims, home.busy)'
    BY <1>1, <1>2 DEF HomeInv, Claims
  <1>5. \A j \in Jobs : Owed(j)' => Owed(j)
    BY <1>1 DEF Owed
  <1>6. ScansCover'
    BY <1>1, <1>2, <1>5, CodesAssumption DEF HomeInv, ScansCover, Codes
  <1> QED
    BY <1>1, <1>2, <1>3, <1>4, <1>6 DEF HomeInv

LEMMA OpenedClaims ==
    ASSUME DOMAIN call = Jobs, NEW K, "none" \notin K, NEW busy, Claims(K, busy), ~busy,
           NEW j \in Jobs, NEW c, call' = [call EXCEPT ![j] = c]
    PROVE  Claims(K, TRUE)' /\ \A k \in Jobs : k # j => call'[k] = call[k] /\ call[k].kind \notin K
  <1>1. call'[j] = c /\ \A k \in Jobs : k # j => call'[k] = call[k]
    BY CallKinds
  <1> QED
    BY <1>1 DEF Claims

(* The device asks: for the lists, for a confirmation, for the record of a *)
(* code that no card carries.                                              *)
LEMMA HomeLoads ==
    ASSUME HomeInv, NEW j \in Jobs, LoadHome(j)
    PROVE  HomeInv'
  <1>1. /\ home' = [home EXCEPT !.busy = TRUE] /\ UNCHANGED <<counted, scans, told>>
        /\ call[j] = NoCall /\ call' = [call EXCEPT ![j] = Sent("load", None)] /\ ~home.busy
    BY DEF LoadHome, HomeFree, Calls
  <1>2. HomeTyped' /\ home'.review = home.review /\ home'.busy
    BY <1>1 DEF HomeInv, HomeTyped
  <1>3. /\ Claims(HomeClaims, TRUE)'
        /\ \A k \in Jobs : k # j => call'[k] = call[k] /\ call[k].kind \notin HomeClaims
    <2>1. "none" \notin HomeClaims
      BY DEF HomeClaims, HomeKinds
    <2> QED
      BY <1>1, <2>1, OpenedClaims DEF HomeInv, Claims
  <1>4. DOMAIN call' = Jobs /\ call'[j] = Sent("load", None)
    BY <1>1, CallKinds DEF HomeInv
  <1>5. \A k \in Jobs : HomeCall(k)'
    BY <1>2, <1>3, <1>4 DEF HomeInv, HomeCall, Sent, HomeKinds
  <1>6. \A k \in Jobs : /\ Owed(k)' => Owed(k)
                        /\ call[k].kind # "confirm"
    BY <1>1, <1>3, <1>4 DEF Owed, Sent, NoCall, HomeClaims, HomeKinds
  <1>7. ScansCover'
    BY <1>1, <1>2, <1>6 DEF HomeInv, ScansCover
  <1> QED
    BY <1>2, <1>3, <1>4, <1>5, <1>7 DEF HomeInv, Claims

LEMMA HomePolls ==
    ASSUME HomeInv, NEW j \in Jobs, PollHome(j)
    PROVE  HomeInv'
  <1>1. /\ UNCHANGED <<home, counted, scans, told>>
        /\ call[j] = NoCall /\ call' = [call EXCEPT ![j] = Sent("poll", None)]
    BY DEF PollHome, Calls, homeVars
  <1>2. /\ DOMAIN call' = Jobs /\ call'[j] = Sent("poll", None)
        /\ \A k \in Jobs : k # j => call'[k] = call[k]
    BY <1>1, CallKinds DEF HomeInv
  <1>3. \A k \in Jobs : HomeCall(k)'
    BY <1>1, <1>2 DEF HomeInv, HomeCall, Sent, HomeKinds
  <1>4. Claims(HomeClaims, home.busy)'
    BY <1>1, <1>2 DEF HomeInv, Claims, Sent, HomeClaims, HomeKinds
  <1>5. \A k \in Jobs : /\ Owed(k)' => Owed(k)
                        /\ call'[k].kind # "confirm" => call[k].kind # "confirm"
    BY <1>1, <1>2 DEF Owed, Sent, NoCall
  <1>6. ScansCover'
    BY <1>1, <1>5 DEF HomeInv, ScansCover
  <1> QED
    BY <1>1, <1>2, <1>3, <1>4, <1>6 DEF HomeInv, HomeTyped

(* A confirmation is sent: for a scan, which then is one more, or to try   *)
(* again what is owed.                                                     *)
LEMMA HomeConfirms ==
    ASSUME HomeInv, NEW j \in Jobs, NEW h, NEW code \in Cards, Confirms(j, h, code),
           ~home.busy, call[j] = NoCall, UNCHANGED <<counted, told>>,
           h = [home EXCEPT !.last = h.last], h.last \in Codes \cup {None},
           \/ scans' = [scans EXCEPT ![code] = @ + 1]
           \/ UNCHANGED scans /\ home.review = code
    PROVE  HomeInv'
  <1> DEFINE c == Sent("confirm", [code |-> code, back |-> Lane(h, code)])
  <1>1. home' = [h EXCEPT !.step = "REVIEW", !.review = code, !.busy = TRUE]
        /\ call' = [call EXCEPT ![j] = c]
    BY DEF Confirms, Calls
  <1>2. scans' \in [Codes -> Nat]
    BY DEF HomeInv, HomeTyped, Cards
  <1>3. HomeTyped' /\ home'.review = code /\ home'.busy
    BY <1>1, <1>2 DEF HomeInv, HomeTyped, Steps
  <1>4. /\ Claims(HomeClaims, TRUE)'
        /\ \A k \in Jobs : k # j => call'[k] = call[k] /\ call[k].kind \notin HomeClaims
    <2>1. "none" \notin HomeClaims
      BY DEF HomeClaims, HomeKinds
    <2> QED
      BY <1>1, <2>1, OpenedClaims DEF HomeInv, Claims
  <1>5. DOMAIN call' = Jobs /\ call'[j] = c
    BY <1>1, CallKinds DEF HomeInv
  <1>6. c.kind = "confirm" /\ c.at = "sent" /\ c.in.code = code /\ c.in.back \in Steps
    BY DEF Sent, Lane, Steps
  <1> HIDE DEF c
  <1>7. \A k \in Jobs : HomeCall(k)'
    BY <1>3, <1>4, <1>5, <1>6 DEF HomeInv, HomeCall, HomeClaims, HomeKinds
  <1>8. \A k \in Jobs : call[k].kind # "confirm"
    BY <1>4 DEF NoCall, HomeClaims, HomeKinds
  <1>9. ScansCover'
    <2>1. counted["model"] \in Nat /\ scans["model"] \in Nat /\ UNCHANGED <<counted, told>>
      BY DEF HomeInv, HomeTyped, Feed, Cards, Codes
    <2>2. CASE code = "model"
      <3>1. told \/ counted["model"] < scans'["model"]
        <4>1. CASE scans' = [scans EXCEPT ![code] = @ + 1]
          <5>1. scans'["model"] = scans["model"] + 1
            BY <2>2, <4>1 DEF HomeInv, HomeTyped, Codes
          <5> QED
            BY <2>1, <5>1 DEF HomeInv, ScansCover
        <4>2. CASE UNCHANGED scans /\ home.review = code
          BY <1>8, <2>2, <4>2 DEF HomeInv, ScansCover
        <4> QED
          BY <4>1, <4>2
      <3>2. scans'["model"] \in Nat
        BY <1>2 DEF Codes
      <3> QED
        BY <2>1, <3>1, <3>2 DEF ScansCover
    <2>3. CASE code # "model"
      <3>1. scans'["model"] = scans["model"]
        BY <2>3 DEF HomeInv, HomeTyped, Codes
      <3>2. \A k \in Jobs : ~Owed(k)'
        BY <1>4, <1>5, <1>6, <2>3 DEF Owed, HomeClaims, HomeKinds
      <3> QED
        BY <1>3, <2>1, <2>3, <3>1, <3>2 DEF HomeInv, ScansCover
    <2> QED
      BY <2>2, <2>3
  <1> QED
    BY <1>3, <1>4, <1>5, <1>7, <1>9 DEF HomeInv, Claims

LEMMA HomeScans ==
    ASSUME HomeInv, NEW j \in Jobs, NEW code \in Codes, ScanHome(j, code)
    PROVE  HomeInv'
  <1> DEFINE h == [home EXCEPT !.last = code]
             over == Matches(code) /\ ((code = "unit" /\ code \in home.known)
                                       \/ home.feed[code] >= Expected(code))
  <1>1. /\ ~home.busy /\ scans' = [scans EXCEPT ![code] = @ + 1] /\ UNCHANGED <<counted, told>>
        /\ \/ over /\ home' = [h EXCEPT !.review = None] /\ UNCHANGED call
           \/ Matches(code) /\ Confirms(j, h, code)
           \/ /\ ~Matches(code)
              /\ home' = [h EXCEPT !.busy = TRUE] /\ Calls(j, "mismatch", None)
    BY DEF ScanHome, HomeFree
  <1>2. /\ counted["model"] \in Nat /\ scans["model"] \in Nat
        /\ scans' \in [Codes -> Nat] /\ scans'["model"] >= scans["model"]
    BY <1>1 DEF HomeInv, HomeTyped, Feed, Cards, Codes
  <1>3. CASE over /\ home' = [h EXCEPT !.review = None] /\ UNCHANGED call
    <2>1. HomeTyped' /\ home'.review = None /\ home'.busy = home.busy
      BY <1>1, <1>2, <1>3 DEF HomeInv, HomeTyped
    <2>2. \A k \in Jobs : HomeCall(k)'
      BY <1>3, <2>1 DEF HomeInv, HomeCall
    <2>3. Claims(HomeClaims, home.busy)'
      BY <1>3, <2>1 DEF HomeInv, Claims
    <2>4. \A k \in Jobs : Owed(k)' => Owed(k)
      BY <1>3 DEF Owed
    <2>5. scans'["model"] \in Nat
      BY <1>2 DEF Codes
    <2>6. ScansCover'
      BY <1>1, <1>2, <2>1, <2>4, <2>5, CodesAssumption DEF HomeInv, ScansCover, Codes
    <2> QED
      BY <1>3, <2>1, <2>2, <2>3, <2>6 DEF HomeInv
  <1>4. CASE Matches(code) /\ Confirms(j, h, code)
    <2>1. h = [home EXCEPT !.last = h.last] /\ h.last \in Codes \cup {None} /\ code \in Cards
      BY <1>4 DEF HomeInv, HomeTyped, Matches
    <2>2. call[j] = NoCall
      BY <1>4 DEF Confirms, Calls
    <2> QED
      BY <1>1, <1>4, <2>1, <2>2, HomeConfirms
  <1>5. CASE home' = [h EXCEPT !.busy = TRUE] /\ Calls(j, "mismatch", None)
    <2>1. HomeTyped' /\ home'.review = home.review /\ home'.busy
      BY <1>1, <1>2, <1>5 DEF HomeInv, HomeTyped
    <2>2. call[j] = NoCall /\ call' = [call EXCEPT ![j] = Sent("mismatch", None)]
      BY <1>5 DEF Calls
    <2>3. /\ Claims(HomeClaims, TRUE)'
          /\ \A k \in Jobs : k # j => call'[k] = call[k] /\ call[k].kind \notin HomeClaims
      <3>1. "none" \notin HomeClaims
        BY DEF HomeClaims, HomeKinds
      <3> QED
        BY <1>1, <2>2, <3>1, OpenedClaims DEF HomeInv, Claims
    <2>4. DOMAIN call' = Jobs /\ call'[j] = Sent("mismatch", None)
      BY <2>2, CallKinds DEF HomeInv
    <2>5. \A k \in Jobs : HomeCall(k)'
      BY <2>1, <2>3, <2>4 DEF HomeInv, HomeCall, Sent, HomeKinds
    <2>6. \A k \in Jobs : /\ Owed(k)' => Owed(k)
                          /\ call[k].kind # "confirm"
      BY <2>2, <2>3, <2>4 DEF Owed, Sent, NoCall, HomeClaims, HomeKinds
    <2>7. scans'["model"] \in Nat
      BY <1>2 DEF Codes
    <2>8. ScansCover'
      BY <1>1, <1>2, <2>1, <2>6, <2>7 DEF HomeInv, ScansCover
    <2> QED
      BY <2>1, <2>3, <2>4, <2>5, <2>8 DEF HomeInv, Claims
  <1> QED
    BY <1>1, <1>3, <1>4, <1>5

LEMMA HomeRetries ==
    ASSUME HomeInv, NEW j \in Jobs, Retry(j)
    PROVE  HomeInv'
  <1>1. /\ ~home.busy /\ home.review # None /\ Confirms(j, home, home.review)
        /\ UNCHANGED <<scans, counted, told>>
    BY DEF Retry, HomeFree
  <1>2. home = [home EXCEPT !.last = home.last] /\ home.last \in Codes \cup {None}
        /\ home.review \in Cards
    BY <1>1 DEF HomeInv, HomeTyped
  <1>3. call[j] = NoCall
    BY <1>1 DEF Confirms, Calls
  <1> QED
    BY <1>1, <1>2, <1>3, HomeConfirms

(* The server counts, or answers with what is counted.                     *)
LEMMA HomeServes ==
    ASSUME HomeInv, NEW j \in Jobs, ServeHome(j)
    PROVE  HomeInv'
  <1> USE DEF HomeInv
  <1>1. UNCHANGED <<home, scans, told>>
    BY DEF ServeHome
  <1>2. counted \in Feed /\ counted["model"] \in Nat
    BY DEF HomeTyped, Feed, Cards, Codes
  <1>3. PICK why, out :
          /\ why \in Reasons
          /\ Arrives(j, why, out) /\ call[j].at = "sent" /\ call[j].kind \in HomeKinds
          /\ counted' \in Feed
          /\ why = "ok" => IF call[j].kind = "confirm"
                           THEN out.match \in BOOLEAN /\ out.feed \in Feed ELSE out \in Feed
          /\ why \in {"ok", "lost"}
          /\ counted'["model"] = counted["model"]
             \/ /\ counted'["model"] = counted["model"] + 1
                /\ call[j].kind = "confirm" /\ call[j].in.code = "model"
    <2>1. CASE Asked(j, "confirm")
      <3> DEFINE c == call[j].in.code
                 match == counted[c] < Expected(c)
                 feed == IF match THEN [counted EXCEPT ![c] = @ + 1] ELSE counted
      <3>1. counted' = feed /\ Served(j, [match |-> match, feed |-> feed])
        BY <2>1 DEF ServeHome, Asked
      <3>2. c \in Cards
        BY <2>1 DEF HomeCall, Asked
      <3>3. feed \in Feed /\ (feed["model"] = counted["model"]
                               \/ (feed["model"] = counted["model"] + 1 /\ c = "model"))
        BY <1>2, <3>2 DEF Feed
      <3>4. match \in BOOLEAN
        OBVIOUS
      <3> HIDE DEF match, feed
      <3> DEFINE out == [match |-> match, feed |-> feed]
      <3>5. out.match \in BOOLEAN /\ out.feed \in Feed
        BY <3>3, <3>4
      <3>6. PICK why \in {"ok", "lost"} : Arrives(j, why, out)
        BY <3>1 DEF Served
      <3> HIDE DEF out
      <3> QED
        BY <2>1, <3>1, <3>3, <3>5, <3>6 DEF Asked, HomeKinds, Reasons
    <2>2. CASE Asked(j, "load") \/ Asked(j, "poll") \/ Asked(j, "mismatch")
      <3>1. Arrives(j, "ok", counted) /\ UNCHANGED counted
        BY <2>2 DEF ServeHome, Asked
      <3> QED
        BY <1>2, <2>2, <3>1 DEF Asked, HomeKinds, Reasons
    <2> QED
      BY <2>1, <2>2 DEF ServeHome
  <1>4. /\ DOMAIN call' = Jobs /\ \A k \in Jobs : k # j => call'[k] = call[k]
        /\ call'[j] = [kind |-> call[j].kind, at |-> "answered", in |-> call[j].in,
                       why |-> why, out |-> out]
    BY <1>3, CallKinds DEF Arrives
  <1>5. \A k \in Jobs : HomeCall(k)'
    BY <1>1, <1>3, <1>4 DEF HomeCall
  <1>6. Claims(HomeClaims, home.busy)'
    BY <1>1, <1>4 DEF Claims
  <1>7. \A k \in Jobs : call'[k].kind = call[k].kind /\ (Owed(k)' => Owed(k) /\ k # j)
    BY <1>3, <1>4 DEF Owed
  <1>8. ScansCover'
    <2>1. scans["model"] \in Nat
      BY DEF HomeTyped, Codes
    <2>2. CASE counted'["model"] = counted["model"]
      BY <1>1, <1>7, <2>2 DEF ScansCover
    <2>3. CASE /\ counted'["model"] = counted["model"] + 1
               /\ call[j].kind = "confirm" /\ call[j].in.code = "model"
      <3>1. Owed(j)
        BY <1>3, <2>3 DEF Owed
      <3>2. \A k \in Jobs : Owed(k) => k = j
        BY <2>3 DEF Owed, Claims, HomeClaims, HomeKinds
      <3>3. \A k \in Jobs : ~Owed(k)'
        BY <1>7, <3>2
      <3>4. call'[j].kind = "confirm"
        BY <1>7, <2>3
      <3> QED
        BY <1>1, <1>2, <2>1, <2>3, <3>1, <3>3, <3>4 DEF ScansCover
    <2> QED
      BY <1>3, <2>2, <2>3
  <1> QED
    BY <1>1, <1>3, <1>4, <1>5, <1>6, <1>8 DEF HomeTyped

(* Nothing was recorded, and the device may or may not know.               *)
LEMMA HomeNotServed ==
    ASSUME HomeInv, NEW j \in Jobs, NotServed(j)
    PROVE  HomeInv'
  <1> USE DEF HomeInv
  <1>1. UNCHANGED <<home, counted, scans, told>>
    BY DEF NotServed, homeVars
  <1>2. PICK why \in Reasons \ {"ok"} : Arrives(j, why, None) /\ call[j].at = "sent"
    BY DEF NotServed, Reasons
  <1>3. /\ DOMAIN call' = Jobs /\ \A k \in Jobs : k # j => call'[k] = call[k]
        /\ call'[j] = [kind |-> call[j].kind, at |-> "answered", in |-> call[j].in,
                       why |-> why, out |-> None]
    BY <1>2, CallKinds DEF Arrives
  <1>4. \A k \in Jobs : HomeCall(k)'
    BY <1>1, <1>2, <1>3 DEF HomeCall
  <1>5. Claims(HomeClaims, home.busy)'
    BY <1>1, <1>3 DEF Claims
  <1>6. \A k \in Jobs : call'[k].kind = call[k].kind /\ (Owed(k)' => Owed(k))
    BY <1>2, <1>3 DEF Owed
  <1>7. ScansCover'
    BY <1>1, <1>6 DEF ScansCover
  <1> QED
    BY <1>1, <1>3, <1>4, <1>5, <1>7 DEF HomeTyped

(* An answer ends its request; of a request that claimed the workflow it   *)
(* frees it, and then no other claim is left.                              *)
LEMMA HomeAnswers ==
    ASSUME HomeInv, NEW j \in Jobs, HomeAnswered(j)
    PROVE  HomeInv'
  <1> USE DEF HomeInv
  <1> DEFINE kind == call[j].kind
  <1>1. /\ call[j].at = "answered" /\ kind \in HomeKinds /\ Why(j) \in Reasons
        /\ UNCHANGED <<counted, scans>> /\ call' = [call EXCEPT ![j] = NoCall]
    BY DEF HomeAnswered, Answered, Ended, HomeCall, HomeKinds, Why
  <1>2. /\ DOMAIN call' = Jobs /\ call'[j] = NoCall
        /\ \A k \in Jobs : k # j => call'[k] = call[k]
    BY <1>1, CallKinds
  <1>3. /\ home' \in [step : Steps, auto : BOOLEAN, busy : BOOLEAN, review : Cards \cup {None},
                      last : Codes \cup {None}, known : SUBSET Codes, expired : BOOLEAN,
                      feed : Feed \cup {None}]
        /\ home'.review \in {None, home.review}
        /\ home'.busy = (kind = "poll" /\ home.busy)
        /\ kind = "confirm" /\ Good(j) => home'.review = None
        /\ told' = (told \/ (kind = "confirm" /\ Why(j) = "lost"))
    <2>1. CASE kind = "confirm" /\ Good(j)
      <3> DEFINE n == call[j].in
                 r == call[j].out
      <3>1. n.code \in Cards /\ n.back \in Steps /\ r.match \in BOOLEAN /\ r.feed \in Feed
        BY <1>1, <2>1 DEF HomeCall, Good, Why
      <3>2. home' = Applied(home, n, r) /\ told' = (told \/ Why(j) = "lost")
        BY <2>1 DEF HomeAnswered, Answered
      <3> HIDE DEF n, r
      <3>3. Cards \subseteq Codes
        BY DEF Cards
      <3> QED
        BY <2>1, <3>1, <3>2, <3>3 DEF Applied, HomeTyped, Good
    <2>2. ASSUME ~Good(j), kind # "poll"
          PROVE  Failed(home, Why(j)) \in
                     [step : Steps, auto : BOOLEAN, busy : BOOLEAN, review : Cards \cup {None},
                      last : Codes \cup {None}, known : SUBSET Codes, expired : BOOLEAN,
                      feed : Feed \cup {None}]
                 /\ Failed(home, Why(j)).review = home.review
                 /\ Failed(home, Why(j)).busy = FALSE
      BY DEF Failed, Lane, HomeTyped, Steps
    <2>3. CASE kind = "confirm" /\ ~Good(j)
      <3>1. home' = Failed(home, Why(j)) /\ told' = (told \/ Why(j) = "lost")
        BY <2>3 DEF HomeAnswered, Answered
      <3> QED
        BY <2>2, <2>3, <3>1
    <2>4. CASE kind \in {"mismatch", "load"} /\ ~Good(j)
      <3>1. home' = Failed(home, Why(j)) /\ told' = told
        BY <2>4 DEF HomeAnswered, Answered
      <3> QED
        BY <2>2, <2>4, <3>1 DEF HomeTyped
    <2>5. CASE kind \in {"mismatch", "load", "poll"} /\ Good(j)
      <3>1. call[j].out \in Feed
        BY <1>1, <2>5 DEF HomeCall, Good, Why
      <3>2. /\ told' = told
            /\ home' \in {[home EXCEPT !.busy = FALSE, !.feed = call[j].out, !.review = None],
                          [home EXCEPT !.busy = FALSE, !.feed = call[j].out],
                          [home EXCEPT !.feed = call[j].out]}
            /\ kind # "poll" => home'.busy = FALSE
            /\ kind = "poll" => home' = [home EXCEPT !.feed = call[j].out]
        BY <2>5 DEF HomeAnswered, Answered, HomeTyped
      <3> QED
        BY <2>5, <3>1, <3>2 DEF HomeTyped
    <2>6. CASE kind = "poll" /\ ~Good(j)
      <3>1. home' = home /\ told' = told
        BY <2>6 DEF HomeAnswered, Answered
      <3> QED
        BY <2>6, <3>1 DEF HomeTyped
    <2> QED
      BY <1>1, <2>1, <2>3, <2>4, <2>5, <2>6 DEF HomeKinds
  <1>4. HomeTyped'
    BY <1>1, <1>3 DEF HomeTyped
  <1>5. \A k \in Jobs : HomeCall(k)'
    BY <1>2, <1>3 DEF HomeCall, NoCall, HomeKinds
  <1>6. Claims(HomeClaims, home.busy)'
    BY <1>1, <1>2, <1>3 DEF Claims, NoCall, HomeClaims, HomeKinds
  <1>7. ScansCover'
    <2>1. \A k \in Jobs : Owed(k)' => Owed(k) /\ k # j
      BY <1>2 DEF Owed, NoCall
    <2>2. CASE kind = "confirm"
      <3>1. \A k \in Jobs : call'[k].kind # "confirm"
        BY <1>2, <2>2 DEF Claims, NoCall, HomeClaims, HomeKinds
      <3>2. \A k \in Jobs : ~Owed(k)'
        BY <3>1 DEF Owed
      <3>3. home'.review = "model" /\ ~told' => Owed(j)
        BY <1>1, <1>3, <2>2, CodesAssumption DEF HomeCall, Owed, Good, Why, Reasons, Codes
      <3> QED
        BY <1>1, <1>3, <3>2, <3>3 DEF ScansCover
    <2>3. CASE kind # "confirm"
      <3>1. told' = told
        BY <1>3, <2>3 DEF HomeTyped
      <3>2. \A k \in Jobs : call'[k].kind # "confirm" => call[k].kind # "confirm"
        BY <1>2, <2>3
      <3>3. home'.review = "model" => home.review = "model"
        BY <1>3, CodesAssumption DEF Codes
      <3> QED
        BY <1>1, <2>1, <3>1, <3>2, <3>3 DEF ScansCover
    <2> QED
      BY <2>2, <2>3
  <1> QED
    BY <1>2, <1>4, <1>5, <1>6, <1>7

LEMMA HomeSteps ==
    ASSUME HomeInv, HomeStep
    PROVE  HomeInv'
  BY HomeMoves, HomeLoads, HomePolls, HomeRetries, HomeScans, HomeAnswers, HomeServes
     DEF HomeStep

-------------------------------------------------------------------------------
(* Temporary Storage: a placement carries the operation id of its product  *)
(* scan, from the scan to the last try, and the server takes an id once.   *)

StorageCall(j) ==
    /\ call[j].kind \in {"tsBoard", "tsSection"} => call[j].in \in Letters
    /\ call[j].kind = "tsQuiet" => call[j].in \in Letters \cup {None}
    /\ call[j].kind = "tsScan" => call[j].in \in Scans
    /\ call[j].kind = "tsTarget" => call[j].in \in Pending /\ call[j].in.op = call[j].in.scan
    /\ call[j].kind = "tsPlace" => call[j].in.scan \in Scans /\ call[j].in.op = call[j].in.scan

StorageTyped ==
    /\ storage \in [busy : BOOLEAN, loaded : BOOLEAN, letter : Letters \cup {None},
                    board : Letters \cup {None}, pending : Pending \cup {None},
                    unknown : BOOLEAN, ops : Nat]
    /\ storage.pending # None => storage.pending.op = storage.pending.scan

(* What was not recorded was not stored, what was recorded was stored once. *)
StoredOnce ==
    /\ DOMAIN placed = Scans
    /\ \A n \in Scans : placed[n] = IF n \in done THEN 1 ELSE 0

StorageInv ==
    /\ DOMAIN call = Jobs
    /\ StorageTyped
    /\ \A j \in Jobs : StorageCall(j)
    /\ StoredOnce

LEMMA StorageElsewhere ==
    ASSUME StorageInv, UNCHANGED storageVars, NEW K, Touches(K), K \cap StorageKinds = {}
    PROVE  StorageInv'
  <1>1. UNCHANGED <<storage, placed, done>>
    BY DEF storageVars
  <1>2. \A j \in Jobs : call'[j] = call[j] \/ {call[j].kind, call'[j].kind} \cap StorageKinds = {}
    BY DEF Touches, StorageKinds
  <1>3. \A j \in Jobs : StorageCall(j)'
    BY <1>1, <1>2 DEF StorageInv, StorageCall, StorageKinds
  <1> QED
    BY <1>1, <1>3 DEF StorageInv, StorageTyped, StoredOnce, Touches

(* A request takes its place, the others keep theirs.                      *)
LEMMA StorageCallGoes ==
    ASSUME StorageInv, NEW j \in Jobs, NEW c, call' = [call EXCEPT ![j] = c],
           /\ c.kind \in {"tsBoard", "tsSection"} => c.in \in Letters
           /\ c.kind = "tsQuiet" => c.in \in Letters \cup {None}
           /\ c.kind = "tsScan" => c.in \in Scans
           /\ c.kind = "tsTarget" => c.in \in Pending /\ c.in.op = c.in.scan
           /\ c.kind = "tsPlace" => c.in.scan \in Scans /\ c.in.op = c.in.scan
    PROVE  DOMAIN call' = Jobs /\ \A k \in Jobs : StorageCall(k)'
  <1>1. DOMAIN call' = Jobs /\ call'[j] = c /\ \A k \in Jobs : k # j => call'[k] = call[k]
    BY CallKinds DEF StorageInv
  <1> QED
    BY <1>1 DEF StorageInv, StorageCall

LEMMA StorageAsks ==
    ASSUME StorageInv, NEW j \in Jobs,
           \/ RefreshStorage(j) \/ GoHome(j) \/ ScanProduct(j) \/ ScanContainer(j)
           \/ SendToReview(j) \/ \E letter \in Letters : OpenSection(j, letter)
    PROVE  StorageInv'
  <1> USE DEF StorageInv
  <1>1. UNCHANGED <<placed, done>>
    BY DEF RefreshStorage, GoHome, ScanProduct, ScanContainer, SendToReview, OpenSection
  <1>2. StorageTyped'
    <2>1. CASE RefreshStorage(j) \/ SendToReview(j) \/ ScanContainer(j)
      <3>1. storage' = [storage EXCEPT !.busy = TRUE]
        BY <2>1 DEF RefreshStorage, SendToReview, ScanContainer, Busy
      <3> QED
        BY <3>1 DEF StorageTyped
    <2>2. CASE GoHome(j)
      <3>1. PICK b \in BOOLEAN :
              storage' = [storage EXCEPT !.letter = None, !.board = None, !.pending = None,
                                         !.unknown = FALSE, !.busy = b]
        BY <2>2 DEF GoHome, Busy, StorageTyped
      <3> QED
        BY <3>1 DEF StorageTyped
    <2>3. CASE ScanProduct(j)
      <3>1. storage' = [storage EXCEPT !.busy = TRUE, !.ops = @ + 1]
        BY <2>3 DEF ScanProduct, Busy
      <3>2. storage.ops + 1 \in Nat
        BY DEF StorageTyped
      <3> DEFINE n == storage.ops + 1
      <3>3. storage' = [storage EXCEPT !.busy = TRUE, !.ops = n] /\ n \in Nat
        BY <3>1, <3>2
      <3> HIDE DEF n
      <3> QED
        BY <3>3 DEF StorageTyped
    <2>4. ASSUME NEW letter \in Letters, OpenSection(j, letter) PROVE StorageTyped'
      <3>1. storage' = [storage EXCEPT !.busy = TRUE, !.letter = letter, !.pending = None,
                                       !.unknown = FALSE]
        BY <2>4 DEF OpenSection, Busy
      <3> QED
        BY <3>1 DEF StorageTyped
    <2> QED
      BY <2>1, <2>2, <2>3, <2>4
  <1>3. DOMAIN call' = Jobs /\ \A k \in Jobs : StorageCall(k)'
    <2>1. CASE RefreshStorage(j) \/ SendToReview(j) \/ GoHome(j)
      <3>1. \/ UNCHANGED call
            \/ \E kind \in {"tsHome", "tsReview"} : call' = [call EXCEPT ![j] = Sent(kind, None)]
        BY <2>1 DEF RefreshStorage, SendToReview, GoHome, Calls
      <3> QED
        BY <3>1, StorageCallGoes DEF Sent, StorageCall
    <2>2. CASE ScanProduct(j)
      <3>1. call' = [call EXCEPT ![j] = Sent("tsScan", storage.ops + 1)]
        BY <2>2 DEF ScanProduct, Calls
      <3>2. storage.ops + 1 \in Scans
        BY <2>2, LanesAssumption DEF ScanProduct, StorageTyped, Scans
      <3> QED
        BY <3>1, <3>2, StorageCallGoes DEF Sent
    <2>3. CASE ScanContainer(j)
      <3> DEFINE p == storage.pending
      <3>1. call' = [call EXCEPT ![j] = Sent("tsPlace", [scan |-> p.scan, op |-> p.op])]
            /\ p # None
        BY <2>3 DEF ScanContainer, Calls, Operation
      <3>2. p.scan \in Scans /\ p.op = p.scan
        BY <3>1 DEF StorageTyped, Pending
      <3> HIDE DEF p
      <3> QED
        BY <3>1, <3>2, StorageCallGoes DEF Sent
    <2>4. ASSUME NEW letter \in Letters, OpenSection(j, letter)
          PROVE  DOMAIN call' = Jobs /\ \A k \in Jobs : StorageCall(k)'
      <3>1. call' = [call EXCEPT ![j] = Sent("tsSection", letter)]
        BY <2>4 DEF OpenSection, Calls
      <3> QED
        BY <3>1, StorageCallGoes DEF Sent
    <2> QED
      BY <2>1, <2>2, <2>3, <2>4
  <1> QED
    BY <1>1, <1>2, <1>3 DEF StoredOnce

LEMMA StorageClears ==
    ASSUME StorageInv, ClearPending
    PROVE  StorageInv'
  <1>1. UNCHANGED <<call, placed, done>>
        /\ storage' \in {[storage EXCEPT !.pending = None], [storage EXCEPT !.unknown = FALSE]}
    BY DEF ClearPending
  <1>2. StorageTyped'
    BY <1>1 DEF StorageInv, StorageTyped
  <1> QED
    BY <1>1, <1>2 DEF StorageInv, StorageCall, StoredOnce

LEMMA StorageAnswers ==
    ASSUME StorageInv, NEW j \in Jobs, StorageAnswered(j)
    PROVE  StorageInv'
  <1> USE DEF StorageInv
  <1> DEFINE Goes(c) == call' = [call EXCEPT ![j] = c]
             In == call[j].in
  <1>1. UNCHANGED <<placed, done>>
    BY DEF StorageAnswered
  <1>2. StorageCall(j)
    OBVIOUS
  <1>3. ASSUME Ended(j) PROVE DOMAIN call' = Jobs /\ \A k \in Jobs : StorageCall(k)'
    BY <1>3, StorageCallGoes DEF Ended, NoCall
  <1>4. CASE BoardAnswered(j)
    <2>1. StorageTyped'
      <3>1. call[j].kind \in {"tsBoard", "tsSection"} => In \in Letters
        BY <1>2 DEF StorageCall
      <3>2. call[j].kind = "tsQuiet" => In \in Letters \cup {None}
        BY <1>2 DEF StorageCall
      <3>3. \E b \in BOOLEAN, d \in BOOLEAN, l \in Letters \cup {None} :
                storage' = [storage EXCEPT !.busy = b, !.loaded = d, !.board = l]
        <4>1. storage = [storage EXCEPT !.busy = storage.busy, !.loaded = storage.loaded,
                                        !.board = storage.board]
              /\ storage.busy \in BOOLEAN /\ storage.loaded \in BOOLEAN
              /\ storage.board \in Letters \cup {None}
          BY DEF StorageTyped
        <4>2. CASE Answered(j, "tsHome") /\ UNCHANGED storage
          BY <4>1, <4>2
        <4>3. CASE storage' = [Rests(storage) EXCEPT !.loaded = Good(j)]
          <5>1. storage' = [storage EXCEPT !.busy = FALSE, !.loaded = Good(j), !.board = storage.board]
            BY <4>1, <4>3 DEF Rests, StorageTyped
          <5> QED
            BY <4>1, <5>1 DEF Good
        <4>4. CASE Answered(j, "tsBoard")
                   /\ storage' = [Rests(storage) EXCEPT !.loaded = TRUE,
                                       !.board = IF Good(j) THEN In ELSE None]
          <5>1. (IF Good(j) THEN In ELSE None) \in Letters \cup {None}
            BY <3>1, <4>4 DEF Answered
          <5> QED
            BY <4>4, <5>1 DEF Rests
        <4>5. CASE Answered(j, "tsSection")
                   /\ storage' = IF Good(j) THEN [Rests(storage) EXCEPT !.loaded = TRUE, !.board = In]
                                 ELSE Rests(storage)
          <5>1. storage' \in {[storage EXCEPT !.busy = FALSE, !.loaded = TRUE, !.board = In],
                              [storage EXCEPT !.busy = FALSE, !.loaded = storage.loaded,
                                              !.board = storage.board]}
            BY <4>1, <4>5 DEF Rests, StorageTyped
          <5>2. In \in Letters
            BY <3>1, <4>5 DEF Answered
          <5> QED
            BY <4>1, <5>1, <5>2
        <4>6. CASE Answered(j, "tsQuiet")
                   /\ storage' = IF Good(j) /\ In # None THEN [storage EXCEPT !.board = In]
                                 ELSE storage
          <5>1. storage' \in {storage, [storage EXCEPT !.busy = storage.busy,
                                              !.loaded = storage.loaded, !.board = In]}
            BY <4>1, <4>6 DEF StorageTyped
          <5>2. In \in Letters \cup {None}
            BY <3>2, <4>6 DEF Answered
          <5> QED
            BY <4>1, <5>1, <5>2
        <4> QED
          BY <1>4, <4>2, <4>3, <4>4, <4>5, <4>6 DEF BoardAnswered
      <3> QED
        BY <3>3 DEF StorageTyped
    <2>2. Ended(j) \/ (storage.letter # None /\ Goes(Sent("tsBoard", storage.letter)))
      BY <1>4 DEF BoardAnswered, Continues
    <2>3. ASSUME storage.letter # None, Goes(Sent("tsBoard", storage.letter))
          PROVE  DOMAIN call' = Jobs /\ \A k \in Jobs : StorageCall(k)'
      <3>1. storage.letter \in Letters
        BY <2>3 DEF StorageTyped
      <3> QED
        BY <2>3, <3>1, StorageCallGoes DEF Sent
    <2> QED
      BY <1>1, <1>3, <2>1, <2>2, <2>3 DEF StoredOnce
  <1>5. CASE ProductAnswered(j)
    <2>1. CASE /\ Answered(j, "tsScan") /\ call[j].out \in Letters /\ UNCHANGED storage
               /\ Goes(Sent("tsTarget", [scan |-> In, op |-> In, section |-> call[j].out]))
      <3> DEFINE p == [scan |-> In, op |-> In, section |-> call[j].out]
      <3>1. In \in Scans /\ In \in Nat
        BY <1>2, <2>1, LanesAssumption DEF StorageCall, Answered, Scans
      <3>2. p \in Pending /\ p.op = p.scan
        BY <2>1, <3>1 DEF Pending
      <3> HIDE DEF p
      <3>3. DOMAIN call' = Jobs /\ \A k \in Jobs : StorageCall(k)'
        BY <2>1, <3>2, StorageCallGoes DEF Sent, p
      <3> QED
        BY <1>1, <2>1, <3>3 DEF StorageTyped, StoredOnce
    <2>2. CASE /\ Ended(j)
               /\ storage' = [Rests(storage) EXCEPT !.unknown =
                                  @ \/ (Good(j) /\ call[j].out = "unknown")]
      <3>1. StorageTyped'
        BY <2>2 DEF Rests, StorageTyped
      <3> QED
        BY <1>1, <1>3, <2>2, <3>1 DEF StoredOnce
    <2>3. CASE /\ Answered(j, "tsTarget") /\ Ended(j)
               /\ storage' = [Rests(storage) EXCEPT !.letter = In.section, !.unknown = FALSE,
                                   !.board = IF Good(j) THEN In.section ELSE @, !.pending = In]
      <3>1. In \in Pending /\ In.op = In.scan /\ In.section \in Letters
        BY <1>2, <2>3 DEF StorageCall, Answered, Pending
      <3>2. StorageTyped'
        BY <2>3, <3>1 DEF Rests, StorageTyped
      <3> QED
        BY <1>1, <1>3, <2>3, <3>2 DEF StoredOnce
    <2> QED
      BY <1>5, <2>1, <2>2, <2>3 DEF ProductAnswered, Continues
  <1>6. CASE PlaceAnswered(j)
    <2>1. StorageTyped'
      <3>1. \/ storage' = [Rests(storage) EXCEPT !.pending = None]
            \/ storage' = Rests(storage)
            \/ storage' = [Rests(storage) EXCEPT !.unknown = @ /\ ~Good(j)]
        BY <1>6 DEF PlaceAnswered
      <3> QED
        BY <3>1 DEF Rests, StorageTyped
    <2>2. Ended(j) \/ Goes(Sent("tsQuiet", storage.letter))
      BY <1>6 DEF PlaceAnswered, Continues
    <2>3. storage.letter \in Letters \cup {None}
      BY DEF StorageTyped
    <2>4. DOMAIN call' = Jobs /\ \A k \in Jobs : StorageCall(k)'
      BY <1>3, <2>2, <2>3, StorageCallGoes DEF Sent
    <2> QED
      BY <1>1, <2>1, <2>4 DEF StoredOnce
  <1> QED
    BY <1>4, <1>5, <1>6 DEF StorageAnswered

(* The server stores what it has not recorded, and records what it stores. *)
LEMMA StorageServes ==
    ASSUME StorageInv, NEW j \in Jobs, ServeStorage(j) \/ NotServed(j)
    PROVE  StorageInv'
  <1> USE DEF StorageInv
  <1>1. UNCHANGED storage
    BY DEF ServeStorage, NotServed, storageVars
  <1>2. PICK why, out : Arrives(j, why, out)
    BY DEF ServeStorage, NotServed, Served
  <1>3. /\ DOMAIN call' = Jobs /\ \A k \in Jobs : k # j => call'[k] = call[k]
        /\ call'[j].kind = call[j].kind /\ call'[j].in = call[j].in
    BY <1>2, CallKinds DEF Arrives
  <1>4. \A k \in Jobs : StorageCall(k)'
    BY <1>3 DEF StorageCall
  <1>5. CASE UNCHANGED <<placed, done>>
    BY <1>1, <1>3, <1>4, <1>5 DEF StorageTyped, StoredOnce
  <1>6. CASE /\ Asked(j, "tsPlace") /\ call[j].in.op \notin done
             /\ done' = done \cup {call[j].in.op}
             /\ placed' = [placed EXCEPT ![call[j].in.scan] = @ + 1]
    <2>1. call[j].in.scan \in Scans /\ call[j].in.op = call[j].in.scan
      BY <1>6 DEF Asked, StorageCall
    <2>2. StoredOnce'
      BY <1>6, <2>1 DEF StoredOnce
    <2> QED
      BY <1>1, <1>3, <1>4, <2>2 DEF StorageTyped
  <1> QED
    BY <1>5, <1>6 DEF ServeStorage, NotServed, storageVars

LEMMA StorageSteps ==
    ASSUME StorageInv, StorageStep
    PROVE  StorageInv'
  BY StorageAsks, StorageClears, StorageAnswers, StorageServes DEF StorageStep

-------------------------------------------------------------------------------
(* Batch build                                                             *)

BuildTyped ==
    /\ build \in [busy : BOOLEAN, batch : Batches \cup {None}, rows : SUBSET Units,
                  submitted : BOOLEAN, expired : BOOLEAN]
    /\ batches \in [Batches -> [status : {"none", "CREATED", "SUBMITTED"}, items : SUBSET Units]]
    /\ \A b \in Batches : batches[b].status = "none" => batches[b].items = {}

(* What an answer brings was so at the server, and is so from then on: a   *)
(* batch never loses a unit.  A unit is added to the batch that is shown,  *)
(* or that batch has been left and none is shown.                          *)
BuildCall(j) ==
    LET c == call[j]
        good == c.at = "answered" /\ c.why = "ok" IN
    /\ c.kind = "create" /\ good =>
          c.out.batch \in Batches /\ c.out.rows \subseteq batches[c.out.batch].items
    /\ c.kind \in {"detail", "add", "submit"} => c.in \in Batches
    /\ c.kind = "detail" /\ good => c.out \subseteq batches[c.in].items
    /\ c.kind = "add" => build.batch \in {None, c.in}
    /\ c.kind = "add" /\ good => c.out \in batches[c.in].items

RowsAreItems == build.batch # None => build.rows \subseteq batches[build.batch].items

BuildInv ==
    /\ DOMAIN call = Jobs
    /\ BuildTyped
    /\ \A j \in Jobs : BuildCall(j)
    /\ Claims(BuildKinds, build.busy)
    /\ RowsAreItems

LEMMA BuildElsewhere ==
    ASSUME BuildInv, UNCHANGED buildVars, NEW K, Touches(K), K \cap BuildKinds = {}
    PROVE  BuildInv'
  <1>1. UNCHANGED <<build, batches>>
    BY DEF buildVars
  <1>2. \A j \in Jobs : call'[j] = call[j] \/ {call[j].kind, call'[j].kind} \cap BuildKinds = {}
    BY DEF Touches, BuildKinds
  <1>3. \A j \in Jobs : BuildCall(j)'
    BY <1>1, <1>2 DEF BuildInv, BuildCall, BuildKinds
  <1>4. Claims(BuildKinds, build.busy)'
    BY <1>1, <1>2 DEF BuildInv, Claims
  <1> QED
    BY <1>1, <1>3, <1>4 DEF BuildInv, BuildTyped, RowsAreItems, Touches

(* A free screen asks: nothing is shown differently, or nothing is shown.  *)
LEMMA BuildAsksStand ==
    ASSUME BuildInv, NEW j \in Jobs, NEW kind \in BuildKinds, NEW in,
           ~build.busy, UNCHANGED batches, call' = [call EXCEPT ![j] = Sent(kind, in)],
           \/ build' = [build EXCEPT !.busy = TRUE]
           \/ build' = [build EXCEPT !.busy = TRUE, !.batch = None, !.rows = {}],
           kind \in {"detail", "add", "submit"} => in \in Batches,
           kind = "add" => build'.batch \in {None, in}
    PROVE  BuildInv'
  <1> USE DEF BuildInv
  <1>1. BuildTyped' /\ RowsAreItems' /\ build'.busy
    BY DEF BuildTyped, RowsAreItems
  <1>2. /\ Claims(BuildKinds, TRUE)'
        /\ \A k \in Jobs : k # j => call'[k] = call[k] /\ call[k].kind \notin BuildKinds
    <2>1. "none" \notin BuildKinds
      BY DEF BuildKinds
    <2> QED
      BY <2>1, OpenedClaims DEF Claims
  <1>3. DOMAIN call' = Jobs /\ call'[j] = Sent(kind, in)
    BY CallKinds
  <1>4. \A k \in Jobs : BuildCall(k)'
    <2>1. BuildCall(j)'
      BY <1>3 DEF BuildCall, Sent
    <2>2. ASSUME NEW k \in Jobs, k # j PROVE BuildCall(k)'
      BY <1>2, <2>2 DEF BuildCall, BuildKinds
    <2> QED
      BY <2>1, <2>2
  <1> QED
    BY <1>1, <1>2, <1>3, <1>4 DEF Claims

LEMMA BuildAsks ==
    ASSUME BuildInv, NEW j \in Jobs,
           \/ \E first \in BOOLEAN : CreateBatch(j, first)
           \/ \E b \in Batches : ContinueBatch(j, b)
           \/ AddUnit(j) \/ SubmitBatch(j) \/ LeaveBatch(j)
    PROVE  BuildInv'
  <1> USE DEF BuildInv
  <1>1. ASSUME NEW first \in BOOLEAN, CreateBatch(j, first) PROVE BuildInv'
    BY <1>1, BuildAsksStand DEF CreateBatch, Calls, Busy, BuildKinds
  <1>2. ASSUME NEW b \in Batches, ContinueBatch(j, b) PROVE BuildInv'
    BY <1>2, BuildAsksStand DEF ContinueBatch, Calls, Busy, BuildKinds
  <1>3. ASSUME AddUnit(j) \/ SubmitBatch(j) PROVE BuildInv'
    <2>1. build.batch \in Batches
      BY <1>3 DEF AddUnit, SubmitBatch, BuildTyped
    <2>2. PICK kind \in {"add", "submit"} :
            /\ call' = [call EXCEPT ![j] = Sent(kind, build.batch)]
            /\ build' = [build EXCEPT !.busy = TRUE] /\ ~build.busy /\ UNCHANGED batches
      BY <1>3 DEF AddUnit, SubmitBatch, Calls, Busy
    <2>3. build'.batch = build.batch
      BY <2>2 DEF BuildTyped
    <2> QED
      BY <2>1, <2>2, <2>3, BuildAsksStand DEF BuildKinds
  <1>4. ASSUME LeaveBatch(j) PROVE BuildInv'
    <2>1. CASE ~build.busy
      <3>1. /\ build' = Busy([build EXCEPT !.batch = None, !.rows = {}])
            /\ call' = [call EXCEPT ![j] = Sent("open", None)] /\ UNCHANGED batches
        BY <1>4, <2>1 DEF LeaveBatch, Left, Calls
      <3>2. build' = [build EXCEPT !.busy = TRUE, !.batch = None, !.rows = {}]
        BY <3>1 DEF Busy, BuildTyped
      <3> QED
        BY <2>1, <3>1, <3>2, BuildAsksStand DEF BuildKinds
    <2>2. CASE build.busy
      <3>1. build' = [build EXCEPT !.batch = None, !.rows = {}] /\ UNCHANGED <<call, batches>>
        BY <1>4, <2>2 DEF LeaveBatch, Left
      <3>2. BuildTyped' /\ RowsAreItems' /\ build'.busy = build.busy /\ build'.batch = None
        BY <3>1 DEF BuildTyped, RowsAreItems
      <3>3. \A k \in Jobs : BuildCall(k)'
        BY <3>1, <3>2 DEF BuildCall
      <3>4. Claims(BuildKinds, build.busy)'
        BY <3>1, <3>2 DEF Claims
      <3> QED
        BY <3>1, <3>2, <3>3, <3>4
    <2> QED
      BY <2>1, <2>2
  <1> QED
    BY <1>1, <1>2, <1>3, <1>4

(* The server's batches only grow.                                         *)
Grew == \A b \in Batches : batches[b].items \subseteq batches'[b].items

LEMMA BuildServes ==
    ASSUME BuildInv, NEW j \in Jobs, ServeBuild(j)
    PROVE  BuildInv'
  <1> USE DEF BuildInv
  <1> DEFINE In == call[j].in
  <1>1. build' = build /\ call[j].at = "sent" /\ call[j].kind \in BuildKinds
    BY DEF ServeBuild, Asked, BuildKinds
  <1>2. \E why \in {"ok", "lost"} : \E out :
          /\ Arrives(j, why, out)
          /\ BuildTyped' /\ Grew
          /\ call[j].kind = "create" =>
                out.batch \in Batches /\ out.rows \subseteq batches'[out.batch].items
          /\ call[j].kind = "detail" => out \subseteq batches'[In].items
          /\ call[j].kind = "add" => out \in batches'[In].items
    <2>1. CASE Asked(j, "open")
      <3>1. Arrives(j, "ok", None) /\ UNCHANGED batches
        BY <2>1 DEF ServeBuild, Asked
      <3> QED
        BY <1>1, <2>1, <3>1 DEF Asked, BuildTyped, Grew
    <2>2. CASE Asked(j, "create")
      <3>1. PICK b \in Batches, units \in SUBSET Units :
              /\ batches[b].status = "none"
              /\ batches' = [batches EXCEPT ![b] = [status |-> "CREATED", items |-> units]]
              /\ Served(j, [batch |-> b, rows |-> units])
        BY <2>2 DEF ServeBuild, Asked
      <3>2. BuildTyped' /\ Grew /\ batches'[b].items = units
        BY <1>1, <3>1 DEF BuildTyped, Grew
      <3> DEFINE out == [batch |-> b, rows |-> units]
      <3>3. PICK why \in {"ok", "lost"} : Arrives(j, why, out)
        BY <3>1 DEF Served
      <3>4. out.batch = b /\ out.rows = units
        OBVIOUS
      <3> HIDE DEF out
      <3> QED
        BY <2>2, <3>2, <3>3, <3>4 DEF Asked
    <2>3. CASE Asked(j, "detail")
      <3>1. Arrives(j, "ok", batches[In].items) /\ UNCHANGED batches
        BY <2>3 DEF ServeBuild, Asked
      <3> QED
        BY <1>1, <2>3, <3>1 DEF Asked, BuildTyped, Grew
    <2>4. CASE Asked(j, "add")
      <3>1. PICK u \in Units :
              /\ batches[In].status = "CREATED"
              /\ batches' = [batches EXCEPT ![In].items = @ \cup {u}]
              /\ Served(j, u)
        BY <2>4 DEF ServeBuild, Asked
      <3>2. In \in Batches
        BY <2>4 DEF Asked, BuildCall
      <3>3. BuildTyped' /\ Grew /\ u \in batches'[In].items
        BY <1>1, <3>1, <3>2 DEF BuildTyped, Grew
      <3>4. PICK why \in {"ok", "lost"} : Arrives(j, why, u)
        BY <3>1 DEF Served
      <3> QED
        BY <2>4, <3>3, <3>4 DEF Asked
    <2>5. CASE Asked(j, "submit")
      <3>1. /\ batches' = [batches EXCEPT ![In].status = "SUBMITTED"]
            /\ batches[In].status = "CREATED" /\ Served(j, None)
        BY <2>5 DEF ServeBuild, Asked
      <3>2. In \in Batches
        BY <2>5 DEF Asked, BuildCall
      <3>3. BuildTyped' /\ Grew
        BY <1>1, <3>1, <3>2 DEF BuildTyped, Grew
      <3>4. PICK why \in {"ok", "lost"} : Arrives(j, why, None)
        BY <3>1 DEF Served
      <3> QED
        BY <2>5, <3>3, <3>4 DEF Asked
    <2> QED
      BY <2>1, <2>2, <2>3, <2>4, <2>5 DEF ServeBuild
  <1>3. PICK why, out :
          /\ why \in {"ok", "lost"}
          /\ Arrives(j, why, out)
          /\ BuildTyped' /\ Grew
          /\ call[j].kind = "create" =>
                out.batch \in Batches /\ out.rows \subseteq batches'[out.batch].items
          /\ call[j].kind = "detail" => out \subseteq batches'[In].items
          /\ call[j].kind = "add" => out \in batches'[In].items
    BY <1>2
  <1>4. /\ DOMAIN call' = Jobs /\ \A k \in Jobs : k # j => call'[k] = call[k]
        /\ call'[j] = [kind |-> call[j].kind, at |-> "answered", in |-> call[j].in,
                       why |-> why, out |-> out]
    BY <1>3, CallKinds DEF Arrives
  <1>5. \A k \in Jobs : BuildCall(k)'
    <2>1. BuildCall(j)'
      BY <1>1, <1>3, <1>4 DEF BuildCall
    <2>2. ASSUME NEW k \in Jobs, k # j PROVE BuildCall(k)'
      BY <1>1, <1>3, <1>4, <2>2 DEF BuildCall, Grew
    <2> QED
      BY <2>1, <2>2
  <1>6. Claims(BuildKinds, build.busy)'
    BY <1>1, <1>4 DEF Claims
  <1>7. RowsAreItems'
    BY <1>1, <1>3 DEF RowsAreItems, BuildTyped, Grew
  <1> QED
    BY <1>3, <1>4, <1>5, <1>6, <1>7

LEMMA BuildNotServed ==
    ASSUME BuildInv, NEW j \in Jobs, NotServed(j)
    PROVE  BuildInv'
  <1> USE DEF BuildInv
  <1>1. UNCHANGED <<build, batches>>
    BY DEF NotServed, buildVars
  <1>2. PICK why \in Reasons \ {"ok"} : Arrives(j, why, None) /\ call[j].at = "sent"
    BY DEF NotServed, Reasons
  <1>3. /\ DOMAIN call' = Jobs /\ \A k \in Jobs : k # j => call'[k] = call[k]
        /\ call'[j] = [kind |-> call[j].kind, at |-> "answered", in |-> call[j].in,
                       why |-> why, out |-> None]
    BY <1>2, CallKinds DEF Arrives
  <1>4. \A k \in Jobs : BuildCall(k)'
    BY <1>1, <1>2, <1>3 DEF BuildCall
  <1>5. Claims(BuildKinds, build.busy)'
    BY <1>1, <1>3 DEF Claims
  <1> QED
    BY <1>1, <1>3, <1>4, <1>5 DEF BuildTyped, RowsAreItems

(* An answer frees the screen, or is followed by the list.                 *)
LEMMA BuildAnswers ==
    ASSUME BuildInv, NEW j \in Jobs, BuildAnswered(j)
    PROVE  BuildInv'
  <1> USE DEF BuildInv
  <1> DEFINE In == call[j].in
             Out == call[j].out
  <1>1. UNCHANGED batches /\ call[j].kind \in BuildKinds /\ call[j].at = "answered" /\ BuildCall(j)
    BY DEF BuildAnswered, Answered, BuildKinds
  <1>2. \A k \in Jobs : k # j => call[k].kind \notin BuildKinds
    BY <1>1 DEF Claims
  <1>3. /\ BuildTyped' /\ RowsAreItems'
        /\ \/ call' = [call EXCEPT ![j] = NoCall]
           \/ build'.busy /\ call' = [call EXCEPT ![j] = Sent("open", None)]
    <2>1. CASE Answered(j, "open")
      <3>1. build' = [Rests(build) EXCEPT !.expired = (Why(j) = "401")]
            /\ call' = [call EXCEPT ![j] = NoCall]
        BY <2>1 DEF BuildAnswered, Answered, Ended
      <3> QED
        BY <1>1, <3>1 DEF BuildTyped, RowsAreItems, Rests
    <2>2. CASE Answered(j, "create") /\ Good(j)
      <3>1. build' = [Rests(build) EXCEPT !.batch = Out.batch, !.rows = Out.rows,
                                          !.submitted = FALSE]
            /\ call' = [call EXCEPT ![j] = NoCall]
        BY <2>2 DEF BuildAnswered, Answered, Ended
      <3>2. Out.batch \in Batches /\ Out.rows \subseteq batches[Out.batch].items
        BY <1>1, <2>2 DEF BuildCall, Answered, Good, Why
      <3>3. Out.rows \in SUBSET Units
        BY <3>2 DEF BuildTyped
      <3> QED
        BY <1>1, <3>1, <3>2, <3>3 DEF BuildTyped, RowsAreItems, Rests
    <2>3. CASE Answered(j, "detail") /\ Good(j)
      <3>1. build' = [Rests(build) EXCEPT !.batch = In, !.rows = Out, !.submitted = FALSE]
            /\ call' = [call EXCEPT ![j] = NoCall]
        BY <2>3 DEF BuildAnswered, Answered, Ended
      <3>2. In \in Batches /\ Out \subseteq batches[In].items
        BY <1>1, <2>3 DEF BuildCall, Answered, Good, Why
      <3>3. Out \in SUBSET Units
        BY <3>2 DEF BuildTyped
      <3> QED
        BY <1>1, <3>1, <3>2, <3>3 DEF BuildTyped, RowsAreItems, Rests
    <2>4. CASE Answered(j, "add") /\ Good(j)
      <3>1. build' = [Rests(build) EXCEPT !.rows = @ \cup {Out}]
            /\ call' = [call EXCEPT ![j] = NoCall]
        BY <2>4 DEF BuildAnswered, Answered, Ended
      <3>2. In \in Batches /\ build.batch \in {None, In} /\ Out \in batches[In].items
        BY <1>1, <2>4 DEF BuildCall, Answered, Good, Why
      <3>3. Out \in Units
        BY <3>2 DEF BuildTyped
      <3> QED
        BY <1>1, <3>1, <3>2, <3>3 DEF BuildTyped, RowsAreItems, Rests
    <2>5. CASE Answered(j, "submit") /\ Good(j)
      <3>1. build' = [build EXCEPT !.batch = None, !.rows = {}, !.submitted = TRUE]
            /\ call' = [call EXCEPT ![j] = Sent("open", None)]
        BY <2>5 DEF BuildAnswered, Answered, Continues
      <3>2. build.busy
        BY <1>1 DEF Claims
      <3> QED
        BY <1>1, <3>1, <3>2 DEF BuildTyped, RowsAreItems
    <2>6. CASE ~Good(j) /\ ~Answered(j, "open")
      <3>1. build' = [Rests(build) EXCEPT !.expired = @ \/ Why(j) = "401"]
            /\ call' = [call EXCEPT ![j] = NoCall]
        BY <2>6 DEF BuildAnswered, Answered, Ended
      <3> QED
        BY <1>1, <3>1 DEF BuildTyped, RowsAreItems, Rests
    <2> QED
      BY <1>1, <2>1, <2>2, <2>3, <2>4, <2>5, <2>6 DEF Answered, BuildKinds
  <1>4. PICK c \in {NoCall, Sent("open", None)} :
          /\ call' = [call EXCEPT ![j] = c]
          /\ c.kind \in BuildKinds => build'.busy
    BY <1>3 DEF NoCall, BuildKinds
  <1>5. /\ DOMAIN call' = Jobs /\ call'[j] = c /\ c.kind \in {"none", "open"}
        /\ \A k \in Jobs : k # j => call'[k] = call[k] /\ call[k].kind \notin BuildKinds
    BY <1>2, <1>4, CallKinds DEF NoCall, Sent
  <1>6. \A k \in Jobs : BuildCall(k)'
    BY <1>5 DEF BuildCall, BuildKinds
  <1>7. Claims(BuildKinds, build.busy)'
    BY <1>4, <1>5 DEF Claims
  <1> QED
    BY <1>3, <1>5, <1>6, <1>7

LEMMA BuildSteps ==
    ASSUME BuildInv, BuildStep
    PROVE  BuildInv'
  BY BuildAsks, BuildAnswers, BuildServes DEF BuildStep

-------------------------------------------------------------------------------
(* Batch receive                                                           *)

CountOf(b) == Cardinality(got[b].units)

IntakeTyped ==
    /\ intake \in [busy : BOOLEAN, batch : Batches \cup {None}, expected : Nat,
                   scanned : Nat, completed : BOOLEAN, expired : BOOLEAN]
    /\ got \in [Batches -> [status : {"SENT", "OPEN", "COMPLETED"}, units : SUBSET (1 .. Total)]]

(* The count an answer brings was the one of its batch, and units are only *)
(* added to a batch.  A unit is received into the batch that is shown, or  *)
(* that batch has been left and none is shown.                             *)
IntakeCall(j) ==
    LET c == call[j]
        good == c.at = "answered" /\ c.why = "ok" IN
    /\ c.kind \in {"start", "complete"} => c.in \in Batches
    /\ c.kind = "receive" =>
          /\ c.in.batch \in Batches /\ c.in.unit \in 1 .. Total
          /\ intake.batch \in {None, c.in.batch}
    /\ c.kind = "start" /\ good => c.out \in Nat /\ c.out <= CountOf(c.in)
    /\ c.kind = "receive" /\ good => c.out \in Nat /\ c.out <= CountOf(c.in.batch)

CountShown == intake.batch # None => intake.scanned <= CountOf(intake.batch)

IntakeInv ==
    /\ DOMAIN call = Jobs
    /\ IntakeTyped
    /\ \A j \in Jobs : IntakeCall(j)
    /\ Claims(IntakeKinds, intake.busy)
    /\ CountShown

LEMMA IntakeElsewhere ==
    ASSUME IntakeInv, UNCHANGED intakeVars, NEW K, Touches(K), K \cap IntakeKinds = {}
    PROVE  IntakeInv'
  <1>1. UNCHANGED <<intake, got>>
    BY DEF intakeVars
  <1>2. \A j \in Jobs : call'[j] = call[j] \/ {call[j].kind, call'[j].kind} \cap IntakeKinds = {}
    BY DEF Touches, IntakeKinds
  <1>3. \A b : CountOf(b)' = CountOf(b)
    BY <1>1 DEF CountOf
  <1>4. \A j \in Jobs : IntakeCall(j)'
    BY <1>1, <1>2, <1>3 DEF IntakeInv, IntakeCall, IntakeKinds
  <1>5. Claims(IntakeKinds, intake.busy)'
    BY <1>1, <1>2 DEF IntakeInv, Claims
  <1> QED
    BY <1>1, <1>3, <1>4, <1>5 DEF IntakeInv, IntakeTyped, CountShown, Touches

(* The units of a batch are finitely many, and more of them count more.    *)
LEMMA UnitsCount ==
    ASSUME NEW S \in SUBSET (1 .. Total), NEW R \in SUBSET S
    PROVE  Cardinality(R) \in Nat /\ Cardinality(S) \in Nat /\ Cardinality(R) <= Cardinality(S)
  <1>1. IsFiniteSet(1 .. Total)
    <2>1. 1 \in Int /\ Total \in Int
      BY DEF Total
    <2> QED
      BY <2>1, FS_Interval
  <1>2. IsFiniteSet(S)
    BY <1>1, FS_Subset
  <1>3. IsFiniteSet(R) /\ Cardinality(R) <= Cardinality(S)
    BY <1>2, FS_Subset
  <1> QED
    BY <1>2, <1>3, FS_CardinalityType

GotMore == \A b \in Batches : got[b].units \subseteq got'[b].units

LEMMA CountsGrow ==
    ASSUME IntakeTyped, IntakeTyped', GotMore, NEW b \in Batches
    PROVE  CountOf(b) \in Nat /\ CountOf(b)' \in Nat /\ CountOf(b) <= CountOf(b)'
  <1>1. got'[b].units \in SUBSET (1 .. Total) /\ got[b].units \in SUBSET got'[b].units
    BY DEF IntakeTyped, GotMore
  <1> QED
    BY <1>1, UnitsCount DEF CountOf

(* What is known of a request stays true while units are added.            *)
LEMMA CallsKeepCounts ==
    ASSUME IntakeInv, IntakeTyped', GotMore, intake' = intake,
           NEW k \in Jobs, call'[k] = call[k]
    PROVE  IntakeCall(k)'
  <1>1. \A b \in Batches : /\ CountOf(b) \in Nat /\ CountOf(b)' \in Nat
                           /\ CountOf(b) <= CountOf(b)'
    BY CountsGrow DEF IntakeInv
  <1>2. \A n \in Nat, b \in Batches : n <= CountOf(b) => n <= CountOf(b)'
    BY <1>1
  <1> QED
    BY <1>2 DEF IntakeInv, IntakeCall

LEMMA ShownKeepsCount ==
    ASSUME IntakeInv, IntakeTyped', GotMore, intake' = intake
    PROVE  CountShown'
  <1>1. \A b \in Batches : /\ CountOf(b) \in Nat /\ CountOf(b)' \in Nat
                           /\ CountOf(b) <= CountOf(b)'
    BY CountsGrow DEF IntakeInv
  <1>2. \A n \in Nat, b \in Batches : n <= CountOf(b) => n <= CountOf(b)'
    BY <1>1
  <1>3. intake.batch \in Batches \cup {None} /\ intake.scanned \in Nat
    BY DEF IntakeInv, IntakeTyped
  <1> QED
    BY <1>2, <1>3 DEF IntakeInv, CountShown

(* A free screen asks: nothing is shown differently, or nothing is shown.  *)
LEMMA IntakeAsksStand ==
    ASSUME IntakeInv, NEW j \in Jobs, NEW kind \in IntakeKinds, NEW in,
           ~intake.busy, UNCHANGED got, call' = [call EXCEPT ![j] = Sent(kind, in)],
           IntakeTyped', intake'.busy,
           intake'.batch = None \/ (intake'.batch = intake.batch /\ intake'.scanned = intake.scanned),
           kind \in {"start", "complete"} => in \in Batches,
           kind = "receive" => /\ in.batch \in Batches /\ in.unit \in 1 .. Total
                               /\ intake'.batch \in {None, in.batch}
    PROVE  IntakeInv'
  <1> USE DEF IntakeInv
  <1>1. \A b : CountOf(b)' = CountOf(b)
    BY DEF CountOf
  <1>2. CountShown'
    BY <1>1 DEF CountShown
  <1>3. /\ Claims(IntakeKinds, TRUE)'
        /\ \A k \in Jobs : k # j => call'[k] = call[k] /\ call[k].kind \notin IntakeKinds
    <2>1. "none" \notin IntakeKinds
      BY DEF IntakeKinds
    <2> QED
      BY <2>1, OpenedClaims DEF Claims
  <1>4. DOMAIN call' = Jobs /\ call'[j] = Sent(kind, in)
    BY CallKinds
  <1>5. \A k \in Jobs : IntakeCall(k)'
    <2>1. IntakeCall(j)'
      BY <1>4 DEF IntakeCall, Sent
    <2>2. ASSUME NEW k \in Jobs, k # j PROVE IntakeCall(k)'
      BY <1>3, <2>2 DEF IntakeCall, IntakeKinds
    <2> QED
      BY <2>1, <2>2
  <1> QED
    BY <1>2, <1>3, <1>4, <1>5 DEF Claims

LEMMA IntakeAsks ==
    ASSUME IntakeInv, NEW j \in Jobs,
           \/ \E b \in Batches : StartIntake(j, b)
           \/ \E u \in 1 .. Total : ScanUnit(j, u)
           \/ CompleteIntake(j) \/ LeaveIntake(j)
    PROVE  IntakeInv'
  <1> USE DEF IntakeInv
  <1>1. ASSUME NEW kind \in IntakeKinds, NEW in, ~intake.busy, UNCHANGED got,
               intake' = [intake EXCEPT !.busy = TRUE],
               call' = [call EXCEPT ![j] = Sent(kind, in)],
               kind \in {"start", "complete"} => in \in Batches,
               kind = "receive" => /\ in.batch \in Batches /\ in.unit \in 1 .. Total
                                   /\ in.batch = intake.batch
        PROVE  IntakeInv'
    <2>1. /\ IntakeTyped' /\ intake'.busy
          /\ intake'.batch = intake.batch /\ intake'.scanned = intake.scanned
      BY <1>1 DEF IntakeTyped
    <2> QED
      BY <1>1, <2>1, IntakeAsksStand
  <1>2. ASSUME NEW b \in Batches, StartIntake(j, b) PROVE IntakeInv'
    BY <1>1, <1>2 DEF StartIntake, Calls, Busy, IntakeKinds
  <1>3. ASSUME NEW u \in 1 .. Total, ScanUnit(j, u) PROVE IntakeInv'
    <2> DEFINE in == [batch |-> intake.batch, unit |-> u]
    <2>1. /\ ~intake.busy /\ UNCHANGED got /\ intake' = [intake EXCEPT !.busy = TRUE]
          /\ call' = [call EXCEPT ![j] = Sent("receive", in)]
      BY <1>3 DEF ScanUnit, Calls, Busy
    <2>2. in.batch \in Batches /\ in.unit \in 1 .. Total /\ in.batch = intake.batch
      BY <1>3 DEF ScanUnit, IntakeTyped
    <2> HIDE DEF in
    <2> QED
      BY <1>1, <2>1, <2>2 DEF IntakeKinds
  <1>4. ASSUME CompleteIntake(j) PROVE IntakeInv'
    <2>1. intake.batch \in Batches
      BY <1>4 DEF CompleteIntake, IntakeTyped
    <2> QED
      BY <1>1, <1>4, <2>1 DEF CompleteIntake, Calls, Busy, IntakeKinds
  <1>5. ASSUME LeaveIntake(j) PROVE IntakeInv'
    <2>1. PICK s \in {[Left(intake) EXCEPT !.batch = None, !.scanned = 0, !.expected = 0],
                      [intake EXCEPT !.completed = FALSE]} :
            /\ s = [intake EXCEPT !.completed = FALSE] => intake.batch = None
            /\ IF intake.busy THEN intake' = s /\ UNCHANGED call
               ELSE intake' = Busy(s) /\ Calls(j, "queue", None)
            /\ UNCHANGED got
      BY <1>5 DEF LeaveIntake, IntakeTyped, Left
    <2>2. s.batch = None /\ s.busy = intake.busy
          /\ s \in [busy : BOOLEAN, batch : Batches \cup {None}, expected : Nat,
                    scanned : Nat, completed : BOOLEAN, expired : BOOLEAN]
      <3>1. CASE s = [intake EXCEPT !.batch = None, !.scanned = 0, !.expected = 0]
        BY <3>1 DEF IntakeTyped
      <3>2. CASE s = [intake EXCEPT !.completed = FALSE]
        BY <2>1, <3>2 DEF IntakeTyped
      <3> QED
        BY <2>1, <3>1, <3>2 DEF Left
    <2>3. CASE ~intake.busy
      <3>1. intake' = [s EXCEPT !.busy = TRUE]
            /\ call' = [call EXCEPT ![j] = Sent("queue", None)]
        BY <2>1, <2>3 DEF Calls, Busy
      <3>2. IntakeTyped' /\ intake'.busy /\ intake'.batch = None
        BY <2>1, <2>2, <3>1 DEF IntakeTyped
      <3> QED
        BY <2>1, <2>3, <3>1, <3>2, IntakeAsksStand DEF IntakeKinds
    <2>4. CASE intake.busy
      <3>1. intake' = s /\ UNCHANGED <<call, got>>
        BY <2>1, <2>4
      <3>2. IntakeTyped' /\ CountShown'
        BY <2>2, <3>1 DEF IntakeTyped, CountShown
      <3>3. \A b : CountOf(b)' = CountOf(b)
        BY <3>1 DEF CountOf
      <3>4. \A k \in Jobs : IntakeCall(k)'
        BY <2>2, <3>1, <3>3 DEF IntakeCall
      <3>5. Claims(IntakeKinds, intake.busy)'
        BY <2>2, <3>1 DEF Claims
      <3> QED
        BY <3>1, <3>2, <3>4, <3>5
    <2> QED
      BY <2>3, <2>4
  <1> QED
    BY <1>2, <1>3, <1>4, <1>5

(* The server counts a unit, or answers what it has counted.               *)
LEMMA IntakeServes ==
    ASSUME IntakeInv, NEW j \in Jobs, ServeIntake(j)
    PROVE  IntakeInv'
  <1> USE DEF IntakeInv
  <1>0. PICK in : in = call[j].in
    OBVIOUS
  <1>1. intake' = intake /\ call[j].at = "sent" /\ call[j].kind \in IntakeKinds
    BY DEF ServeIntake, Asked, IntakeKinds
  <1>2. \E why \in {"ok", "lost"} : \E out :
          /\ Arrives(j, why, out)
          /\ IntakeTyped' /\ GotMore
          /\ call[j].kind = "start" => out = CountOf(in)'
          /\ call[j].kind = "receive" => out = CountOf(in.batch)'
    <2>1. CASE Asked(j, "queue")
      <3>1. Arrives(j, "ok", None) /\ UNCHANGED got
        BY <1>0, <2>1 DEF ServeIntake, Asked
      <3> QED
        BY <1>1, <2>1, <3>1 DEF Asked, IntakeTyped, GotMore
    <2>2. CASE Asked(j, "start")
      <3>1. in \in Batches
        BY <1>0, <2>2 DEF Asked, IntakeCall
      <3>2. got' = [got EXCEPT ![in].status = "OPEN"] /\ Served(j, CountOf(in))
        BY <1>0, <2>2 DEF ServeIntake, Asked, CountOf
      <3>3. IntakeTyped' /\ GotMore /\ got'[in].units = got[in].units
        BY <1>1, <3>1, <3>2 DEF IntakeTyped, GotMore
      <3>4. CountOf(in)' = CountOf(in)
        BY <3>3 DEF CountOf
      <3>5. PICK why \in {"ok", "lost"} : Arrives(j, why, CountOf(in))
        BY <3>2 DEF Served
      <3> QED
        BY <2>2, <3>3, <3>4, <3>5 DEF Asked
    <2>3. CASE Asked(j, "receive")
      <3>1. in.batch \in Batches /\ in.unit \in 1 .. Total
        BY <1>0, <2>3 DEF Asked, IntakeCall
      <3>2. /\ got' = [got EXCEPT ![in.batch].units = @ \cup {in.unit}]
            /\ Served(j, CountOf(in.batch)')
        BY <1>0, <2>3 DEF ServeIntake, Asked, Received, CountOf
      <3>3. IntakeTyped' /\ GotMore
        BY <1>1, <3>1, <3>2 DEF IntakeTyped, GotMore
      <3>4. PICK why \in {"ok", "lost"} : Arrives(j, why, CountOf(in.batch)')
        BY <3>2 DEF Served
      <3> QED
        BY <2>3, <3>3, <3>4 DEF Asked
    <2>4. CASE Asked(j, "complete")
      <3>1. in \in Batches
        BY <1>0, <2>4 DEF Asked, IntakeCall
      <3>2. got' = [got EXCEPT ![in].status = "COMPLETED"] /\ Served(j, None)
        BY <1>0, <2>4 DEF ServeIntake, Asked
      <3>3. IntakeTyped' /\ GotMore
        BY <1>1, <3>1, <3>2 DEF IntakeTyped, GotMore
      <3>4. PICK why \in {"ok", "lost"} : Arrives(j, why, None)
        BY <3>2 DEF Served
      <3> QED
        BY <2>4, <3>3, <3>4 DEF Asked
    <2> QED
      BY <2>1, <2>2, <2>3, <2>4 DEF ServeIntake
  <1>3. PICK why, out :
          /\ why \in {"ok", "lost"}
          /\ Arrives(j, why, out)
          /\ IntakeTyped' /\ GotMore
          /\ call[j].kind = "start" => out = CountOf(in)'
          /\ call[j].kind = "receive" => out = CountOf(in.batch)'
    BY <1>2
  <1>4. /\ DOMAIN call' = Jobs /\ \A k \in Jobs : k # j => call'[k] = call[k]
        /\ call'[j] = [kind |-> call[j].kind, at |-> "answered", in |-> call[j].in,
                       why |-> why, out |-> out]
    BY <1>3, CallKinds DEF Arrives
  <1>5. \A k \in Jobs : IntakeCall(k)'
    <2>1. IntakeCall(j)'
      <3>1. \A b \in Batches : CountOf(b)' \in Nat
        BY <1>3, CountsGrow
      <3>2. IntakeCall(j)
        OBVIOUS
      <3>3. call[j].kind = "start" => in \in Batches /\ out \in Nat /\ out <= CountOf(in)'
        BY <1>0, <1>3, <3>1, <3>2 DEF IntakeCall
      <3>4. call[j].kind = "receive" =>
              in.batch \in Batches /\ out \in Nat /\ out <= CountOf(in.batch)'
        BY <1>0, <1>3, <3>1, <3>2 DEF IntakeCall
      <3> QED
        BY <1>0, <1>1, <1>4, <3>2, <3>3, <3>4 DEF IntakeCall
    <2>2. ASSUME NEW k \in Jobs, k # j PROVE IntakeCall(k)'
      BY <1>1, <1>3, <1>4, <2>2, CallsKeepCounts
    <2> QED
      BY <2>1, <2>2
  <1>6. Claims(IntakeKinds, intake.busy)'
    BY <1>1, <1>4 DEF Claims
  <1> QED
    BY <1>1, <1>3, <1>4, <1>5, <1>6, ShownKeepsCount

LEMMA IntakeNotServed ==
    ASSUME IntakeInv, NEW j \in Jobs, NotServed(j)
    PROVE  IntakeInv'
  <1> USE DEF IntakeInv
  <1>1. UNCHANGED <<intake, got>>
    BY DEF NotServed, intakeVars
  <1>2. PICK why \in Reasons \ {"ok"} : Arrives(j, why, None) /\ call[j].at = "sent"
    BY DEF NotServed, Reasons
  <1>3. /\ DOMAIN call' = Jobs /\ \A k \in Jobs : k # j => call'[k] = call[k]
        /\ call'[j] = [kind |-> call[j].kind, at |-> "answered", in |-> call[j].in,
                       why |-> why, out |-> None]
    BY <1>2, CallKinds DEF Arrives
  <1>4. \A b : CountOf(b)' = CountOf(b)
    BY <1>1 DEF CountOf
  <1>5. \A k \in Jobs : IntakeCall(k)'
    BY <1>1, <1>2, <1>3, <1>4 DEF IntakeCall
  <1>6. Claims(IntakeKinds, intake.busy)'
    BY <1>1, <1>3 DEF Claims
  <1> QED
    BY <1>1, <1>3, <1>4, <1>5, <1>6 DEF IntakeTyped, CountShown

(* Another handheld receives a unit.                                       *)
LEMMA OthersReceive ==
    ASSUME IntakeInv, NEW b \in Batches, NEW u \in 1 .. Total, OtherReceives(b, u)
    PROVE  IntakeInv'
  <1> USE DEF IntakeInv
  <1>1. UNCHANGED <<call, intake>> /\ got' = [got EXCEPT ![b].units = @ \cup {u}]
    BY DEF OtherReceives, Received
  <1>2. IntakeTyped' /\ GotMore
    BY <1>1 DEF IntakeTyped, GotMore
  <1>3. \A k \in Jobs : IntakeCall(k)'
    BY <1>1, <1>2, CallsKeepCounts
  <1>4. Claims(IntakeKinds, intake.busy)'
    BY <1>1 DEF Claims
  <1> QED
    BY <1>1, <1>2, <1>3, <1>4, ShownKeepsCount

(* An answer frees the screen, or is followed by the queue.                *)
LEMMA IntakeAnswers ==
    ASSUME IntakeInv, NEW j \in Jobs, IntakeAnswered(j)
    PROVE  IntakeInv'
  <1> USE DEF IntakeInv
  <1> DEFINE In == call[j].in
             Out == call[j].out
  <1>1. UNCHANGED got /\ call[j].kind \in IntakeKinds /\ call[j].at = "answered" /\ IntakeCall(j)
    BY DEF IntakeAnswered, Answered, IntakeKinds, Kinds
  <1>2. \A k \in Jobs : k # j => call[k].kind \notin IntakeKinds
    BY <1>1 DEF Claims
  <1>3. \A b : CountOf(b)' = CountOf(b)
    BY <1>1 DEF CountOf
  <1>4. /\ IntakeTyped' /\ CountShown'
        /\ \/ call' = [call EXCEPT ![j] = NoCall]
           \/ intake'.busy /\ call' = [call EXCEPT ![j] = Sent("queue", None)]
    <2>1. CASE Answered(j, "queue") /\ Good(j)
      <3>1. intake' = [Rests(intake) EXCEPT !.expired = FALSE]
            /\ call' = [call EXCEPT ![j] = NoCall]
        BY <2>1 DEF IntakeAnswered, Answered, Ended
      <3> QED
        BY <1>1, <1>3, <3>1 DEF IntakeTyped, CountShown, Rests
    <2>2. CASE Answered(j, "start") /\ Good(j)
      <3>1. intake' = [Rests(intake) EXCEPT !.batch = In, !.expected = Total,
                                            !.scanned = Out, !.completed = FALSE]
            /\ call' = [call EXCEPT ![j] = NoCall]
        BY <2>2 DEF IntakeAnswered, Answered, Ended
      <3>2. In \in Batches /\ Out \in Nat /\ Out <= CountOf(In)
        BY <1>1, <2>2 DEF IntakeCall, Answered, Good, Why
      <3>3. IntakeTyped' /\ intake'.batch = In /\ intake'.scanned = Out
        BY <1>1, <3>1, <3>2 DEF IntakeTyped, Rests, Total
      <3> QED
        BY <1>3, <3>1, <3>2, <3>3 DEF CountShown
    <2>3. CASE Answered(j, "receive") /\ Good(j)
      <3>1. intake' = [Rests(intake) EXCEPT !.scanned = Out, !.expected = Total]
            /\ call' = [call EXCEPT ![j] = NoCall]
        BY <2>3 DEF IntakeAnswered, Answered, Ended
      <3>2. /\ In.batch \in Batches /\ intake.batch \in {None, In.batch}
            /\ Out \in Nat /\ Out <= CountOf(In.batch)
        BY <1>1, <2>3 DEF IntakeCall, Answered, Good, Why
      <3>3. IntakeTyped' /\ intake'.batch = intake.batch /\ intake'.scanned = Out
        BY <1>1, <3>1, <3>2 DEF IntakeTyped, Rests, Total
      <3> QED
        BY <1>3, <3>1, <3>2, <3>3 DEF CountShown
    <2>4. CASE Answered(j, "complete") /\ Good(j)
      <3>1. intake' = [intake EXCEPT !.batch = None, !.completed = TRUE]
            /\ call' = [call EXCEPT ![j] = Sent("queue", None)]
        BY <2>4 DEF IntakeAnswered, Answered, Continues
      <3>2. intake.busy
        BY <1>1 DEF Claims
      <3> QED
        BY <1>1, <3>1, <3>2 DEF IntakeTyped, CountShown
    <2>5. CASE ~Good(j)
      <3>1. intake' = [Rests(intake) EXCEPT !.expired = @ \/ Why(j) = "401"]
            /\ call' = [call EXCEPT ![j] = NoCall]
        BY <2>5 DEF IntakeAnswered, Ended
      <3> QED
        BY <1>1, <1>3, <3>1 DEF IntakeTyped, CountShown, Rests
    <2> QED
      BY <1>1, <2>1, <2>2, <2>3, <2>4, <2>5 DEF Answered, IntakeKinds
  <1>5. PICK c \in {NoCall, Sent("queue", None)} :
          /\ call' = [call EXCEPT ![j] = c]
          /\ c.kind \in IntakeKinds => intake'.busy
    BY <1>4 DEF NoCall, IntakeKinds
  <1>6. /\ DOMAIN call' = Jobs /\ call'[j] = c /\ c.kind \in {"none", "queue"}
        /\ \A k \in Jobs : k # j => call'[k] = call[k] /\ call[k].kind \notin IntakeKinds
    BY <1>2, <1>5, CallKinds DEF NoCall, Sent
  <1>7. \A k \in Jobs : IntakeCall(k)'
    BY <1>6 DEF IntakeCall, IntakeKinds
  <1>8. Claims(IntakeKinds, intake.busy)'
    BY <1>5, <1>6 DEF Claims
  <1> QED
    BY <1>4, <1>6, <1>7, <1>8

LEMMA IntakeSteps ==
    ASSUME IntakeInv, IntakeStep
    PROVE  IntakeInv'
  BY IntakeAsks, IntakeAnswers, IntakeServes, OthersReceive DEF IntakeStep

-------------------------------------------------------------------------------
(* The screens together                                                    *)

LanesInv == HomeInv /\ StorageInv /\ BuildInv /\ IntakeInv

LEMMA LanesStart ==
    ASSUME LanesInit
    PROVE  LanesInv
  <1> USE DEF LanesInit
  <1>1. DOMAIN call = Jobs /\ \A j \in Jobs : call[j] = NoCall
    OBVIOUS
  <1>2. \A j \in Jobs : call[j].kind = "none"
    BY <1>1 DEF NoCall
  <1>3. HomeInv
    <2>1. home.review = None /\ HomeTyped
      BY DEF HomeTyped, Steps, Feed, Codes, Cards
    <2>2. \A j \in Jobs : HomeCall(j) /\ ~Owed(j)
      BY <1>2 DEF HomeCall, HomeKinds, Owed
    <2>3. Claims(HomeClaims, home.busy)
      BY <1>2 DEF Claims, HomeClaims, HomeKinds
    <2>4. ScansCover
      BY <2>1, <2>2, CodesAssumption DEF ScansCover, Codes, Cards
    <2> QED
      BY <1>1, <2>1, <2>2, <2>3, <2>4 DEF HomeInv
  <1>4. StorageInv
    BY <1>1, <1>2 DEF StorageInv, StorageTyped, StorageCall, StoredOnce
  <1>5. BuildInv
    BY <1>1, <1>2 DEF BuildInv, BuildTyped, BuildCall, Claims, BuildKinds, RowsAreItems
  <1>6. IntakeInv
    BY <1>1, <1>2 DEF IntakeInv, IntakeTyped, IntakeCall, Claims, IntakeKinds, CountShown
  <1> QED
    BY <1>3, <1>4, <1>5, <1>6 DEF LanesInv

(* A step of one screen leaves the invariants of the others alone: their   *)
(* state, and the requests of their kinds.                                 *)
LEMMA LanesSteps ==
    ASSUME LanesInv, [LanesNext]_lanesVars
    PROVE  LanesInv'
  <1> USE DEF LanesInv
  <1>1. DOMAIN call = Jobs
    BY DEF HomeInv
  <1>2. CASE UNCHANGED lanes
    <2>1. UNCHANGED <<call, homeVars, storageVars, buildVars, intakeVars>>
      BY <1>2 DEF lanes
    <2>2. Touches({})
      BY <1>1, <2>1, NobodyTouches
    <2> QED
      BY <2>1, <2>2, HomeElsewhere, StorageElsewhere, BuildElsewhere, IntakeElsewhere
  <1>3. CASE HomeStep
    <2>1. OnlyHome /\ Touches(HomeKinds)
      BY <1>1, <1>3, HomeFrame
    <2>2. HomeKinds \cap StorageKinds = {} /\ HomeKinds \cap BuildKinds = {}
          /\ HomeKinds \cap IntakeKinds = {}
      BY DEF HomeKinds, StorageKinds, BuildKinds, IntakeKinds
    <2> QED
      BY <1>3, <2>1, <2>2, HomeSteps, StorageElsewhere, BuildElsewhere, IntakeElsewhere DEF OnlyHome
  <1>4. CASE StorageStep
    <2>1. OnlyStorage /\ Touches(StorageKinds)
      BY <1>1, <1>4, StorageFrame
    <2>2. StorageKinds \cap HomeKinds = {} /\ StorageKinds \cap BuildKinds = {}
          /\ StorageKinds \cap IntakeKinds = {}
      BY DEF HomeKinds, StorageKinds, BuildKinds, IntakeKinds
    <2> QED
      BY <1>4, <2>1, <2>2, StorageSteps, HomeElsewhere, BuildElsewhere, IntakeElsewhere DEF OnlyStorage
  <1>5. CASE BuildStep
    <2>1. OnlyBuild /\ Touches(BuildKinds)
      BY <1>1, <1>5, BuildFrame
    <2>2. BuildKinds \cap HomeKinds = {} /\ BuildKinds \cap StorageKinds = {}
          /\ BuildKinds \cap IntakeKinds = {}
      BY DEF HomeKinds, StorageKinds, BuildKinds, IntakeKinds
    <2> QED
      BY <1>5, <2>1, <2>2, BuildSteps, HomeElsewhere, StorageElsewhere, IntakeElsewhere DEF OnlyBuild
  <1>6. CASE IntakeStep
    <2>1. OnlyIntake /\ Touches(IntakeKinds)
      BY <1>1, <1>6, IntakeFrame
    <2>2. IntakeKinds \cap HomeKinds = {} /\ IntakeKinds \cap StorageKinds = {}
          /\ IntakeKinds \cap BuildKinds = {}
      BY DEF HomeKinds, StorageKinds, BuildKinds, IntakeKinds
    <2> QED
      BY <1>6, <2>1, <2>2, IntakeSteps, HomeElsewhere, StorageElsewhere, BuildElsewhere DEF OnlyIntake
  <1>7. CASE ReportStep
    <2>1. OnlyReport /\ Touches(ReportKinds)
      BY <1>1, <1>7, ReportFrame
    <2>2. ReportKinds \cap HomeKinds = {} /\ ReportKinds \cap StorageKinds = {}
          /\ ReportKinds \cap BuildKinds = {} /\ ReportKinds \cap IntakeKinds = {}
      BY DEF HomeKinds, StorageKinds, BuildKinds, IntakeKinds, ReportKinds
    <2> QED
      BY <2>1, <2>2, HomeElsewhere, StorageElsewhere, BuildElsewhere, IntakeElsewhere DEF OnlyReport
  <1>8. ASSUME NEW j \in Jobs, NotServed(j) PROVE LanesInv'
    BY <1>8, HomeNotServed, StorageServes, BuildNotServed, IntakeNotServed
  <1>9. (LaneExpired \/ UNCHANGED lanesVars) => UNCHANGED lanes
    BY DEF LaneExpired, lanesVars
  <1> QED
    BY <1>2, <1>3, <1>4, <1>5, <1>6, <1>7, <1>8, <1>9, WhoseStep

LEMMA LanesInvariant == LanesSpec => []LanesInv
  <1>1. LanesInit => LanesInv
    BY LanesStart
  <1>2. LanesInv /\ [LanesNext]_lanesVars => LanesInv'
    BY LanesSteps
  <1> QED
    BY <1>1, <1>2, PTL DEF LanesSpec

(* A scan counts once, however many answers are late, lost or refused, and *)
(* however often the worker tries again, as long as the device can know:   *)
(* Receiving Home knows of every confirmation that it may repeat that it   *)
(* was not counted, or has told the worker that it does not know; a        *)
(* product scan of Temporary Storage keeps one operation id to its last    *)
(* try (ReceivingHomeWorkflow.kt, TsStorageWorkflow.kt).                   *)
THEOREM ScansCountOnce == LanesSpec => []CountedOncePerScan
  <1>1. LanesInv => CountedOncePerScan
    <2> SUFFICES ASSUME LanesInv PROVE CountedOncePerScan
      OBVIOUS
    <2>1. counted["model"] \in Nat /\ scans["model"] \in Nat
      BY DEF LanesInv, HomeInv, HomeTyped, Feed, Codes, Cards
    <2>2. counted["model"] > scans["model"] => told
      BY <2>1 DEF LanesInv, HomeInv, ScansCover
    <2>3. \A n \in Scans : placed[n] <= 1
      BY DEF LanesInv, StorageInv, StoredOnce
    <2> QED
      BY <2>2, <2>3 DEF CountedOncePerScan
  <1> QED
    BY <1>1, LanesInvariant, PTL

(* What a batch screen shows is of its batch, whatever answer comes when:  *)
(* while a request runs the screen is busy and opens no other batch, and a *)
(* batch loses no unit (BatchBuildWorkflow.kt, BatchReceiveWorkflow.kt).   *)
THEOREM ScreensShowTheirBatch == LanesSpec => []ShownIsOfTheBatch
  <1>1. LanesInv => ShownIsOfTheBatch
    BY DEF LanesInv, BuildInv, RowsAreItems, IntakeInv, CountShown, CountOf, ShownIsOfTheBatch
  <1> QED
    BY <1>1, LanesInvariant, PTL
================================================================================
