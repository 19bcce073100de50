---------------------------- MODULE AccessProofs ----------------------------
(***************************************************************************)
(* Theorems about Access, for every number of users, devices, stations,    *)
(* sessions and concurrent calls.                                          *)
(***************************************************************************)
EXTENDS Access, FiniteSetTheorems, TLAPS

Rotating(c) == call[c].at = "rotate"

(* A renewal in its transaction has the row to itself, and it is alive.    *)
RotationHolds ==
    \A c \in Calls : Rotating(c) =>
        /\ session[call[c].id] # NoSession /\ Live(call[c].id)
        /\ \A e \in Calls : Rotating(e) /\ call[e].id = call[c].id => e = c

(* The login that a session comes from has a row, so that its id is taken. *)
RootsKnown == \A i \in Ids : session[i] # NoSession => session[session[i].root] # NoSession

AccessInv == TypeOK /\ OneLivePerLogin /\ RotationHolds /\ RootsKnown

-----------------------------------------------------------------------------
(* What a call has read is determined by the statement it makes next.      *)
LEMMA CallFields ==
    ASSUME TypeOK, NEW c \in Calls
    PROVE  /\ call[c].at \in {"secret", "roles", "station"} =>
                call[c] \in Login({"secret", "roles", "station"}, Devices \cup {None})
           /\ call[c].at = "device" => call[c] \in Login({"device"}, Devices)
           /\ call[c].at = "bind" =>
                /\ call[c].user \in Users /\ call[c].application \in Applications
                /\ call[c].device \in Devices /\ call[c].era \in Eras
                /\ call[c].holder \in Users \cup {None}
           /\ call[c].at = "create" =>
                /\ call[c].user \in Users /\ call[c].application \in Applications
                /\ call[c].device \in Devices \cup {None} /\ call[c].era \in Eras
                /\ call[c].station \in Stations \cup {None}
           /\ call[c].at \in {"consume", "rotate"} =>
                call[c] \in [at : {"consume", "rotate"}, id : Ids, device : Devices \cup {None},
                             station : Stations \cup {None}, era : Eras]
           /\ call[c].at \in {"checkRoles", "checkStation", "kill", "served"} =>
                call[c] \in [at : {"checkRoles", "checkStation", "kill", "served"}, id : Ids,
                             user : Users, deviceOk : BOOLEAN, station : Stations \cup {None},
                             era : Eras]
           /\ call[c].at = "write" =>
                call[c].user \in Users /\ call[c].to \in {"LOCKED", "ACTIVE", "DISABLED"}
           /\ call[c].at \in {"ending", "waiting", "last"} =>
                call[c] \in [at : {"ending", "waiting", "last"}, subject : Subjects,
                             seen : SUBSET Ids, then : {"nothing", "assign", "give", "delete"},
                             to : Users \cup {None}]
  <1>1. call[c] \in Call
    BY DEF TypeOK
  <1> QED
    BY <1>1 DEF Call, Login, Idle

(* A call that goes to a well-formed stage leaves the others alone.        *)
LEMMA GoesType ==
    ASSUME TypeOK, NEW c \in Calls, NEW x \in Call, Goes(c, x)
    PROVE  /\ call' \in [Calls -> Call]
           /\ \A e \in Calls : call'[e] = IF e = c THEN x ELSE call[e]
  BY DEF TypeOK, Goes

LEMMA RefusedType ==
    ASSUME TypeOK, NEW c \in Calls, Refused(c)
    PROVE  /\ call' \in [Calls -> Call]
           /\ \A e \in Calls : call'[e] = IF e = c THEN Idle ELSE call[e]
  <1>1. Idle \in Call
    BY DEF Call
  <1> QED
    BY <1>1, GoesType DEF Refused

LEMMA ErasType ==
    ASSUME TypeOK, NEW u \in Users, NEW d \in Devices \cup {None}
    PROVE  ErasOf(u, d) \in Eras
  BY DEF TypeOK, ErasOf, Eras, Subjects

LEMMA HolderType ==
    ASSUME TypeOK, NEW d \in Devices, NEW h \in Users \cup {None}
    PROVE  LET Row == [status : {"none", "ACTIVE", "DISABLED"}, holder : Users \cup {None}]
           IN  device \in [Devices -> Row] /\ [device EXCEPT ![d].holder = h] \in [Devices -> Row]
  <1> DEFINE Row == [status : {"none", "ACTIVE", "DISABLED"}, holder : Users \cup {None}]
  <1>1. device \in [Devices -> Row]
    BY DEF TypeOK
  <1>2. [device[d] EXCEPT !.holder = h] \in Row
    BY <1>1
  <1> HIDE DEF Row
  <1>3. [device EXCEPT ![d] = [device[d] EXCEPT !.holder = h]] \in [Devices -> Row]
    BY <1>1, <1>2
  <1> QED
    BY <1>1, <1>3 DEF Row

(* The renewals under way are among those that were.                       *)
NoNewRotation ==
    \A e \in Calls : Rotating(e)' => Rotating(e) /\ call'[e].id = call[e].id

(* No session is new, none comes back to life, and those that are being    *)
(* renewed stay alive.                                                     *)
NoNewLife ==
    \A i \in Ids :
        /\ session[i] = NoSession => session'[i] = NoSession
        /\ session[i] # NoSession =>
             /\ session'[i] # NoSession /\ session'[i].root = session[i].root
             /\ session'[i].status = "ACTIVE" => Live(i)
             /\ Locked(i) /\ Live(i) => session'[i].status = "ACTIVE"

(* Steps that only take life keep the invariant.                           *)
LEMMA StillOneLive ==
    ASSUME AccessInv, TypeOK', NoNewLife, NoNewRotation
    PROVE  AccessInv'
  <1>1. OneLivePerLogin'
    BY DEF AccessInv, OneLivePerLogin, NoNewLife, Live
  <1>2. RotationHolds'
    <2> SUFFICES ASSUME NEW c \in Calls, Rotating(c)'
                 PROVE  /\ session'[call'[c].id] # NoSession /\ Live(call[c].id)'
                        /\ \A e \in Calls : Rotating(e)' /\ call'[e].id = call'[c].id => e = c
      BY DEF RotationHolds
    <2>1. Rotating(c) /\ call'[c].id = call[c].id
      BY DEF NoNewRotation
    <2>2. call[c].id \in Ids /\ Locked(call[c].id)
      BY <2>1, CallFields DEF AccessInv, Rotating, Locked
    <2>3. session[call[c].id] # NoSession /\ Live(call[c].id)
      BY <2>1 DEF AccessInv, RotationHolds
    <2>4. session'[call'[c].id] # NoSession /\ Live(call[c].id)'
      BY <2>1, <2>2, <2>3 DEF NoNewLife, Live
    <2>5. \A e \in Calls : Rotating(e)' /\ call'[e].id = call'[c].id => e = c
      BY <2>1 DEF NoNewRotation, AccessInv, RotationHolds
    <2> QED
      BY <2>4, <2>5
  <1>3. RootsKnown'
    <2> SUFFICES ASSUME NEW i \in Ids, session'[i] # NoSession
                 PROVE  session'[session'[i].root] # NoSession
      BY DEF RootsKnown
    <2>1. session[i] # NoSession /\ session'[i].root = session[i].root
      BY DEF NoNewLife
    <2>2. session[i].root \in Ids
      BY <2>1 DEF AccessInv, TypeOK, Session
    <2> QED
      BY <2>1, <2>2 DEF NoNewLife, AccessInv, RootsKnown
  <1> QED
    BY <1>1, <1>2, <1>3 DEF AccessInv

(* Steps that leave the sessions alone.                                    *)
LEMMA SessionsAlone ==
    ASSUME AccessInv, UNCHANGED session
    PROVE  NoNewLife
  BY DEF NoNewLife, Live

(* A call moves to a stage that is no renewal's, and no session changes.   *)
LEMMA Calm ==
    ASSUME AccessInv, NEW c \in Calls, NEW x \in Call, Goes(c, x), x.at # "rotate",
           UNCHANGED session, TypeOK'
    PROVE  AccessInv'
  <1>1. NoNewRotation
    BY GoesType DEF AccessInv, NoNewRotation, Rotating
  <1> QED
    BY <1>1, SessionsAlone, StillOneLive

(* Administration that touches neither calls nor sessions.                 *)
LEMMA Aside ==
    ASSUME AccessInv, UNCHANGED <<call, session>>, TypeOK'
    PROVE  AccessInv'
  BY SessionsAlone, StillOneLive DEF NoNewRotation, Rotating

-----------------------------------------------------------------------------
(* Login                                                                   *)
LEMMA LoginKeeps ==
    ASSUME AccessInv, NEW c \in Calls, LoginStep(c)
    PROVE  AccessInv'
  <1> USE DEF AccessInv
  <1>1. ASSUME NEW u \in Users, NEW a \in Applications, NEW d \in Devices \cup {None},
               LoginStart(c, u, a, d)
        PROVE  AccessInv'
    <2> DEFINE x == [at |-> "secret", user |-> u, application |-> a, device |-> d,
                     era |-> ErasOf(u, d)]
    <2>1. x \in Call /\ x.at # "rotate"
      BY <1>1, ErasType DEF Call, Login
    <2>2. Goes(c, x) /\ UNCHANGED <<status, opens, bucket, device, station, session, era>>
      BY <1>1 DEF LoginStart, accounts, places
    <2>3. TypeOK'
      BY <2>1, <2>2, GoesType DEF TypeOK
    <2> QED
      BY <2>1, <2>2, <2>3, Calm
  <1>2. ASSUME WrongSecret(c)
        PROVE  AccessInv'
    <2>1. call[c].user \in Users
      BY <1>2, CallFields DEF WrongSecret, Login
    <2>2. \A b \in [fails : 0 .. MaxFailures, locked : BOOLEAN] :
             Counted(b) \in [fails : 0 .. MaxFailures, locked : BOOLEAN]
      BY AccessAssumption DEF Counted
    <2>3. bucket' \in [Users -> [fails : 0 .. MaxFailures, locked : BOOLEAN]]
      BY <1>2, <2>1, <2>2 DEF WrongSecret, TypeOK
    <2>5. Refused(c) /\ UNCHANGED <<status, opens, device, station, session, era>>
      BY <1>2 DEF WrongSecret, accounts, places
    <2>6. TypeOK'
      BY <2>3, <2>5, RefusedType DEF TypeOK
    <2> QED
      BY <2>5, <2>6, Calm DEF Refused, Call, Idle
  <1>3. ASSUME RightSecret(c)
        PROVE  AccessInv'
    <2> DEFINE x == [call[c] EXCEPT !.at = "roles"]
    <2>1. call[c] \in Login({"secret", "roles", "station"}, Devices \cup {None})
      BY <1>3, CallFields DEF RightSecret
    <2>2. x \in Call /\ x.at # "rotate"
      BY <2>1 DEF Call, Login
    <2>3. /\ Goes(c, x) /\ UNCHANGED <<status, opens, device, station, session, era>>
          /\ bucket' \in [Users -> [fails : 0 .. MaxFailures, locked : BOOLEAN]]
      BY <1>3, <2>1, AccessAssumption
      DEF RightSecret, Continues, accounts, places, TypeOK, Login
    <2>4. TypeOK'
      BY <2>2, <2>3, GoesType DEF TypeOK
    <2> QED
      BY <2>2, <2>3, <2>4, Calm
  <1>4. ASSUME LoginRoles(c)
        PROVE  AccessInv'
    <2>1. call[c] \in Login({"secret", "roles", "station"}, Devices \cup {None})
      BY <1>4, CallFields DEF LoginRoles
    <2>2. PICK x \in Call : Goes(c, x) /\ x.at # "rotate"
      <3>1. Idle \in Call /\ Idle.at # "rotate"
        BY DEF Call, Idle
      <3>2. LET x == [at |-> "create", user |-> call[c].user, era |-> call[c].era,
                      application |-> call[c].application, device |-> None, station |-> None]
            IN  x \in Call /\ x.at # "rotate"
        BY <2>1 DEF Call, Login
      <3>3. LET x == [call[c] EXCEPT !.at = "station"] IN x \in Call /\ x.at # "rotate"
        BY <2>1 DEF Call, Login
      <3>4. LET x == [call[c] EXCEPT !.at = "device"]
            IN  call[c].device # None => x \in Call /\ x.at # "rotate"
        BY <2>1 DEF Call, Login
      <3> QED
        BY <1>4, <3>1, <3>2, <3>3, <3>4 DEF LoginRoles, Refused, Continues
    <2>3. UNCHANGED <<status, opens, bucket, device, station, session, era>>
      BY <1>4 DEF LoginRoles, accounts, places
    <2>4. TypeOK'
      BY <2>2, <2>3, GoesType DEF TypeOK
    <2> QED
      BY <2>2, <2>3, <2>4, Calm
  <1>5. ASSUME LoginDevice(c)
        PROVE  AccessInv'
    <2> DEFINE d == call[c].device
               ok == Bound(d, call[c].user)
               x == [at |-> "bind", user |-> call[c].user, application |-> call[c].application,
                     device |-> d, era |-> [call[c].era EXCEPT !.device = era[d]],
                     holder |-> device[d].holder]
    <2>1. call[c] \in Login({"device"}, Devices)
      BY <1>5, CallFields DEF LoginDevice
    <2>2. call[c].at = "device" /\ Goes(c, IF ok THEN x ELSE Idle)
      BY <1>5 DEF LoginDevice, Refused
    <2>3. Idle \in Call /\ Idle.at # "rotate"
      BY DEF Call, Idle
    <2>4. d \in Devices
      BY <2>1 DEF Login
    <2>5. ASSUME ok PROVE x \in Call /\ x.at # "rotate"
      <3>1. d \in Devices /\ device[d].holder \in Users \cup {None} /\ era[d] \in Nat
        BY <2>1, <2>4 DEF TypeOK, Login, Subjects
      <3> QED
        BY <2>1, <3>1 DEF Call, Login, Eras
    <2>6. UNCHANGED <<status, opens, bucket, device, station, session, era>>
      BY <1>5 DEF LoginDevice, accounts, places
    <2> DEFINE y == IF ok THEN x ELSE Idle
    <2>7. y \in Call /\ y.at # "rotate" /\ Goes(c, y)
      BY <2>2, <2>3, <2>5
    <2> HIDE DEF y
    <2>8. TypeOK'
      BY <2>6, <2>7, GoesType DEF TypeOK
    <2> QED
      BY <2>6, <2>7, <2>8, Calm
  <1>6. ASSUME LoginBind(c)
        PROVE  AccessInv'
    <2> DEFINE x == [at |-> "station", user |-> call[c].user, device |-> call[c].device,
                     application |-> call[c].application, era |-> call[c].era]
               holder == IF call[c].holder = None THEN call[c].user ELSE call[c].holder
    <2>1. /\ call[c].user \in Users /\ call[c].application \in Applications
          /\ call[c].device \in Devices /\ call[c].era \in Eras
          /\ call[c].holder \in Users \cup {None}
      BY <1>6, CallFields DEF LoginBind
    <2>2. Idle \in Call /\ Idle.at # "rotate" /\ x \in Call /\ x.at # "rotate"
      BY <2>1 DEF Call, Idle, Login
    <2>3. PICK y \in {x, Idle} : Goes(c, y)
      BY <1>6 DEF LoginBind, Refused
    <2>4. device' = device \/ device' = [device EXCEPT ![call[c].device].holder = holder]
      BY <1>6 DEF LoginBind
    <2>5. holder \in Users \cup {None}
      BY <2>1
    <2> HIDE DEF holder
    <2>6. device' \in [Devices -> [status : {"none", "ACTIVE", "DISABLED"},
                                   holder : Users \cup {None}]]
      BY <2>1, <2>4, <2>5, HolderType
    <2>7. UNCHANGED <<status, opens, bucket, station, session, era>>
      BY <1>6 DEF LoginBind, accounts
    <2>8. y \in Call /\ y.at # "rotate"
      BY <2>2
    <2>9. TypeOK'
      BY <2>3, <2>6, <2>7, <2>8, GoesType DEF TypeOK
    <2> QED
      BY <2>3, <2>7, <2>8, <2>9, Calm
  <1>7. ASSUME LoginStation(c)
        PROVE  AccessInv'
    <2> DEFINE mine == {s \in Stations : Seated(s, call[c].user)}
               seat == IF Cardinality(mine) = 1 THEN CHOOSE s \in mine : TRUE ELSE None
               x == [at |-> "create", user |-> call[c].user, application |-> call[c].application,
                     device |-> call[c].device, era |-> call[c].era, station |-> seat]
    <2>1. call[c] \in Login({"secret", "roles", "station"}, Devices \cup {None})
      BY <1>7, CallFields DEF LoginStation
    <2>2. mine # {} => seat \in Stations \cup {None}
      OBVIOUS
    <2>3. mine = {} => seat = None
      BY FS_EmptySet
    <2> HIDE DEF seat
    <2>4. x \in Call /\ x.at # "rotate"
      BY <2>1, <2>2, <2>3 DEF Call, Login
    <2>5. Goes(c, x) /\ UNCHANGED <<status, opens, bucket, device, station, session, era>>
      BY <1>7 DEF LoginStation, accounts, places, seat
    <2>6. TypeOK'
      BY <2>4, <2>5, GoesType DEF TypeOK
    <2> QED
      BY <2>4, <2>5, <2>6, Calm
  <1>8. ASSUME LoginCreate(c)
        PROVE  AccessInv'
    <2>1. /\ call[c].user \in Users /\ call[c].application \in Applications
          /\ call[c].device \in Devices \cup {None} /\ call[c].era \in Eras
          /\ call[c].station \in Stations \cup {None}
      BY <1>8, CallFields DEF LoginCreate
    <2>2. Refused(c) /\ UNCHANGED <<status, opens, bucket, device, station, era>>
      BY <1>8 DEF LoginCreate, accounts, places
    <2>3. Idle \in Call /\ Idle.at # "rotate"
      BY DEF Call, Idle
    <2>4. CASE UNCHANGED session
      <3>1. TypeOK'
        BY <2>2, <2>4, RefusedType DEF TypeOK
      <3> QED
        BY <2>2, <2>3, <2>4, <3>1, Calm DEF Refused
    <2>5. CASE session' # session
      <3> DEFINE late == LateNow(call[c].user, call[c].device, call[c].era)
                 row(i) == [status |-> "ACTIVE", user |-> call[c].user,
                            application |-> call[c].application, device |-> call[c].device,
                            station |-> call[c].station, expired |-> FALSE, root |-> i,
                            late |-> late, opened |-> call[c].device, era |-> call[c].era]
      <3>1. PICK i \in Ids : session[i] = NoSession /\ session' = [session EXCEPT ![i] = row(i)]
        BY <1>8, <2>5 DEF LoginCreate
      <3>2. late \in BOOLEAN
        BY DEF LateNow
      <3> HIDE DEF late
      <3>3. row(i) \in Session
        BY <2>1, <3>2 DEF Session
      <3>4. TypeOK'
        BY <2>2, <3>1, <3>3, RefusedType DEF TypeOK
      <3>5. \A e \in Calls : Rotating(e)' => Rotating(e) /\ call'[e].id = call[e].id
        BY <2>2, RefusedType DEF Rotating, Idle
      <3>6. \A j \in Ids : session'[j] = IF j = i THEN row(i) ELSE session[j]
        BY <3>1 DEF TypeOK
      <3>7. \A j \in Ids : session[j] # NoSession => session[j].root # i /\ session[j].root \in Ids
        BY <3>1 DEF RootsKnown, TypeOK, Session
      <3>8. row(i).root = i /\ row(i) # NoSession
        BY DEF NoSession
      <3> HIDE DEF row
      <3>9. OneLivePerLogin'
        BY <3>6, <3>7, <3>8 DEF OneLivePerLogin, Live
      <3>10. RootsKnown'
        BY <3>6, <3>7, <3>8 DEF RootsKnown
      <3>11. \A e \in Calls : Rotating(e) => call[e].id \in Ids /\ call[e].id # i
        BY <3>1, CallFields DEF RotationHolds, Rotating
      <3>12. RotationHolds'
        BY <3>5, <3>6, <3>11 DEF RotationHolds, Live
      <3> QED
        BY <3>4, <3>9, <3>10, <3>12
    <2> QED
      BY <2>4, <2>5
  <1> QED
    BY <1>1, <1>2, <1>3, <1>4, <1>5, <1>6, <1>7, <1>8 DEF LoginStep

-----------------------------------------------------------------------------
(* Renewal and requests                                                    *)
LEMMA SessionType ==
    ASSUME TypeOK, NEW i \in Ids, session[i] # NoSession
    PROVE  /\ session[i] \in Session
           /\ [session[i] EXCEPT !.status = "REVOKED"] \in Session
           /\ [session[i] EXCEPT !.expired = TRUE] \in Session
           /\ [session[i] EXCEPT !.device = None] \in Session
           /\ session[i].user \in Users /\ session[i].opened \in Devices \cup {None}
           /\ session[i].device \in Devices \cup {None} /\ session[i].station \in Stations \cup {None}
  <1>1. session[i] \in Session
    BY DEF TypeOK
  <1> QED
    BY <1>1 DEF Session

(* Sessions that nobody is renewing are revoked, and nothing else happens  *)
(* to sessions.                                                            *)
LEMMA RevokedKeeps ==
    ASSUME TypeOK, NEW ids \in SUBSET Ids,
           \A i \in ids : ~Locked(i), session' = Revoked(ids)
    PROVE  session' \in [Ids -> Session \cup {NoSession}] /\ NoNewLife
  <1> DEFINE hit == {i \in ids : Live(i)}
  <1>1. \A i \in Ids : session'[i] = IF i \in hit THEN [session[i] EXCEPT !.status = "REVOKED"]
                                     ELSE session[i]
    BY DEF Revoked
  <1>2. \A i \in hit : session'[i] \in Session /\ session'[i].status = "REVOKED"
                       /\ session'[i].root = session[i].root /\ session'[i] # NoSession
                       /\ session[i] # NoSession
    <2> TAKE i \in hit
    <2>1. i \in Ids /\ session[i] # NoSession
      BY DEF Live, NoSession
    <2>2. session[i] \in Session /\ [session[i] EXCEPT !.status = "REVOKED"] \in Session
      BY <2>1, SessionType
    <2>3. session'[i] = [session[i] EXCEPT !.status = "REVOKED"]
      BY <1>1, <2>1
    <2> QED
      BY <2>1, <2>2, <2>3 DEF Session, NoSession
  <1>3. session' \in [Ids -> Session \cup {NoSession}]
    BY <1>1, <1>2 DEF Revoked, TypeOK
  <1>4. NoNewLife
    BY <1>1, <1>2 DEF NoNewLife, Live
  <1> QED
    BY <1>3, <1>4

LEMMA TokenKeeps ==
    ASSUME AccessInv, NEW c \in Calls, TokenStep(c)
    PROVE  AccessInv'
  <1> USE DEF AccessInv
  <1>1. ASSUME NEW i \in Ids, RefreshRead(c, i)
        PROVE  AccessInv'
    <2> DEFINE x == [at |-> "consume", id |-> i, device |-> session[i].device,
                     station |-> session[i].station,
                     era |-> ErasOf(session[i].user, session[i].device)]
    <2>1. Goes(c, x) /\ UNCHANGED <<status, opens, bucket, device, station, session, era>>
      BY <1>1 DEF RefreshRead, accounts, places
    <2>2. session[i] # NoSession
      BY <1>1 DEF RefreshRead
    <2>3. x \in Call /\ x.at # "rotate"
      BY <2>2, SessionType, ErasType DEF Call
    <2>4. TypeOK'
      BY <2>1, <2>3, GoesType DEF TypeOK
    <2> QED
      BY <2>1, <2>3, <2>4, Calm
  <1>2. ASSUME RefreshConsume(c)
        PROVE  AccessInv'
    <2> DEFINE i == call[c].id
               x == [call[c] EXCEPT !.at = "rotate"]
    <2>1. call[c] \in [at : {"consume", "rotate"}, id : Ids, device : Devices \cup {None},
                       station : Stations \cup {None}, era : Eras]
      BY <1>2, CallFields DEF RefreshConsume
    <2>2. UNCHANGED <<status, opens, bucket, device, station, session, era>> /\ ~Locked(i)
      BY <1>2 DEF RefreshConsume, accounts, places
    <2>3. CASE Refused(c)
      <3>1. Idle \in Call /\ Idle.at # "rotate"
        BY DEF Call, Idle
      <3>2. TypeOK'
        BY <2>2, <2>3, RefusedType DEF TypeOK
      <3> QED
        BY <2>2, <2>3, <3>1, <3>2, Calm DEF Refused
    <2>4. CASE Goes(c, x) /\ Live(i)
      <3>1. x \in Call /\ x.at = "rotate" /\ x.id = i
        BY <2>1 DEF Call
      <3> HIDE DEF x
      <3>2. TypeOK' /\ \A e \in Calls : call'[e] = IF e = c THEN x ELSE call[e]
        BY <2>2, <2>4, <3>1, GoesType DEF TypeOK
      <3>3. session[i] # NoSession
        BY <2>4 DEF Live, NoSession
      <3>4. \A e \in Calls : Rotating(e) => call[e].id # i
        BY <2>2 DEF Locked, Rotating
      <3>5. RotationHolds'
        BY <2>2, <2>4, <3>1, <3>2, <3>3, <3>4 DEF RotationHolds, Rotating, Live
      <3>6. OneLivePerLogin' /\ RootsKnown'
        BY <2>2 DEF OneLivePerLogin, RootsKnown, Live
      <3> QED
        BY <3>2, <3>5, <3>6
    <2> QED
      BY <1>2, <2>3, <2>4 DEF RefreshConsume, Continues
  <1>3. ASSUME RefreshCreate(c)
        PROVE  AccessInv'
    <2> DEFINE i == call[c].id
               s == session[i]
    <2>1. call[c] \in [at : {"consume", "rotate"}, id : Ids, device : Devices \cup {None},
                       station : Stations \cup {None}, era : Eras]
      BY <1>3, CallFields DEF RefreshCreate
    <2>2. Refused(c) /\ UNCHANGED <<status, opens, bucket, device, station, era>>
      BY <1>3 DEF RefreshCreate, accounts, places
    <2>3. /\ i \in Ids /\ s # NoSession /\ Live(i)
          /\ \A e \in Calls : Rotating(e) /\ call[e].id = i => e = c
      BY <1>3, <2>1 DEF RefreshCreate, RotationHolds, Rotating
    <2>4. CASE UNCHANGED session
      <3>1. TypeOK'
        BY <2>2, <2>4, RefusedType DEF TypeOK
      <3>2. Idle \in Call /\ Idle.at # "rotate"
        BY DEF Call, Idle
      <3> QED
        BY <2>2, <2>4, <3>1, <3>2, Calm DEF Refused
    <2>5. CASE session' # session
      <3> DEFINE late == s.late \/ LateNow(s.user, s.opened, call[c].era)
                 old == [s EXCEPT !.status = "REVOKED"]
                 new == [s EXCEPT !.status = "ACTIVE", !.device = call[c].device,
                                  !.station = call[c].station, !.expired = FALSE, !.late = late]
      <3>1. PICK j \in Ids :
                 session[j] = NoSession
                 /\ session' = [session EXCEPT ![i].status = "REVOKED", ![j] = new]
        BY <1>3, <2>5 DEF RefreshCreate
      <3>2. s \in Session
        BY <2>3, SessionType
      <3>3. late \in BOOLEAN
        BY <3>2 DEF LateNow, Session
      <3> HIDE DEF late
      <3>4. /\ new \in Session /\ new.root = s.root /\ new # NoSession
            /\ old \in Session /\ old.root = s.root /\ old # NoSession /\ old.status = "REVOKED"
        BY ZenonT(40), <2>1, <3>2, <3>3 DEF Session, NoSession
      <3>5. i # j
        BY <2>3, <3>1
      <3>6. session' = [session EXCEPT ![i] = old, ![j] = new]
        BY <3>1
      <3> HIDE DEF old, new, s
      <3>7. session' \in [Ids -> Session \cup {NoSession}]
        BY <2>3, <3>1, <3>4, <3>6 DEF TypeOK
      <3>8. \A k \in Ids : session'[k] = IF k = j THEN new ELSE IF k = i THEN old ELSE session[k]
        BY <2>3, <3>6, <3>5 DEF TypeOK
      <3>9. TypeOK'
        BY <2>2, <3>7, RefusedType DEF TypeOK
      <3>10. \A e \in Calls : Rotating(e)' => e # c /\ Rotating(e) /\ call'[e].id = call[e].id
        BY <2>2, RefusedType DEF Rotating, Idle
      <3>11. \A k \in Ids : session[k] # NoSession => session'[k] # NoSession
                                                      /\ session'[k].root = session[k].root
        BY <2>3, <3>1, <3>4, <3>8 DEF s
      <3>12. s.root \in Ids /\ session[s.root] # NoSession
        BY <2>3, <3>2 DEF RootsKnown, Session, s
      <3>13. RootsKnown'
        <4> SUFFICES ASSUME NEW k \in Ids, session'[k] # NoSession
                     PROVE  session'[session'[k].root] # NoSession
          BY DEF RootsKnown
        <4>1. CASE k = j
          BY <3>4, <3>8, <3>11, <3>12, <4>1
        <4>2. CASE k # j
          <5>1. session[k] # NoSession
            BY <2>3, <3>8, <4>2 DEF s
          <5>2. session[k].root \in Ids
            BY <5>1 DEF TypeOK, Session
          <5> QED
            BY <3>11, <5>1, <5>2 DEF RootsKnown
        <4> QED
          BY <4>1, <4>2
      <3>14. \A k \in Ids : (session[k] # NoSession /\ Live(k) /\ session[k].root = s.root) => k = i
        BY <2>3 DEF OneLivePerLogin, s
      <3>15. OneLivePerLogin'
        <4> SUFFICES ASSUME NEW k \in Ids, NEW l \in Ids,
                            session'[k] # NoSession, session'[l] # NoSession,
                            session'[k].status = "ACTIVE", session'[l].status = "ACTIVE",
                            session'[k].root = session'[l].root
                     PROVE  k = l
          BY DEF OneLivePerLogin, Live
        <4>1. k # i /\ l # i
          BY <3>4, <3>5, <3>8
        <4>2. CASE k = j \/ l = j
          BY <3>4, <3>8, <3>14, <4>1, <4>2 DEF Live
        <4>3. CASE k # j /\ l # j
          BY <3>8, <4>1, <4>3 DEF OneLivePerLogin, Live
        <4> QED
          BY <4>2, <4>3
      <3>16. \A e \in Calls : Rotating(e)' =>
                call[e].id \in Ids /\ call[e].id # i /\ call[e].id # j
        BY <2>3, <3>1, <3>10, CallFields DEF RotationHolds, Rotating
      <3>17. RotationHolds'
        BY <3>8, <3>10, <3>16 DEF RotationHolds, Live
      <3> QED
        BY <3>9, <3>13, <3>15, <3>17
    <2> QED
      BY <2>4, <2>5
  <1>4. ASSUME NEW i \in Ids, RequestRead(c, i)
        PROVE  AccessInv'
    <2> DEFINE ok == session[i].device = None \/ Bound(session[i].device, session[i].user)
               x == [at |-> "checkRoles", id |-> i, user |-> session[i].user,
                     station |-> session[i].station, deviceOk |-> ok,
                     era |-> ErasOf(session[i].user, session[i].opened)]
    <2>1. Goes(c, x) /\ UNCHANGED <<status, opens, bucket, device, station, session, era>>
      BY <1>4 DEF RequestRead, accounts, places
    <2>2. session[i] # NoSession
      BY <1>4 DEF RequestRead
    <2>3. ok \in BOOLEAN
      BY DEF Bound
    <2> HIDE DEF ok
    <2>4. x \in Call /\ x.at # "rotate"
      BY <2>2, <2>3, SessionType, ErasType DEF Call
    <2>5. TypeOK'
      BY <2>1, <2>4, GoesType DEF TypeOK
    <2> QED
      BY <2>1, <2>4, <2>5, Calm
  <1>5. ASSUME RequestRoles(c) \/ RequestStation(c)
        PROVE  AccessInv'
    <2>1. call[c] \in [at : {"checkRoles", "checkStation", "kill", "served"}, id : Ids, user : Users,
                       deviceOk : BOOLEAN, station : Stations \cup {None}, era : Eras]
      BY <1>5, CallFields DEF RequestRoles, RequestStation
    <2>2. PICK t \in {"checkStation", "kill", "served"} : Goes(c, [call[c] EXCEPT !.at = t])
      BY <1>5 DEF RequestRoles, RequestStation, Continues
    <2>3. UNCHANGED <<status, opens, bucket, device, station, session, era>>
      BY <1>5 DEF RequestRoles, RequestStation, accounts, places
    <2>4. [call[c] EXCEPT !.at = t] \in Call /\ [call[c] EXCEPT !.at = t].at # "rotate"
      BY <2>1 DEF Call
    <2>5. TypeOK'
      BY <2>2, <2>3, <2>4, GoesType DEF TypeOK
    <2> QED
      BY <2>2, <2>3, <2>4, <2>5, Calm
  <1>6. ASSUME RequestServed(c)
        PROVE  AccessInv'
    <2>1. Refused(c) /\ UNCHANGED <<status, opens, bucket, device, station, session, era>>
      BY <1>6 DEF RequestServed, accounts, places
    <2>2. Idle \in Call /\ Idle.at # "rotate"
      BY DEF Call, Idle
    <2>3. TypeOK'
      BY <2>1, RefusedType DEF TypeOK
    <2> QED
      BY <2>1, <2>2, <2>3, Calm DEF Refused
  <1>7. ASSUME RequestKill(c)
        PROVE  AccessInv'
    <2>1. Refused(c) /\ UNCHANGED <<status, opens, bucket, device, station, era>>
      BY <1>7 DEF RequestKill, accounts, places
    <2>2. call[c].id \in Ids /\ ~Locked(call[c].id) /\ session' = Revoked({call[c].id})
      BY <1>7, CallFields DEF RequestKill
    <2>3. {call[c].id} \in SUBSET Ids /\ \A i \in {call[c].id} : ~Locked(i)
      BY <2>2
    <2>4. session' \in [Ids -> Session \cup {NoSession}] /\ NoNewLife
      BY <2>2, <2>3, RevokedKeeps
    <2>5. TypeOK'
      BY <2>1, <2>4, RefusedType DEF TypeOK
    <2>6. NoNewRotation
      BY <2>1, RefusedType DEF NoNewRotation, Rotating, Idle
    <2> QED
      BY <2>4, <2>5, <2>6, StillOneLive
  <1> QED
    BY <1>1, <1>2, <1>3, <1>4, <1>5, <1>6, <1>7 DEF TokenStep

-----------------------------------------------------------------------------
(* The end of an access                                                    *)
LEMMA EndingType ==
    ASSUME NEW x \in Subjects, NEW t \in {"nothing", "assign", "give", "delete"},
           NEW u \in Users \cup {None}
    PROVE  /\ Ending(x, t, u) \in Call /\ Ending(x, t, u).at # "rotate"
           /\ [Ending(x, t, u) EXCEPT !.at = "last"] \in Call
           /\ [Ending(x, t, u) EXCEPT !.at = "last"].at # "rotate"
  BY DEF Ending, Call

(* The statement after the revocation, if there is one.                    *)
LEMMA AfterType ==
    ASSUME TypeOK, NEW c \in Calls, call[c].at \in {"ending", "waiting"}, AfterRevocation(c)
    PROVE  call' \in [Calls -> Call] /\ era' \in [Subjects -> Nat] /\ NoNewRotation
  <1>1. call[c] \in [at : {"ending", "waiting", "last"}, subject : Subjects, seen : SUBSET Ids,
                     then : {"nothing", "assign", "give", "delete"}, to : Users \cup {None}]
    BY CallFields
  <1>2. CASE Refused(c) /\ Ended(call[c].subject)
    <2>1. era' \in [Subjects -> Nat]
      BY <1>1, <1>2 DEF Ended, TypeOK
    <2> QED
      BY <1>2, <2>1, RefusedType DEF NoNewRotation, Rotating, Idle
  <1>3. CASE Continues(c, "last") /\ UNCHANGED era
    <2>1. [call[c] EXCEPT !.at = "last"] \in Call /\ [call[c] EXCEPT !.at = "last"].at # "rotate"
      BY <1>1 DEF Call
    <2> QED
      BY ZenonT(40), <1>3, <2>1, GoesType DEF Continues, NoNewRotation, Rotating, TypeOK
  <1> QED
    BY <1>2, <1>3 DEF AfterRevocation

LEMMA RevocationKeeps ==
    ASSUME AccessInv, NEW c \in Calls, RevokeSessions(c) \/ RevokeWaited(c)
    PROVE  AccessInv'
  <1> USE DEF AccessInv
  <1> DEFINE hit == Hit(call[c].subject)
  <1>1. call[c] \in [at : {"ending", "waiting", "last"}, subject : Subjects, seen : SUBSET Ids,
                     then : {"nothing", "assign", "give", "delete"}, to : Users \cup {None}]
    BY CallFields DEF RevokeSessions, RevokeWaited
  <1>2. UNCHANGED <<status, opens, bucket, device, station>>
    BY DEF RevokeSessions, RevokeWaited, accounts, places
  <1>3. hit \in SUBSET Ids
    BY DEF Hit
  <1>4. CASE Goes(c, [call[c] EXCEPT !.at = "waiting", !.seen = hit]) /\ UNCHANGED <<session, era>>
    <2> DEFINE x == [call[c] EXCEPT !.at = "waiting", !.seen = hit]
    <2>1. x \in Call /\ x.at # "rotate"
      BY <1>1, <1>3 DEF Call
    <2>2. TypeOK'
      BY <1>2, <1>4, <2>1, GoesType DEF TypeOK
    <2> QED
      BY <1>4, <2>1, <2>2, Calm
  <1>5. ASSUME NEW ids \in SUBSET Ids, \A i \in ids : ~Locked(i),
               session' = Revoked(ids), AfterRevocation(c), call[c].at \in {"ending", "waiting"}
        PROVE  AccessInv'
    <2>1. session' \in [Ids -> Session \cup {NoSession}] /\ NoNewLife
      BY <1>5, RevokedKeeps
    <2>2. call' \in [Calls -> Call] /\ era' \in [Subjects -> Nat] /\ NoNewRotation
      BY <1>5, AfterType
    <2>3. TypeOK'
      BY <1>2, <2>1, <2>2 DEF TypeOK
    <2> QED
      BY <2>1, <2>2, <2>3, StillOneLive
  <1>6. CASE RevokeSessions(c)
    BY <1>3, <1>4, <1>5, <1>6 DEF RevokeSessions
  <1>7. CASE RevokeWaited(c)
    <2>1. session' = Revoked(call[c].seen) /\ \A i \in call[c].seen : ~Locked(i)
      BY <1>7 DEF RevokeWaited
    <2>2. call[c].seen \in SUBSET Ids
      BY <1>1
    <2> QED
      BY <1>5, <1>7, <2>1, <2>2 DEF RevokeWaited
  <1> QED
    BY <1>6, <1>7

LEMMA LastKeeps ==
    ASSUME AccessInv, NEW c \in Calls, EndingLast(c)
    PROVE  AccessInv'
  <1> USE DEF AccessInv
  <1> DEFINE d == call[c].subject
             Row == [status : {"none", "ACTIVE", "DISABLED"}, holder : Users \cup {None}]
  <1>1. call[c] \in [at : {"ending", "waiting", "last"}, subject : Subjects, seen : SUBSET Ids,
                     then : {"nothing", "assign", "give", "delete"}, to : Users \cup {None}]
    BY CallFields DEF EndingLast
  <1>2. Refused(c) /\ UNCHANGED <<status, opens, bucket, station>>
    BY DEF EndingLast, accounts
  <1>3. NoNewRotation
    BY <1>2, RefusedType DEF NoNewRotation, Rotating, Idle
  <1>4. era' \in [Subjects -> Nat]
    BY <1>1 DEF EndingLast, Ended, TypeOK
  <1>5. device' \in [Devices -> Row]
    <2>1. device \in [Devices -> Row]
      BY DEF TypeOK
    <2>2. CASE device' = device
      BY <2>1, <2>2
    <2>3. CASE device' = [device EXCEPT ![d].holder = call[c].to]
      <3>1. CASE d \in Devices
        BY <1>1, <2>3, <3>1, HolderType
      <3>2. CASE d \notin Devices
        <4>1. device' = device
          BY <2>1, <2>3, <3>2
        <4> QED
          BY <2>1, <4>1
      <3> QED
        BY <3>1, <3>2
    <2>4. CASE device' = [device EXCEPT ![d] = [status |-> "none", holder |-> None]]
      BY <2>1, <2>4
    <2> QED
      BY <2>2, <2>3, <2>4 DEF EndingLast
  <1>6. session' \in [Ids -> Session \cup {NoSession}] /\ NoNewLife
    <2>1. CASE UNCHANGED session
      BY <2>1, SessionsAlone DEF TypeOK
    <2>2. CASE session' = [i \in Ids |-> IF Uses(i, d) THEN [session[i] EXCEPT !.device = None]
                                         ELSE session[i]]
      <3>1. \A i \in Ids : Uses(i, d) =>
               /\ session[i] # NoSession /\ session'[i] \in Session /\ session'[i] # NoSession
               /\ session'[i].root = session[i].root /\ session'[i].status = session[i].status
        <4> TAKE i \in Ids
        <4> HAVE Uses(i, d)
        <4>1. session[i] # NoSession /\ session'[i] = [session[i] EXCEPT !.device = None]
          BY <2>2 DEF Uses
        <4>2. session[i] \in Session /\ [session[i] EXCEPT !.device = None] \in Session
          BY <4>1, SessionType
        <4> QED
          BY <4>1, <4>2 DEF Session, NoSession
      <3>2. \A i \in Ids : ~Uses(i, d) => session'[i] = session[i]
        BY <2>2
      <3>3. session' \in [Ids -> Session \cup {NoSession}]
        BY <2>2, <3>1, <3>2 DEF TypeOK
      <3>4. NoNewLife
        BY <3>1, <3>2 DEF NoNewLife, Live
      <3> QED
        BY <3>3, <3>4
    <2> QED
      BY <2>1, <2>2 DEF EndingLast
  <1>7. TypeOK'
    BY <1>2, <1>4, <1>5, <1>6, RefusedType DEF TypeOK
  <1> QED
    BY <1>3, <1>6, <1>7, StillOneLive

LEMMA ControlKeeps ==
    ASSUME AccessInv, NEW c \in Calls, EndingStep(c)
    PROVE  AccessInv'
  <1> USE DEF AccessInv
  <1>1. ASSUME NEW x \in Call, Goes(c, x), x.at # "rotate",
               UNCHANGED <<opens, bucket, station, session, era>>,
               status' \in [Users -> {"ACTIVE", "LOCKED", "DISABLED"}],
               device' \in [Devices -> [status : {"none", "ACTIVE", "DISABLED"},
                                        holder : Users \cup {None}]]
        PROVE  AccessInv'
    <2>1. TypeOK'
      BY <1>1, GoesType DEF TypeOK
    <2> QED
      BY <1>1, <2>1, Calm
  <1>2. /\ status \in [Users -> {"ACTIVE", "LOCKED", "DISABLED"}]
        /\ device \in [Devices -> [status : {"none", "ACTIVE", "DISABLED"},
                                   holder : Users \cup {None}]]
    BY DEF TypeOK
  <1>3. Idle \in Call /\ Idle.at # "rotate"
    BY DEF Call, Idle
  <1>4. ASSUME NEW u \in Users,
               Disable(c, u) \/ BlockRead(c, u) \/ UnblockRead(c, u) \/ RemoveRead(c, u)
               \/ RevokeAll(c, u)
        PROVE  AccessInv'
    <2> DEFINE end == Ending(u, "nothing", None)
               to(s) == [at |-> "write", user |-> u, to |-> s]
    <2>1. end \in Call /\ end.at # "rotate"
      BY EndingType DEF Subjects
    <2>2. \A s \in {"LOCKED", "ACTIVE", "DISABLED"} : to(s) \in Call /\ to(s).at # "rotate"
      BY DEF Call
    <2>3. status' \in [Users -> {"ACTIVE", "LOCKED", "DISABLED"}] /\ device' = device
          /\ UNCHANGED <<opens, bucket, station, session, era>>
      BY <1>2, <1>4 DEF Disable, BlockRead, UnblockRead, RemoveRead, RevokeAll, accounts, places
    <2>4. Goes(c, end) \/ \E s \in {"LOCKED", "ACTIVE", "DISABLED"} : Goes(c, to(s))
      BY <1>4 DEF Disable, BlockRead, UnblockRead, RemoveRead, RevokeAll
    <2> HIDE DEF end, to
    <2> QED
      BY <1>1, <1>2, <2>1, <2>2, <2>3, <2>4
  <1>5. ASSUME ControlWrite(c)
        PROVE  AccessInv'
    <2> DEFINE end == Ending(call[c].user, "nothing", None)
    <2>1. call[c].user \in Users /\ call[c].to \in {"LOCKED", "ACTIVE", "DISABLED"}
      BY <1>5, CallFields DEF ControlWrite
    <2>2. end \in Call /\ end.at # "rotate"
      BY <2>1, EndingType DEF Subjects
    <2>3. status' \in [Users -> {"ACTIVE", "LOCKED", "DISABLED"}] /\ device' = device
          /\ UNCHANGED <<opens, bucket, station, session, era>>
      BY <1>2, <1>5, <2>1 DEF ControlWrite, places
    <2>4. Goes(c, Idle) \/ Goes(c, end)
      BY <1>5 DEF ControlWrite, Refused
    <2> HIDE DEF end
    <2> QED
      BY <1>1, <1>2, <1>3, <2>2, <2>3, <2>4
  <1>6. ASSUME NEW d \in Devices, NEW u \in Users \cup {None},
               DisableDevice(c, d) \/ RemoveDevice(c, d) \/ AssignDevice(c, d, u)
        PROVE  AccessInv'
    <2>1. \A t \in {"nothing", "assign", "give", "delete"}, v \in Users \cup {None} :
             /\ Ending(d, t, v) \in Call /\ Ending(d, t, v).at # "rotate"
             /\ [Ending(d, t, v) EXCEPT !.at = "last"] \in Call
             /\ [Ending(d, t, v) EXCEPT !.at = "last"].at # "rotate"
      BY EndingType DEF Subjects
    <2>2. PICK x \in Call : Goes(c, x) /\ x.at # "rotate"
      BY <1>6, <2>1 DEF DisableDevice, RemoveDevice, AssignDevice
    <2>3. status' = status /\ UNCHANGED <<opens, bucket, station, session, era>>
      BY <1>6 DEF DisableDevice, RemoveDevice, AssignDevice, accounts, places
    <2>4. device' = device \/ device' = [device EXCEPT ![d].status = "DISABLED"]
      BY <1>6 DEF DisableDevice, RemoveDevice, AssignDevice, places
    <2>5. device' \in [Devices -> [status : {"none", "ACTIVE", "DISABLED"},
                                   holder : Users \cup {None}]]
      BY <1>2, <2>4
    <2> QED
      BY <1>1, <1>2, <2>2, <2>3, <2>5
  <1> QED
    BY <1>4, <1>5, <1>6, RevocationKeeps, LastKeeps DEF EndingStep

(* Steps that are made in one statement, and time.                         *)
LEMMA OutsideKeeps ==
    ASSUME AccessInv, Outside
    PROVE  AccessInv'
  <1> USE DEF AccessInv
  <1>1. ASSUME NEW i \in Ids, Logout(i)
        PROVE  AccessInv'
    <2>1. session' \in [Ids -> Session \cup {NoSession}] /\ NoNewLife
      BY <1>1, RevokedKeeps DEF Logout
    <2>2. UNCHANGED <<status, opens, bucket, device, station, call, era>>
      BY <1>1 DEF Logout, accounts, places
    <2>3. TypeOK' /\ NoNewRotation
      BY <2>1, <2>2 DEF TypeOK, NoNewRotation, Rotating
    <2> QED
      BY <2>1, <2>3, StillOneLive
  <1>2. ASSUME NEW i \in Ids, SessionExpires(i)
        PROVE  AccessInv'
    <2> DEFINE x == [session[i] EXCEPT !.expired = TRUE]
    <2>1. session[i] # NoSession /\ session' = [session EXCEPT ![i] = x]
      BY <1>2 DEF SessionExpires
    <2>2. session[i] \in Session /\ x \in Session
      BY <2>1, SessionType
    <2>3. x.root = session[i].root /\ x.status = session[i].status /\ x # NoSession
      BY <2>2 DEF Session, NoSession
    <2> HIDE DEF x
    <2>4. session' \in [Ids -> Session \cup {NoSession}] /\ NoNewLife
      BY <2>1, <2>2, <2>3 DEF TypeOK, NoNewLife, Live
    <2>5. UNCHANGED <<status, opens, bucket, device, station, call, era>>
      BY <1>2 DEF SessionExpires, accounts, places
    <2>6. TypeOK' /\ NoNewRotation
      BY <2>4, <2>5 DEF TypeOK, NoNewRotation, Rotating
    <2> QED
      BY <2>4, <2>6, StillOneLive
  <1>3. ASSUME NEW u \in Users, Enable(u) \/ LockExpires(u) \/ WindowPasses(u)
        PROVE  AccessInv'
    <2>1. UNCHANGED <<opens, device, station, session, call, era>>
      BY <1>3 DEF Enable, LockExpires, WindowPasses, accounts, places
    <2>2. status' \in [Users -> {"ACTIVE", "LOCKED", "DISABLED"}]
      BY <1>3 DEF Enable, LockExpires, WindowPasses, accounts, TypeOK
    <2>4. bucket' \in [Users -> [fails : 0 .. MaxFailures, locked : BOOLEAN]]
      <3> DEFINE Row == [fails : 0 .. MaxFailures, locked : BOOLEAN]
                 open == [bucket[u] EXCEPT !.locked = FALSE]
                 empty == [bucket[u] EXCEPT !.fails = 0]
      <3>1. bucket \in [Users -> Row]
        BY DEF TypeOK
      <3>2. open \in Row /\ empty \in Row
        <4>1. bucket[u] \in Row /\ 0 \in 0 .. MaxFailures
          BY <3>1, AccessAssumption
        <4> QED
          BY <4>1
      <3>3. \/ bucket' = bucket
            \/ bucket' = [bucket EXCEPT ![u] = open]
            \/ bucket' = [bucket EXCEPT ![u] = empty]
        BY <1>3 DEF Enable, LockExpires, WindowPasses
      <3> HIDE DEF Row, open, empty
      <3>4. bucket' \in [Users -> Row]
        BY <3>1, <3>2, <3>3
      <3> QED
        BY <3>4 DEF Row
    <2>5. TypeOK'
      BY <2>1, <2>2, <2>4 DEF TypeOK
    <2> QED
      BY <2>1, <2>5, Aside
  <1>4. ASSUME NEW u \in Users, NEW apps \in SUBSET Applications, AssignRoles(u, apps)
        PROVE  AccessInv'
    <2>1. UNCHANGED <<status, bucket, device, station, session, call, era>>
      BY <1>4 DEF AssignRoles, places
    <2>2. TypeOK'
      BY <1>4, <2>1 DEF AssignRoles, TypeOK
    <2> QED
      BY <2>1, <2>2, Aside
  <1>5. ASSUME NEW d \in Devices, EnableDevice(d)
        PROVE  AccessInv'
    <2>1. UNCHANGED <<status, opens, bucket, station, session, call, era>>
      BY <1>5 DEF EnableDevice, accounts
    <2>2. device' \in [Devices -> [status : {"none", "ACTIVE", "DISABLED"},
                                   holder : Users \cup {None}]]
      BY SMTT(40), <1>5 DEF EnableDevice, TypeOK
    <2>3. TypeOK'
      BY <2>1, <2>2 DEF TypeOK
    <2> QED
      BY <2>1, <2>3, Aside
  <1>6. ASSUME NEW s \in Stations, NEW st \in {"ACTIVE", "OFF"}, NEW u \in Users \cup {None},
               SetStation(s, [status |-> st, worker |-> u])
        PROVE  AccessInv'
    <2>1. UNCHANGED <<status, opens, bucket, device, session, call, era>>
      BY <1>6 DEF SetStation, accounts
    <2>2. station' \in [Stations -> [status : {"ACTIVE", "OFF"}, worker : Users \cup {None}]]
      BY <1>6 DEF SetStation, TypeOK
    <2>3. TypeOK'
      BY <2>1, <2>2 DEF TypeOK
    <2> QED
      BY <2>1, <2>3, Aside
  <1>7. ASSUME Restart
        PROVE  AccessInv'
    <2>1. UNCHANGED <<status, opens, device, station, session, era>>
      BY <1>7 DEF Restart, accounts, places
    <2>2. call' = [c \in Calls |-> Idle] /\ Idle \in Call /\ Idle.at # "rotate"
      BY <1>7 DEF Restart, Call, Idle
    <2>3. /\ bucket' \in [Users -> [fails : 0 .. MaxFailures, locked : BOOLEAN]]
      BY <1>7, AccessAssumption DEF Restart
    <2>4. TypeOK'
      BY <2>1, <2>2, <2>3 DEF TypeOK
    <2>5. NoNewRotation
      BY <2>2 DEF NoNewRotation, Rotating
    <2> QED
      BY <2>1, <2>4, <2>5, SessionsAlone, StillOneLive
  <1> QED
    BY <1>1, <1>2, <1>3, <1>4, <1>5, <1>6, <1>7 DEF Outside

LEMMA DeadlockKeeps ==
    ASSUME AccessInv, NEW c \in Calls, NEW e \in Calls, Deadlocked(c, e)
    PROVE  AccessInv'
  <1> USE DEF AccessInv
  <1>1. PICK l \in Calls : Refused(l)
    BY DEF Deadlocked
  <1>2. UNCHANGED <<status, opens, bucket, device, station, session, era>>
    BY DEF Deadlocked, accounts, places
  <1>3. Idle \in Call /\ Idle.at # "rotate"
    BY DEF Call, Idle
  <1>4. TypeOK'
    BY <1>1, <1>2, RefusedType DEF TypeOK
  <1> QED
    BY <1>1, <1>2, <1>3, <1>4, Calm DEF Refused

-----------------------------------------------------------------------------
LEMMA AccessStarts ==
    ASSUME Init
    PROVE  AccessInv
  <1>1. Idle \in Call /\ Idle.at # "rotate"
    BY DEF Call, Idle
  <1>2. TypeOK
    BY <1>1, AccessAssumption DEF Init, TypeOK
  <1>3. OneLivePerLogin /\ RootsKnown
    BY DEF Init, OneLivePerLogin, RootsKnown
  <1>4. RotationHolds
    BY <1>1 DEF Init, RotationHolds, Rotating
  <1> QED
    BY <1>2, <1>3, <1>4 DEF AccessInv

LEMMA AccessKept ==
    ASSUME AccessInv, [Next]_vars
    PROVE  AccessInv'
  <1>1. CASE Next
    BY <1>1, LoginKeeps, TokenKeeps, ControlKeeps, OutsideKeeps, DeadlockKeeps DEF Next
  <1>2. CASE UNCHANGED vars
    <2>1. TypeOK'
      BY <1>2 DEF AccessInv, TypeOK, vars, accounts, places
    <2> QED
      BY <1>2, <2>1, Aside DEF vars
  <1> QED
    BY <1>1, <1>2

LEMMA AccessInvariant == Spec => []AccessInv
  BY AccessStarts, AccessKept, PTL DEF Spec

(* Every variable keeps its type, whatever is called at once.              *)
THEOREM AccessTypeCorrect == Spec => []TypeOK
  BY AccessInvariant, PTL DEF AccessInv

(* Of one login at most one session is alive, however many renewals of it  *)
(* run at once: the conditions of RefreshConsume are looked at when the    *)
(* lock of the row is taken, and the lock is held until the new session    *)
(* and the end of the old one are committed together.                      *)
THEOREM OneLiveSession == Spec => []OneLivePerLogin
  BY AccessInvariant, PTL DEF AccessInv
-----------------------------------------------------------------------------
(* What outlives the end of an access                                      *)

(* Stages of a request that is being checked or served, and stages of an   *)
(* ending whose UPDATE of the sessions has been sent.                      *)
Serving == {"checkRoles", "checkStation", "kill", "served"}
Special == Serving \cup {"consume", "rotate", "waiting", "last"}

(* A session that is alive and did not overlap an ending still has the     *)
(* device it was opened on, and no access of its has been ended since.     *)
RowTold(i) ==
    (session[i] # NoSession /\ Live(i) /\ ~session[i].late) =>
        /\ session[i].device = session[i].opened
        /\ session[i].era = ErasOf(session[i].user, session[i].opened)

Owned(i, x) == session[i] # NoSession /\ Live(i) /\ x \in {session[i].user, session[i].opened}

(* A request knows the era of its session, a renewal the device it was     *)
(* opened on; and a revocation that has looked at the sessions leaves none *)
(* alive but those it is about to revoke and those opened too late.        *)
CallTold(c) ==
    /\ call[c].at \in Serving =>
         /\ session[call[c].id] # NoSession
         /\ session[call[c].id].late \/ session[call[c].id].era = call[c].era
    /\ call[c].at \in {"consume", "rotate"} =>
         /\ session[call[c].id] # NoSession
         /\ session[call[c].id].late \/ session[call[c].id].opened = call[c].device
    /\ (call[c].at \in {"waiting", "last"} /\ call[c].then # "give") =>
         \A i \in Ids : Owned(i, call[c].subject) =>
             session[i].late \/ (call[c].at = "waiting" /\ i \in call[c].seen)

EraInv == (\A i \in Ids : RowTold(i)) /\ (\A c \in Calls : CallTold(c))

(* What no step changes in the row of a session.                           *)
RowsKeep ==
    \A i \in Ids : session[i] # NoSession =>
        /\ session'[i] # NoSession
        /\ session'[i].late = session[i].late /\ session'[i].era = session[i].era
        /\ session'[i].user = session[i].user /\ session'[i].opened = session[i].opened
        /\ session'[i].status = "ACTIVE" => Live(i)

(* A row inserted while an ending of its user or device has looked already *)
(* is late.                                                                *)
NewRowsApart ==
    \A i \in Ids : (session[i] = NoSession /\ session'[i] # NoSession) =>
        \/ session'[i].late
        \/ \A e \in Calls : call[e].at \in {"waiting", "last"} =>
               call[e].subject \notin {session'[i].user, session'[i].opened}

LEMMA StaysTold ==
    ASSUME TypeOK, NEW e \in Calls, CallTold(e), call'[e] = call[e], RowsKeep, NewRowsApart
    PROVE  CallTold(e)'
  <1>1. call[e].at \in Serving \cup {"consume", "rotate"} => call[e].id \in Ids
    BY CallFields DEF Serving
  <1>2. ASSUME call[e].at \in {"waiting", "last"}, call[e].then # "give",
               NEW i \in Ids, Owned(i, call[e].subject)'
        PROVE  session'[i].late \/ (call[e].at = "waiting" /\ i \in call[e].seen)
    <2>1. CASE session[i] = NoSession
      BY <1>2, <2>1 DEF NewRowsApart, Owned
    <2>2. CASE session[i] # NoSession
      BY <1>2, <2>2 DEF RowsKeep, Owned, CallTold, Live
    <2> QED
      BY <2>1, <2>2
  <1> QED
    BY <1>1, <1>2 DEF CallTold, RowsKeep, Owned, Live

LEMMA PlainTold ==
    ASSUME NEW e \in Calls, call'[e].at \notin Special
    PROVE  CallTold(e)'
  BY DEF CallTold, Special, Serving

(* One call moves, and nothing happens to sessions or eras.                *)
LEMMA AloneTold ==
    ASSUME TypeOK, EraInv, UNCHANGED <<session, era>>,
           \A e \in Calls : call'[e] = call[e] \/ CallTold(e)'
    PROVE  EraInv'
  <1>1. RowsKeep /\ NewRowsApart
    BY DEF RowsKeep, NewRowsApart, Live
  <1>2. \A e \in Calls : CallTold(e)'
    BY <1>1, StaysTold DEF EraInv
  <1>3. \A i \in Ids : RowTold(i)'
    BY DEF EraInv, RowTold, Live, ErasOf
  <1> QED
    BY <1>2, <1>3 DEF EraInv

(* Only the stage of the call moves on.                                    *)
LEMMA ContinuesAt ==
    ASSUME TypeOK, NEW c \in Calls, NEW t, Continues(c, t)
    PROVE  /\ call'[c] = [call[c] EXCEPT !.at = t] /\ call'[c].at = t
           /\ \A e \in Calls : e # c => call'[e] = call[e]
  <1>1. call' = [call EXCEPT ![c] = [call[c] EXCEPT !.at = t]] /\ call \in [Calls -> Call]
    BY DEF Continues, Goes, TypeOK
  <1>2. call[c] \in Call
    BY <1>1
  <1>3. [call[c] EXCEPT !.at = t].at = t
    BY <1>2 DEF Call, Login, Idle
  <1> QED
    BY <1>1, <1>3

LEMMA GoesAt ==
    ASSUME TypeOK, NEW c \in Calls, NEW x, Goes(c, x)
    PROVE  call'[c] = x /\ \A e \in Calls : e # c => call'[e] = call[e]
  BY DEF TypeOK, Goes

LEMMA LoginTold ==
    ASSUME TypeOK, EraInv, NEW c \in Calls, LoginStep(c), ~LoginCreate(c)
    PROVE  EraInv'
  <1>1. UNCHANGED <<session, era>>
    BY DEF LoginStep, LoginStart, WrongSecret, RightSecret, LoginRoles, LoginDevice, LoginBind,
           LoginStation
  <1>2. \/ \E x : Goes(c, x) /\ x.at \notin Special
        \/ \E t \in {"roles", "station", "device"} : Continues(c, t)
    <2>1. Idle.at \notin Special
      BY DEF Idle, Special, Serving
    <2>2. \A u, a, d, r : [at |-> "secret", user |-> u, application |-> a, device |-> d, era |-> r].at
                             \notin Special
      BY DEF Special, Serving
    <2>3. \A u, a, r : [at |-> "create", user |-> u, era |-> r, application |-> a,
                        device |-> None, station |-> None].at \notin Special
      BY DEF Special, Serving
    <2>4. \A u, a, d, r, h : [at |-> "bind", user |-> u, application |-> a, device |-> d,
                              era |-> r, holder |-> h].at \notin Special
      BY DEF Special, Serving
    <2>5. \A u, a, d, r : [at |-> "station", user |-> u, device |-> d, application |-> a,
                           era |-> r].at \notin Special
      BY DEF Special, Serving
    <2>6. \A u, a, d, r, s : [at |-> "create", user |-> u, application |-> a, device |-> d,
                              era |-> r, station |-> s].at \notin Special
      BY DEF Special, Serving
    <2> QED
      BY <2>1, <2>2, <2>3, <2>4, <2>5, <2>6
      DEF LoginStep, LoginStart, WrongSecret, RightSecret, LoginRoles, LoginDevice, LoginBind,
          LoginStation, Refused
  <1>3. call'[c].at \notin Special /\ \A e \in Calls : e # c => call'[e] = call[e]
    <2>1. CASE \E x : Goes(c, x) /\ x.at \notin Special
      BY <2>1, GoesAt
    <2>2. CASE \E t \in {"roles", "station", "device"} : Continues(c, t)
      BY <2>2, ContinuesAt DEF Special, Serving
    <2> QED
      BY <1>2, <2>1, <2>2
  <1> QED
    BY <1>1, <1>3, PlainTold, AloneTold

(* The insert of a login: the session is late if an ending overlapped it.  *)
LEMMA CreateTold ==
    ASSUME TypeOK, EraInv, NEW c \in Calls, LoginCreate(c)
    PROVE  EraInv'
  <1> USE AccessAssumption
  <1>1. Refused(c) /\ UNCHANGED era
    BY DEF LoginCreate
  <1>2. call'[c].at \notin Special /\ \A e \in Calls : e # c => call'[e] = call[e]
    BY <1>1, RefusedType DEF Idle, Special, Serving
  <1>3. CASE UNCHANGED session
    BY <1>1, <1>2, <1>3, PlainTold, AloneTold
  <1>4. CASE session' # session
    <2> DEFINE u == call[c].user
               d == call[c].device
               late == LateNow(u, d, call[c].era)
               row(i) == [status |-> "ACTIVE", user |-> u,
                          application |-> call[c].application, device |-> d,
                          station |-> call[c].station, expired |-> FALSE, root |-> i,
                          late |-> late, opened |-> d, era |-> call[c].era]
    <2>1. PICK i \in Ids : session[i] = NoSession /\ session' = [session EXCEPT ![i] = row(i)]
      BY <1>4 DEF LoginCreate
    <2>2. /\ row(i).user = u /\ row(i).opened = d /\ row(i).device = d /\ row(i).late = late
          /\ row(i).era = call[c].era
      OBVIOUS
    <2>3. u \in Users /\ d \in Devices \cup {None}
      BY CallFields DEF LoginCreate
    <2>4. late \/ (/\ ErasOf(u, d) = call[c].era
                   /\ \A e \in Calls : call[e].at \in {"waiting", "last"} =>
                         call[e].subject \notin {u, d})
      <3>1. \A e \in Calls : call[e].at \in {"waiting", "last"} => call[e].subject \in Users \cup Devices
        BY CallFields DEF Subjects
      <3>2. None \notin Users \cup Devices
        OBVIOUS
      <3> QED
        BY <2>3, <3>1, <3>2 DEF LateNow, Missed
    <2> HIDE DEF row, late
    <2>5. \A j \in Ids : session'[j] = IF j = i THEN row(i) ELSE session[j]
      BY <2>1 DEF TypeOK
    <2>6. RowsKeep /\ NewRowsApart
      BY <2>1, <2>2, <2>4, <2>5 DEF RowsKeep, NewRowsApart, Live
    <2>7. \A e \in Calls : CallTold(e)'
      BY <1>2, <2>6, PlainTold, StaysTold DEF EraInv
    <2>8. \A j \in Ids : RowTold(j)'
      <3> TAKE j \in Ids
      <3>1. CASE j = i
        BY <1>1, <2>2, <2>4, <2>5, <3>1 DEF RowTold, ErasOf
      <3>2. CASE j # i
        BY <1>1, <2>5, <3>2 DEF RowTold, ErasOf, EraInv, Live
      <3> QED
        BY <3>1, <3>2
    <2> QED
      BY <2>7, <2>8 DEF EraInv
  <1> QED
    BY <1>3, <1>4


(* The reading steps of renewals and requests, and the answers.            *)
LEMMA TokenTold ==
    ASSUME AccessInv, EraInv, NEW c \in Calls, TokenStep(c), ~RefreshCreate(c), ~RequestKill(c)
    PROVE  EraInv'
  <1> USE DEF AccessInv
  <1>1. UNCHANGED <<session, era>>
    BY DEF TokenStep, RefreshRead, RequestRead, RefreshConsume, RequestRoles, RequestStation,
           RequestServed
  <1>2. ASSUME NEW i \in Ids, RefreshRead(c, i)
        PROVE  EraInv'
    <2> DEFINE x == [at |-> "consume", id |-> i, device |-> session[i].device,
                     station |-> session[i].station,
                     era |-> ErasOf(session[i].user, session[i].device)]
    <2>1. Goes(c, x) /\ session[i] # NoSession /\ Live(i)
      BY <1>2 DEF RefreshRead
    <2>2. x.at = "consume" /\ x.id = i /\ x.device = session[i].device
      OBVIOUS
    <2> HIDE DEF x
    <2>3. call'[c] = x /\ \A e \in Calls : e # c => call'[e] = call[e]
      BY <2>1, GoesAt
    <2>4. session[i].late \/ session[i].opened = session[i].device
      BY <2>1 DEF EraInv, RowTold
    <2>5. CallTold(c)'
      BY <1>1, <2>1, <2>2, <2>3, <2>4 DEF CallTold, Serving
    <2> QED
      BY <1>1, <2>3, <2>5, AloneTold
  <1>3. ASSUME NEW i \in Ids, RequestRead(c, i)
        PROVE  EraInv'
    <2> DEFINE ok == session[i].device = None \/ Bound(session[i].device, session[i].user)
               now == ErasOf(session[i].user, session[i].opened)
               x == [at |-> "checkRoles", id |-> i, user |-> session[i].user,
                     station |-> session[i].station, deviceOk |-> ok, era |-> now]
    <2>1. Goes(c, x) /\ session[i] # NoSession /\ Live(i)
      BY <1>3 DEF RequestRead
    <2>2. x.at = "checkRoles" /\ x.id = i /\ x.era = now
      OBVIOUS
    <2>4. session[i].late \/ session[i].era = now
      BY <2>1 DEF EraInv, RowTold
    <2> HIDE DEF x, now
    <2>3. call'[c] = x /\ \A e \in Calls : e # c => call'[e] = call[e]
      BY <2>1, GoesAt
    <2>5. CallTold(c)'
      BY <1>1, <2>1, <2>2, <2>3, <2>4 DEF CallTold, Serving
    <2> QED
      BY <1>1, <2>3, <2>5, AloneTold
  <1>4. ASSUME RefreshConsume(c), Continues(c, "rotate")
        PROVE  EraInv'
    <2>1. /\ call'[c] = [call[c] EXCEPT !.at = "rotate"] /\ call'[c].at = "rotate"
          /\ \A e \in Calls : e # c => call'[e] = call[e]
      BY <1>4, ContinuesAt
    <2>2. call[c] \in [at : {"consume", "rotate"}, id : Ids, device : Devices \cup {None},
                       station : Stations \cup {None}, era : Eras]
      BY <1>4, CallFields DEF RefreshConsume
    <2>3. call'[c].id = call[c].id /\ call'[c].device = call[c].device
      BY <2>1, <2>2
    <2>4. CallTold(c) /\ call[c].at = "consume"
      BY <1>4 DEF EraInv, RefreshConsume
    <2>5. CallTold(c)'
      BY <1>1, <2>1, <2>3, <2>4 DEF CallTold, Serving
    <2> QED
      BY <1>1, <2>1, <2>5, AloneTold
  <1>5. ASSUME RequestRoles(c) \/ RequestStation(c)
        PROVE  EraInv'
    <2>1. PICK t \in Serving : Continues(c, t)
      BY <1>5 DEF RequestRoles, RequestStation, Serving
    <2>2. call'[c] = [call[c] EXCEPT !.at = t] /\ call'[c].at = t
          /\ \A e \in Calls : e # c => call'[e] = call[e]
      BY <2>1, ContinuesAt
    <2>3. call[c] \in [at : {"checkRoles", "checkStation", "kill", "served"}, id : Ids,
                       user : Users, deviceOk : BOOLEAN, station : Stations \cup {None}, era : Eras]
          /\ call[c].at \in Serving
      BY <1>5, CallFields DEF RequestRoles, RequestStation, Serving
    <2>4. call'[c].id = call[c].id /\ call'[c].era = call[c].era
      BY <2>2, <2>3
    <2>5. CallTold(c)'
      BY <1>1, <2>2, <2>3, <2>4 DEF CallTold, EraInv, Serving
    <2> QED
      BY <1>1, <2>2, <2>5, AloneTold
  <1>6. ASSUME Refused(c)
        PROVE  EraInv'
    <2>1. call'[c].at \notin Special /\ \A e \in Calls : e # c => call'[e] = call[e]
      BY <1>6, RefusedType DEF Idle, Special, Serving
    <2> QED
      BY <1>1, <2>1, PlainTold, AloneTold
  <1>7. CASE RefreshConsume(c)
    BY <1>4, <1>6, <1>7 DEF RefreshConsume
  <1>8. CASE RequestServed(c)
    BY <1>6, <1>8 DEF RequestServed
  <1> QED
    BY <1>2, <1>3, <1>5, <1>7, <1>8 DEF TokenStep

(* The insert of a renewal: the new session takes the era of the old one,  *)
(* which has not been ended since it was read.                             *)
LEMMA RotateTold ==
    ASSUME AccessInv, EraInv, NEW c \in Calls, RefreshCreate(c)
    PROVE  EraInv'
  <1> USE AccessAssumption DEF AccessInv
  <1>1. Refused(c) /\ UNCHANGED era
    BY DEF RefreshCreate
  <1>2. call'[c].at \notin Special /\ \A e \in Calls : e # c => call'[e] = call[e]
    BY <1>1, RefusedType DEF Idle, Special, Serving
  <1>3. CASE UNCHANGED session
    BY <1>1, <1>2, <1>3, PlainTold, AloneTold
  <1>4. CASE session' # session
    <2> DEFINE i == call[c].id
               d == call[c].device
               s == session[call[c].id]
               missed == LateNow(s.user, s.opened, call[c].era)
               new == [s EXCEPT !.status = "ACTIVE", !.device = d, !.station = call[c].station,
                                !.expired = FALSE, !.late = @ \/ missed]
               old == [s EXCEPT !.status = "REVOKED"]
    <2>0. i \in Ids /\ call[c].at = "rotate" /\ CallTold(c)
      BY CallFields DEF RefreshCreate, EraInv
    <2>1. s # NoSession /\ (s.late \/ s.opened = d) /\ Live(i) /\ RowTold(i)
      BY <2>0 DEF CallTold, RotationHolds, Rotating, EraInv
    <2>2. s \in Session
      BY <2>0, <2>1 DEF TypeOK
    <2>3. s.user \in Users /\ s.opened \in Devices \cup {None} /\ s.late \in BOOLEAN
          /\ missed \in BOOLEAN
      BY <2>2 DEF Session, LateNow
    <2>4. PICK j \in Ids : session[j] = NoSession
                           /\ session' = [session EXCEPT ![i].status = "REVOKED", ![j] = new]
      BY <1>4 DEF RefreshCreate
    <2>5. j # i
      BY <2>1, <2>4
    <2>6. missed \/ (/\ ErasOf(s.user, s.opened) = call[c].era
                     /\ \A e \in Calls : call[e].at \in {"waiting", "last"} =>
                           call[e].subject \notin {s.user, s.opened})
      <3>1. \A e \in Calls : call[e].at \in {"waiting", "last"} => call[e].subject \in Users \cup Devices
        BY CallFields DEF Subjects
      <3>2. None \notin Users \cup Devices
        OBVIOUS
      <3> QED
        BY <2>3, <3>1, <3>2 DEF LateNow, Missed
    <2>7. s.late \/ s.era = ErasOf(s.user, s.opened)
      BY <2>1 DEF RowTold
    <2> HIDE DEF missed
    <2>8. /\ new.user = s.user /\ new.opened = s.opened /\ new.era = s.era /\ new.device = d
          /\ new.late = (s.late \/ missed)
          /\ old.user = s.user /\ old.opened = s.opened /\ old.era = s.era /\ old.late = s.late
          /\ old.status = "REVOKED" /\ old # NoSession
      BY <2>2, <2>3 DEF Session, NoSession
    <2>9. /\ \A k \in Ids : k # i /\ k # j => session'[k] = session[k]
          /\ session'[i] = old /\ session'[j] = new
      BY <2>0, <2>4, <2>5 DEF TypeOK
    <2> HIDE DEF new, old
    <2>10. RowsKeep /\ NewRowsApart
      <3>1. RowsKeep
        BY <2>1, <2>4, <2>8, <2>9 DEF RowsKeep, Live
      <3>2. NewRowsApart
        BY <2>1, <2>6, <2>8, <2>9 DEF NewRowsApart
      <3> QED
        BY <3>1, <3>2
    <2>11. \A e \in Calls : CallTold(e)'
      BY <1>2, <2>10, PlainTold, StaysTold DEF EraInv
    <2>12. \A k \in Ids : RowTold(k)'
      <3> TAKE k \in Ids
      <3>1. CASE k = j
        BY <1>1, <2>1, <2>7, <2>8, <2>9, <3>1 DEF RowTold, ErasOf
      <3>2. CASE k = i
        BY <2>8, <2>9, <3>2 DEF RowTold, Live
      <3>3. CASE k # i /\ k # j
        BY <1>1, <2>9, <3>3 DEF RowTold, ErasOf, EraInv, Live
      <3> QED
        BY <3>1, <3>2, <3>3
    <2> QED
      BY <2>11, <2>12 DEF EraInv
  <1> QED
    BY <1>3, <1>4


(* Sessions that are revoked keep what the invariant speaks of.            *)
LEMMA RevokedRows ==
    ASSUME TypeOK, NEW ids \in SUBSET Ids, session' = Revoked(ids)
    PROVE  /\ RowsKeep /\ NewRowsApart
           /\ \A i \in Ids : (session'[i] # NoSession /\ session'[i].status = "ACTIVE")
                             => session'[i] = session[i] /\ i \notin ids
  <1> DEFINE hit == {i \in ids : Live(i)}
             end(i) == [session[i] EXCEPT !.status = "REVOKED"]
  <1>1. \A i \in Ids : session'[i] = IF i \in hit THEN end(i) ELSE session[i]
    BY DEF Revoked
  <1>2. \A i \in hit : /\ session[i] # NoSession /\ end(i) # NoSession /\ end(i).status = "REVOKED"
                       /\ end(i).late = session[i].late /\ end(i).era = session[i].era
                       /\ end(i).user = session[i].user /\ end(i).opened = session[i].opened
    <2> TAKE i \in hit
    <2>1. i \in Ids /\ session[i] # NoSession
      BY DEF Live, NoSession
    <2>2. session[i] \in Session
      BY <2>1 DEF TypeOK
    <2> QED
      BY <2>1, <2>2 DEF Session, NoSession
  <1> HIDE DEF end
  <1>3. RowsKeep
    BY <1>1, <1>2 DEF RowsKeep, Live
  <1>4. NewRowsApart
    BY <1>1, <1>2 DEF NewRowsApart
  <1>5. \A i \in Ids : (session'[i] # NoSession /\ session'[i].status = "ACTIVE")
                       => session'[i] = session[i] /\ i \notin ids
    BY <1>1, <1>2 DEF Live
  <1> QED
    BY <1>3, <1>4, <1>5

(* The steps that revoke without ending an access.                         *)
LEMMA KillTold ==
    ASSUME TypeOK, EraInv, UNCHANGED era, NEW ids \in SUBSET Ids, session' = Revoked(ids),
           \A e \in Calls : call'[e] = call[e] \/ call'[e].at \notin Special
    PROVE  EraInv'
  <1>1. \A e \in Calls : CallTold(e)'
    BY RevokedRows, PlainTold, StaysTold DEF EraInv
  <1>2. \A i \in Ids : RowTold(i)'
    BY RevokedRows DEF EraInv, RowTold, ErasOf, Live
  <1> QED
    BY <1>1, <1>2 DEF EraInv

(* The UPDATE of an ending: of the sessions of its subject only those stay *)
(* alive that were opened too late for it.                                 *)
LEMMA UpdateTold ==
    ASSUME AccessInv, EraInv, NEW c \in Calls, call[c].at \in {"ending", "waiting"},
           NEW ids \in SUBSET Ids, session' = Revoked(ids), AfterRevocation(c),
           call[c].then # "give" =>
               \A i \in Ids : Owned(i, call[c].subject) => session[i].late \/ i \in ids
    PROVE  EraInv'
  <1> USE AccessAssumption DEF AccessInv
  <1>0. PICK x : x = call[c].subject
    OBVIOUS
  <1>1. call[c] \in [at : {"ending", "waiting", "last"}, subject : Subjects, seen : SUBSET Ids,
                     then : {"nothing", "assign", "give", "delete"}, to : Users \cup {None}]
    BY CallFields
  <1>2. RowsKeep /\ NewRowsApart
    BY RevokedRows
  <1>3. \A i \in Ids : (session'[i] # NoSession /\ session'[i].status = "ACTIVE")
                       => session'[i] = session[i] /\ i \notin ids
    BY RevokedRows
  <1>4. CASE call[c].then = "nothing"
    <2>1. Refused(c) /\ Ended(x)
      BY <1>0, <1>4 DEF AfterRevocation
    <2>2. \A e \in Calls : call'[e] = call[e] \/ call'[e].at \notin Special
      BY <2>1, RefusedType DEF Idle, Special, Serving
    <2>3. \A e \in Calls : CallTold(e)'
      BY <1>2, <2>2, PlainTold, StaysTold DEF EraInv
    <2>4. \A i \in Ids : RowTold(i)'
      <3> TAKE i \in Ids
      <3> SUFFICES ASSUME session'[i] # NoSession, session'[i].status = "ACTIVE",
                          ~session'[i].late
                   PROVE  /\ session'[i].device = session'[i].opened
                          /\ session'[i].era = ErasOf(session[i].user, session[i].opened)'
        BY DEF RowTold, Live
      <3>1. session'[i] = session[i] /\ i \notin ids
        BY <1>3
      <3>2. ~Owned(i, x)
        BY <1>0, <1>4, <3>1
      <3>3. session[i].user # x /\ session[i].opened # x
        BY <3>1, <3>2 DEF Owned, Live
      <3>4. session[i].user \in Users /\ session[i].opened \in Devices \cup {None}
        BY <3>1, SessionType
      <3>5. \A y \in Subjects : y # x => era'[y] = era[y]
        BY <2>1 DEF Ended, TypeOK
      <3>6. ErasOf(session[i].user, session[i].opened)' = ErasOf(session[i].user, session[i].opened)
        BY <3>1, <3>3, <3>4, <3>5 DEF ErasOf, Subjects
      <3> QED
        BY <3>1, <3>6 DEF EraInv, RowTold, Live
    <2> QED
      BY <2>3, <2>4 DEF EraInv
  <1>5. CASE call[c].then # "nothing"
    <2>1. Continues(c, "last") /\ UNCHANGED era
      BY <1>5 DEF AfterRevocation
    <2>2. /\ call'[c] = [call[c] EXCEPT !.at = "last"] /\ call'[c].at = "last"
          /\ \A e \in Calls : e # c => call'[e] = call[e]
      BY <2>1, ContinuesAt
    <2>3. call'[c].subject = x /\ call'[c].then = call[c].then
      BY <1>0, <1>1, <2>2
    <2>4. CallTold(c)'
      <3>1. call[c].then # "give" => \A i \in Ids : Owned(i, x)' => session'[i].late
        BY <1>0, <1>3 DEF Owned, Live
      <3> QED
        BY <2>2, <2>3, <3>1 DEF CallTold, Serving, Owned
    <2>5. \A e \in Calls : CallTold(e)'
      BY <1>2, <2>2, <2>4, StaysTold DEF EraInv
    <2>6. \A i \in Ids : RowTold(i)'
      BY <1>3, <2>1 DEF EraInv, RowTold, ErasOf, Live
    <2> QED
      BY <2>5, <2>6 DEF EraInv
  <1> QED
    BY <1>4, <1>5

LEMMA RevocationTold ==
    ASSUME AccessInv, EraInv, NEW c \in Calls, RevokeSessions(c) \/ RevokeWaited(c)
    PROVE  EraInv'
  <1> USE DEF AccessInv
  <1> DEFINE x == call[c].subject
             hit == Hit(x)
  <1>1. call[c] \in [at : {"ending", "waiting", "last"}, subject : Subjects, seen : SUBSET Ids,
                     then : {"nothing", "assign", "give", "delete"}, to : Users \cup {None}]
    BY CallFields DEF RevokeSessions, RevokeWaited
  <1>2. hit \in SUBSET Ids
    BY DEF Hit
  <1>3. \A i \in Ids : Owned(i, x) => session[i].late \/ i \in hit
    BY DEF Owned, Hit, EraInv, RowTold
  <1> HIDE DEF hit
  <1>4. CASE Goes(c, [call[c] EXCEPT !.at = "waiting", !.seen = hit]) /\ UNCHANGED <<session, era>>
    <2> DEFINE y == [call[c] EXCEPT !.at = "waiting", !.seen = hit]
    <2>1. y.at = "waiting" /\ y.subject = x /\ y.seen = hit
      BY <1>1
    <2> HIDE DEF y
    <2>2. call'[c] = y /\ \A e \in Calls : e # c => call'[e] = call[e]
      BY <1>4, GoesAt DEF y
    <2>3. CallTold(c)'
      BY <1>3, <1>4, <2>1, <2>2 DEF CallTold, Serving, Owned, Live
    <2> QED
      BY <1>4, <2>2, <2>3, AloneTold
  <1>5. CASE RevokeSessions(c) /\ ~(Goes(c, [call[c] EXCEPT !.at = "waiting", !.seen = hit])
                                    /\ UNCHANGED <<session, era>>)
    <2>1. session' = Revoked(hit) /\ AfterRevocation(c) /\ call[c].at = "ending"
      BY <1>5 DEF RevokeSessions, hit
    <2> QED
      BY <1>2, <1>3, <2>1, UpdateTold
  <1>6. CASE RevokeWaited(c)
    <2>1. /\ session' = Revoked(call[c].seen) /\ AfterRevocation(c) /\ call[c].at = "waiting"
          /\ call[c].seen \in SUBSET Ids
      BY <1>1, <1>6 DEF RevokeWaited
    <2>2. CallTold(c)
      BY DEF EraInv
    <2>3. call[c].then # "give" =>
            \A i \in Ids : Owned(i, x) => session[i].late \/ i \in call[c].seen
      BY <2>1, <2>2 DEF CallTold
    <2> QED
      BY <2>1, <2>3, UpdateTold
  <1> QED
    BY <1>4, <1>5, <1>6

(* The statement that comes last: the assignment, or the deletion, which   *)
(* takes the device off the sessions that missed the revocation.           *)
LEMMA LastTold ==
    ASSUME AccessInv, EraInv, NEW c \in Calls, EndingLast(c)
    PROVE  EraInv'
  <1> USE AccessAssumption DEF AccessInv
  <1> DEFINE d == call[c].subject
             bare(i) == [session[i] EXCEPT !.device = None]
  <1>1. call[c] \in [at : {"ending", "waiting", "last"}, subject : Subjects, seen : SUBSET Ids,
                     then : {"nothing", "assign", "give", "delete"}, to : Users \cup {None}]
        /\ call[c].at = "last"
    BY CallFields DEF EndingLast
  <1>2. Refused(c)
    BY DEF EndingLast
  <1>3. \A e \in Calls : call'[e] = call[e] \/ call'[e].at \notin Special
    BY <1>2, RefusedType DEF Idle, Special, Serving
  <1>4. CASE UNCHANGED <<session, era>>
    BY <1>3, <1>4, PlainTold, AloneTold
  <1>5. ASSUME call[c].then # "give", UNCHANGED era \/ Ended(d),
               \A i \in Ids : session'[i] = session[i] \/ (Uses(i, d) /\ session'[i] = bare(i))
        PROVE  EraInv'
    <2>1. \A i \in Ids : Owned(i, d) => session[i].late
      BY <1>1, <1>5 DEF EraInv, CallTold
    <2>2. \A i \in Ids : session[i] # NoSession =>
            /\ bare(i) # NoSession /\ bare(i).status = session[i].status
            /\ bare(i).late = session[i].late /\ bare(i).era = session[i].era
            /\ bare(i).user = session[i].user /\ bare(i).opened = session[i].opened
      <3> TAKE i \in Ids
      <3> HAVE session[i] # NoSession
      <3>1. session[i] \in Session
        BY SessionType
      <3> QED
        BY <3>1 DEF Session, NoSession
    <2>3. \A i \in Ids : Uses(i, d) => session[i] # NoSession /\ session[i].device = d
      BY DEF Uses
    <2> HIDE DEF bare
    <2>4. RowsKeep /\ NewRowsApart
      BY <1>5, <2>2, <2>3 DEF RowsKeep, NewRowsApart, Live
    <2>5. \A e \in Calls : CallTold(e)'
      BY <1>3, <2>4, PlainTold, StaysTold DEF EraInv
    <2>6. \A i \in Ids : RowTold(i)'
      <3> TAKE i \in Ids
      <3> SUFFICES ASSUME session'[i] # NoSession, session'[i].status = "ACTIVE",
                          ~session'[i].late
                   PROVE  /\ session'[i].device = session'[i].opened
                          /\ session'[i].era = ErasOf(session[i].user, session[i].opened)'
        BY DEF RowTold, Live
      <3>1. session[i] # NoSession /\ session[i].status = "ACTIVE" /\ ~session[i].late
        BY <1>5, <2>2, <2>3
      <3>2. ~Owned(i, d) /\ session[i].device = session[i].opened
            /\ session[i].era = ErasOf(session[i].user, session[i].opened)
        BY <2>1, <3>1 DEF EraInv, RowTold, Live
      <3>3. session[i].user # d /\ session[i].opened # d
        BY <3>1, <3>2 DEF Owned, Live
      <3>4. session'[i] = session[i]
        BY <1>5, <2>3, <3>2, <3>3
      <3>5. session[i].user \in Users /\ session[i].opened \in Devices \cup {None}
        BY <3>1, SessionType
      <3>6. \A y \in Subjects : y # d => era'[y] = era[y]
        BY <1>5 DEF Ended, TypeOK
      <3>7. ErasOf(session[i].user, session[i].opened)' = ErasOf(session[i].user, session[i].opened)
        BY <3>3, <3>4, <3>5, <3>6 DEF ErasOf, Subjects
      <3> QED
        BY <3>2, <3>4, <3>7
    <2> QED
      BY <2>5, <2>6 DEF EraInv
  <1>6. \/ UNCHANGED <<session, era>>
        \/ /\ call[c].then = "assign" /\ Ended(d) /\ UNCHANGED session
        \/ /\ call[c].then \notin {"assign", "give"} /\ Ended(d)
           /\ session' = [i \in Ids |-> IF Uses(i, d) THEN bare(i) ELSE session[i]]
    BY DEF EndingLast
  <1> QED
    BY <1>4, <1>5, <1>6


(* The other steps of the endings, which only move their call, and the     *)
(* steps outside the calls.                                                *)
LEMMA ControlTold ==
    ASSUME AccessInv, EraInv, NEW c \in Calls, EndingStep(c)
    PROVE  EraInv'
  <1> USE DEF AccessInv
  <1>1. ASSUME UNCHANGED <<session, era>>, NEW x, Goes(c, x), x.at \notin Special
        PROVE  EraInv'
    <2>1. \A e \in Calls : call'[e] = call[e] \/ call'[e].at \notin Special
      BY <1>1, GoesAt
    <2> QED
      BY <1>1, <2>1, PlainTold, AloneTold
  <1>2. /\ Idle.at \notin Special
        /\ \A y, t, u : Ending(y, t, u).at \notin Special
        /\ \A u, to : [at |-> "write", user |-> u, to |-> to].at \notin Special
    BY DEF Idle, Ending, Special, Serving
  <1>3. ASSUME NEW u \in Users,
               Disable(c, u) \/ BlockRead(c, u) \/ UnblockRead(c, u) \/ RemoveRead(c, u)
               \/ RevokeAll(c, u)
        PROVE  EraInv'
    BY <1>1, <1>2, <1>3 DEF Disable, BlockRead, UnblockRead, RemoveRead, RevokeAll
  <1>4. CASE ControlWrite(c)
    BY <1>1, <1>2, <1>4 DEF ControlWrite, Refused
  <1>5. ASSUME NEW d \in Devices, DisableDevice(c, d) \/ RemoveDevice(c, d)
        PROVE  EraInv'
    BY <1>1, <1>2, <1>5 DEF DisableDevice, RemoveDevice
  <1>6. ASSUME NEW d \in Devices, NEW u \in Users \cup {None}, AssignDevice(c, d, u)
        PROVE  EraInv'
    <2> DEFINE y == [Ending(d, "give", u) EXCEPT !.at = "last"]
    <2>1. UNCHANGED <<session, era>> /\ (Goes(c, y) \/ Goes(c, Ending(d, "assign", u)))
      BY <1>6 DEF AssignDevice
    <2>2. y.at = "last" /\ y.then = "give"
      BY DEF Ending
    <2> HIDE DEF y
    <2>3. ASSUME Goes(c, y) PROVE EraInv'
      <3>1. call'[c] = y /\ \A e \in Calls : e # c => call'[e] = call[e]
        BY <2>3, GoesAt
      <3>2. CallTold(c)'
        BY <2>2, <3>1 DEF CallTold, Serving
      <3> QED
        BY <2>1, <3>1, <3>2, AloneTold
    <2> QED
      BY <1>1, <1>2, <2>1, <2>3
  <1> QED
    BY <1>3, <1>4, <1>5, <1>6, RevocationTold, LastTold DEF EndingStep

LEMMA OutsideTold ==
    ASSUME AccessInv, EraInv, Outside
    PROVE  EraInv'
  <1> USE DEF AccessInv
  <1>1. ASSUME NEW i \in Ids, Logout(i)
        PROVE  EraInv'
    <2>1. {i} \in SUBSET Ids /\ session' = Revoked({i}) /\ UNCHANGED <<call, era>>
      BY <1>1 DEF Logout
    <2> QED
      BY <2>1, KillTold
  <1>2. ASSUME NEW i \in Ids, SessionExpires(i)
        PROVE  EraInv'
    <2> DEFINE x == [session[i] EXCEPT !.expired = TRUE]
    <2>1. session[i] # NoSession /\ session' = [session EXCEPT ![i] = x] /\ UNCHANGED <<call, era>>
      BY <1>2 DEF SessionExpires
    <2>2. session[i] \in Session
      BY <2>1, SessionType
    <2>3. /\ x.late = session[i].late /\ x.era = session[i].era /\ x.user = session[i].user
          /\ x.opened = session[i].opened /\ x.device = session[i].device
          /\ x.status = session[i].status /\ x # NoSession
      BY <2>2 DEF Session, NoSession
    <2> HIDE DEF x
    <2>4. \A j \in Ids : session'[j] = IF j = i THEN x ELSE session[j]
      BY <2>1 DEF TypeOK
    <2>5. RowsKeep /\ NewRowsApart
      BY <2>1, <2>3, <2>4 DEF RowsKeep, NewRowsApart, Live
    <2>6. \A e \in Calls : CallTold(e)'
      BY <2>1, <2>5, StaysTold DEF EraInv
    <2>7. \A j \in Ids : RowTold(j)'
      BY <2>1, <2>3, <2>4 DEF EraInv, RowTold, ErasOf, Live
    <2> QED
      BY <2>6, <2>7 DEF EraInv
  <1>3. CASE Restart
    <2>1. \A e \in Calls : call'[e].at \notin Special
      BY <1>3 DEF Restart, Idle, Special, Serving
    <2> QED
      BY <1>3, <2>1, PlainTold, AloneTold DEF Restart
  <1>4. CASE UNCHANGED <<session, era, call>>
    BY <1>4, AloneTold
  <1> QED
    BY <1>1, <1>2, <1>3, <1>4
    DEF Outside, Enable, LockExpires, WindowPasses, AssignRoles, EnableDevice, SetStation

LEMMA EraKept ==
    ASSUME AccessInv, EraInv, [Next]_vars
    PROVE  EraInv'
  <1> USE DEF AccessInv
  <1>1. ASSUME NEW c \in Calls, LoginStep(c)
        PROVE  EraInv'
    BY <1>1, LoginTold, CreateTold
  <1>2. ASSUME NEW c \in Calls, TokenStep(c)
        PROVE  EraInv'
    <2>1. CASE RequestKill(c)
      <3>1. /\ {call[c].id} \in SUBSET Ids /\ session' = Revoked({call[c].id}) /\ UNCHANGED era
            /\ Refused(c)
        BY <2>1, CallFields DEF RequestKill
      <3>2. \A e \in Calls : call'[e] = call[e] \/ call'[e].at \notin Special
        BY <3>1, RefusedType DEF Idle, Special, Serving
      <3> QED
        BY <3>1, <3>2, KillTold
    <2> QED
      BY <1>2, <2>1, TokenTold, RotateTold
  <1>3. ASSUME NEW c \in Calls, NEW e \in Calls, Deadlocked(c, e)
        PROVE  EraInv'
    <2>1. PICK l \in Calls : Refused(l)
      BY <1>3 DEF Deadlocked
    <2>2. \A k \in Calls : call'[k] = call[k] \/ call'[k].at \notin Special
      BY <2>1, RefusedType DEF Idle, Special, Serving
    <2> QED
      BY <1>3, <2>2, PlainTold, AloneTold DEF Deadlocked
  <1>4. CASE UNCHANGED vars
    BY <1>4, AloneTold DEF vars
  <1> QED
    BY <1>1, <1>2, <1>3, <1>4, ControlTold, OutsideTold DEF Next

LEMMA EraStarts ==
    ASSUME Init
    PROVE  EraInv
  BY DEF Init, EraInv, RowTold, CallTold, Idle, Serving

(* An access that was ended stays ended: a request that is served uses a   *)
(* session opened after the last ending of its user and its device, unless *)
(* the sign-in or the renewal overlapped that ending.  The argument: a     *)
(* revocation that has looked at the sessions (waiting for the lock of a   *)
(* renewal, or before its last statement) leaves alive only those it will  *)
(* still revoke and those inserted after it looked; a renewal inherits     *)
(* what its session had, and the request compares with what it read.       *)
THEOREM EndedAccessStaysEnded == Spec => []EndedStaysEnded
  <1>1. Spec => []EraInv
    <2>1. AccessInv /\ EraInv /\ [Next]_vars => EraInv'
      BY EraKept
    <2> QED
      BY <2>1, EraStarts, AccessInvariant, PTL DEF Spec
  <1>2. EraInv => EndedStaysEnded
    BY DEF EraInv, CallTold, EndedStaysEnded, Serving
  <1> QED
    BY <1>1, <1>2, PTL


=============================================================================
