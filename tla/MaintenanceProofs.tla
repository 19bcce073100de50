--------------------------- MODULE MaintenanceProofs ---------------------------
(***************************************************************************)
(* Theorems about Maintenance, for every database a reset can start from,  *)
(* every state of the schema and of the roles an installation can come up  *)
(* in, and every number of containers, forms, codes and failures.  The     *)
(* page comes first, then the deployment, then the reset; the theorems are *)
(* at the end.                                                             *)
(***************************************************************************)
EXTENDS Maintenance, SequenceTheorems, TLAPS

-----------------------------------------------------------------------------
(* The forms of the workers' page                                          *)

Asks == {"account", "station", "task"} \cup S!Controls
FormRow ==
    [kind : S!Kinds \cup {"none"}, code : Codes \cup {NoPost}, post : Posts \cup {NoPost},
     keys : SUBSET TaskKeys, left : SUBSET TaskKeys,
     stage : {"closed", "open", "sent", "answered", "over"}, ask : Asks \cup {"none"},
     key : TaskKeys \cup {NoPost}, try : 0 .. MaxTries, told : BOOLEAN]
AccountRow ==
    [status : {"none", "ACTIVE", "LOCKED", "DISABLED"}, by : Forms \cup {NoPost}, try : 0 .. MaxTries]
TaskRow == [by : Forms, try : 0 .. MaxTries, key : TaskKeys \cup {NoPost}, of : Codes \cup {NoPost}, hires : BOOLEAN]
Query ==
    [by : Forms, try : 0 .. MaxTries, ask : Asks \cup {"none"}, hires : BOOLEAN,
     code : Codes \cup {NoPost}, post : Posts \cup {NoPost}, key : TaskKeys \cup {NoPost}]

StaffTypeOK ==
    /\ form \in [Forms -> FormRow]
    /\ account \in [Codes -> AccountRow]
    /\ tasks \subseteq TaskRow
    /\ late \subseteq Query
    /\ unsure \subseteq Forms

(* A form that is not closed has a kind, and its requests are those of the *)
(* kind.                                                                   *)
AsksItsKind(x) ==
    /\ x.kind = "hire" => x.ask \in {"account", "station", "task"}
    /\ x.kind = "assign" => x.ask = "task" /\ x.left = {}
    /\ x.kind \in S!Controls => x.ask = x.kind
    /\ x.kind # "none"
    /\ x.code \in Codes

OnItsWay(f) == form[f].stage \in {"sent", "answered"}
KindKept(f) ==
    /\ form[f].stage = "closed" => form[f].kind = "none"
    /\ form[f].stage = "open" => form[f].kind \in S!Kinds /\ form[f].code \in Codes
    /\ OnItsWay(f) => AsksItsKind(form[f])
    /\ form[f].told => form[f].stage = "over"

(* Whoever asks for the tasks of a worker who is hired made the account.   *)
MadeBy(c, f, n) == S!Exists(c) /\ account[c].by = f /\ account[c].try = n
HirerMade(f) ==
    OnItsWay(f) /\ form[f].kind = "hire" /\ ~(form[f].stage = "sent" /\ form[f].ask = "account")
       => MadeBy(form[f].code, f, form[f].try)

(* What a form that hires has behind it is in the table.                   *)
HasRow(c, k) == \E t \in tasks : t.hires /\ t.of = c /\ t.key = k
HireGoesOn(f) ==
    form[f].kind = "hire" =>
        /\ OnItsWay(f) /\ form[f].ask \in {"account", "station"} => form[f].left = form[f].keys
        /\ OnItsWay(f) /\ form[f].ask = "task" =>
              \A k \in form[f].keys :
                 k \in form[f].left \/ (form[f].stage = "sent" /\ k = form[f].key) \/ HasRow(form[f].code, k)
        /\ form[f].told => \A k \in form[f].keys : HasRow(form[f].code, k)
FormKept(f) == KindKept(f) /\ HirerMade(f) /\ HireGoesOn(f)

LateKept(q) ==
    /\ q.code \in Codes
    /\ q.hires => form[q.by].kind = "hire" /\ (q.ask # "account" => MadeBy(q.code, q.by, q.try))
    /\ ~q.hires => q.by \in unsure /\ form[q.by].kind \in S!Kinds \ {"hire"}
    /\ ~q.hires /\ q.ask = "task" => form[q.by].kind = "assign"

(* A form that assigns a task leaves nothing behind when it is open again, *)
(* unless it was not told.                                                 *)
IsRowOf(t, f) == form[f].stage \in {"answered", "over"} /\ t = S!TaskOf(S!RequestOf(f))
RowKept(t) ==
    /\ t.of \in Codes
    /\ t.hires => MadeBy(t.of, t.by, t.try)
    /\ ~t.hires => form[t.by].kind = "assign" /\ (t.by \in unsure \/ IsRowOf(t, t.by))

StaffInv ==
    /\ StaffTypeOK
    /\ \A f \in Forms : FormKept(f)
    /\ \A q \in late : LateKept(q)
    /\ \A t \in tasks : RowKept(t)

LEMMA StaffInvSuffices ==
    ASSUME StaffInv
    PROVE  S!TasksAsAsked
<1>1. ASSUME NEW s \in tasks, NEW t \in tasks, s.hires, t.hires, s.of = t.of, s.key = t.key
      PROVE  s = t
  BY <1>1 DEF StaffInv, StaffTypeOK, RowKept, MadeBy, TaskRow
<1>2. ASSUME NEW s \in tasks, NEW t \in tasks, ~s.hires, ~t.hires, s.by = t.by
      PROVE  s = t \/ s.by \in unsure
  BY <1>2 DEF StaffInv, RowKept, IsRowOf
<1>3. ASSUME NEW f \in Forms, form[f].kind = "hire", form[f].told, NEW k \in form[f].keys
      PROVE  \E t \in tasks : t.hires /\ t.of = form[f].code /\ t.key = k
  BY <1>3 DEF StaffInv, FormKept, HireGoesOn, HasRow
<1> QED
  BY <1>1, <1>2, <1>3 DEF S!TasksAsAsked

LEMMA StaffInitInv ==
    ASSUME S!StaffAssumption,
           form = [f \in Forms |-> S!Closed], account \in [Codes -> {S!NoAccount, S!OldAccount}],
           tasks = {}, late = {}, unsure = {}
    PROVE  StaffInv
<1>1. S!Closed \in FormRow /\ S!NoAccount \in AccountRow /\ S!OldAccount \in AccountRow
  BY DEF S!StaffAssumption, S!Closed, FormRow, S!NoAccount, S!OldAccount, AccountRow
<1>2. StaffTypeOK
  BY <1>1 DEF StaffTypeOK
<1>3. \A f \in Forms : FormKept(f)
  BY DEF FormKept, KindKept, HirerMade, HireGoesOn, OnItsWay, S!Closed
<1> QED
  BY <1>2, <1>3 DEF StaffInv

(* A step of one form keeps the invariant when the form does: the others   *)
(* and the server stay as they are.                                        *)
LEMMA OneForm ==
    ASSUME StaffInv, NEW f \in Forms, NEW r \in FormRow,
           form' = [form EXCEPT ![f] = r],
           UNCHANGED <<account, tasks>>, unsure' \in {unsure, unsure \cup {f}},
           late' \subseteq Query, \A q \in late' : q \in late \/ LateKept(q)',
           form[f].stage = "closed" \/ r.kind = form[f].kind,
           FormKept(f)',
           \A t \in tasks : ~t.hires /\ IsRowOf(t, f) => f \in unsure' \/ IsRowOf(t, f)'
    PROVE  StaffInv'
<1>1. StaffTypeOK'
  BY DEF StaffInv, StaffTypeOK
<1>2. /\ \A g \in Forms : g # f => form'[g] = form[g]
      /\ form'[f] = r
  BY DEF StaffInv, StaffTypeOK
<1>3. ASSUME NEW g \in Forms
      PROVE  FormKept(g)'
  <2>1. CASE g = f
    BY <2>1
  <2>2. CASE g # f
    <3>1. FormKept(g) /\ form'[g] = form[g]
      BY <1>2, <2>2 DEF StaffInv
    <3> QED
      BY <3>1 DEF FormKept, KindKept, HirerMade, HireGoesOn, OnItsWay, HasRow, MadeBy, S!Exists
  <2> QED
    BY <2>1, <2>2
<1>4. form[f].stage = "closed" => form[f].kind = "none"
  BY DEF StaffInv, FormKept, KindKept
<1>5. ASSUME NEW q \in late
      PROVE  LateKept(q)'
  <2>1. q.by \in Forms /\ LateKept(q)
    BY DEF StaffInv, StaffTypeOK, Query
  <2>2. form'[q.by].kind = form[q.by].kind
    BY <1>2, <1>4, <2>1 DEF LateKept, S!Kinds, S!Controls
  <2> QED
    BY <2>1, <2>2 DEF LateKept, MadeBy, S!Exists
<1>6. ASSUME NEW t \in tasks
      PROVE  RowKept(t)'
  <2>1. t.by \in Forms /\ RowKept(t)
    BY DEF StaffInv, StaffTypeOK, TaskRow
  <2>2. ~t.hires => form'[t.by].kind = form[t.by].kind
    BY <1>2, <1>4, <2>1 DEF RowKept
  <2>3. ~t.hires => t.by \in unsure' \/ IsRowOf(t, t.by)'
    <3>1. CASE t.by = f
      BY <3>1, <2>1 DEF RowKept
    <3>2. CASE t.by # f
      BY <3>2, <2>1, <1>2 DEF RowKept, IsRowOf, S!RequestOf, S!TaskOf
    <3> QED BY <3>1, <3>2
  <2> QED
    BY <2>1, <2>2, <2>3 DEF RowKept, MadeBy, S!Exists
<1> QED
  BY <1>1, <1>3, <1>5, <1>6 DEF StaffInv

LEMMA OpenFormKeeps ==
    ASSUME StaffInv, NEW f \in Forms, NEW kind \in S!Kinds, NEW c \in Codes, S!OpenForm(f, kind, c)
    PROVE  StaffInv'
<1> DEFINE r == [form[f] EXCEPT !.kind = kind, !.code = c, !.stage = "open"]
<1>1. form[f] \in FormRow /\ FormKept(f) /\ form \in [Forms -> FormRow]
  BY DEF StaffInv, StaffTypeOK
<1>2. r \in FormRow /\ r.stage = "open" /\ r.kind = kind /\ r.code = c /\ r.told = form[f].told
  BY <1>1 DEF FormRow
<1>3. /\ form' = [form EXCEPT ![f] = r] /\ form[f].stage = "closed"
      /\ UNCHANGED <<account, tasks, late, unsure>>
  BY DEF S!OpenForm, S!staffServer
<1> HIDE DEF r
<1>4. form'[f] = r
  BY <1>1, <1>3
<1>5. FormKept(f)'
  BY <1>1, <1>2, <1>3, <1>4 DEF FormKept, KindKept, HirerMade, HireGoesOn, OnItsWay
<1>6. \A t \in tasks : ~IsRowOf(t, f)
  BY <1>3 DEF IsRowOf
<1> QED
  BY <1>2, <1>3, <1>5, <1>6, OneForm DEF StaffInv, StaffTypeOK

LEMMA CloseFormKeeps ==
    ASSUME StaffInv, NEW f \in Forms, S!CloseForm(f)
    PROVE  StaffInv'
<1> DEFINE r == [form[f] EXCEPT !.stage = "over"]
<1>1. form[f] \in FormRow /\ FormKept(f) /\ form \in [Forms -> FormRow]
  BY DEF StaffInv, StaffTypeOK
<1>2. r \in FormRow /\ r.stage = "over" /\ r.kind = form[f].kind /\ r.told = form[f].told
  BY <1>1 DEF FormRow
<1>3. /\ form' = [form EXCEPT ![f] = r] /\ form[f].stage = "open"
      /\ UNCHANGED <<account, tasks, late, unsure>>
  BY DEF S!CloseForm, S!staffServer
<1> HIDE DEF r
<1>4. form'[f] = r
  BY <1>1, <1>3
<1>5. FormKept(f)'
  BY <1>1, <1>2, <1>3, <1>4 DEF FormKept, KindKept, HirerMade, HireGoesOn, OnItsWay
<1>6. \A t \in tasks : ~IsRowOf(t, f)
  BY <1>3 DEF IsRowOf
<1> QED
  BY <1>2, <1>3, <1>5, <1>6, OneForm DEF StaffInv, StaffTypeOK

(* A submission begins with the fields it was given and nothing asked for. *)
LEMMA SubmittedKeeps ==
    ASSUME S!StaffAssumption, StaffInv, NEW f \in Forms, NEW ask \in Asks, NEW c \in Codes,
           NEW p \in Posts \cup {NoPost}, NEW keys \in SUBSET TaskKeys, NEW left \in SUBSET TaskKeys,
           NEW k \in TaskKeys \cup {NoPost}, S!Submitted(f, ask, c, p, keys, left, k),
           form[f].kind = "hire" => ask = "account" /\ left = keys,
           form[f].kind = "assign" => ask = "task" /\ left = {},
           form[f].kind \in S!Controls => ask = form[f].kind
    PROVE  StaffInv'
<1> DEFINE r == [form[f] EXCEPT !.stage = "sent", !.ask = ask, !.code = c, !.post = p,
                                !.keys = keys, !.left = left, !.key = k, !.try = @ + 1]
<1>1. form[f] \in FormRow /\ FormKept(f) /\ form \in [Forms -> FormRow] /\ form[f].stage = "open"
  BY DEF StaffInv, StaffTypeOK, S!Submitted
<1>2. /\ r \in FormRow /\ r.stage = "sent" /\ r.kind = form[f].kind /\ r.told = form[f].told
      /\ r.ask = ask /\ r.code = c /\ r.keys = keys /\ r.left = left
  <2>1. form[f].try + 1 \in 0 .. MaxTries
    BY <1>1 DEF FormRow, S!Submitted, S!StaffAssumption
  <2> QED
    BY <1>1, <2>1 DEF FormRow
<1>3. /\ form' = [form EXCEPT ![f] = r]
      /\ UNCHANGED <<account, tasks, late, unsure>>
  BY DEF S!Submitted, S!staffServer
<1> HIDE DEF r
<1>4. form'[f] = r
  BY <1>1, <1>3
<1>5. KindKept(f)'
  BY <1>1, <1>2, <1>4 DEF FormKept, KindKept, OnItsWay, AsksItsKind, S!Kinds, S!Controls
<1>6. HirerMade(f)' /\ HireGoesOn(f)'
  BY <1>1, <1>2, <1>4 DEF FormKept, KindKept, HirerMade, HireGoesOn, OnItsWay
<1>7. \A t \in tasks : ~IsRowOf(t, f)
  BY <1>1 DEF IsRowOf
<1> QED
  BY <1>2, <1>3, <1>5, <1>6, <1>7, OneForm DEF FormKept, StaffInv, StaffTypeOK

(* After an error the form is open again, or over.                         *)
LEMMA FailingKeeps ==
    ASSUME StaffInv, NEW f \in Forms, OnItsWay(f), S!Failing(f),
           UNCHANGED <<account, tasks>>, unsure' \in {unsure, unsure \cup {f}},
           form[f].stage = "sent" \/ f \in unsure',
           late' = late \/ (f \in unsure' /\ form[f].stage = "sent" /\ late' = late \cup {S!RequestOf(f)})
    PROVE  StaffInv'
<1> DEFINE r == [form[f] EXCEPT !.stage = IF form[f].kind \in S!Controls THEN "over" ELSE "open"]
<1>1. form[f] \in FormRow /\ FormKept(f) /\ form \in [Forms -> FormRow]
  BY DEF StaffInv, StaffTypeOK
<1>2. /\ r \in FormRow /\ r.stage \in {"over", "open"} /\ r.kind = form[f].kind /\ r.told = form[f].told
      /\ r.code = form[f].code
  BY <1>1 DEF FormRow
<1>3. form' = [form EXCEPT ![f] = r]
  BY DEF S!Failing
<1> HIDE DEF r
<1>4. form'[f] = r
  BY <1>1, <1>3
<1>5. form[f].kind \in S!Kinds /\ form[f].code \in Codes /\ ~form[f].told
  BY <1>1 DEF FormKept, KindKept, OnItsWay, AsksItsKind, FormRow
<1>6. FormKept(f)'
  BY <1>2, <1>4, <1>5 DEF FormKept, KindKept, HirerMade, HireGoesOn, OnItsWay
<1>7. \A t \in tasks : IsRowOf(t, f) => f \in unsure'
  BY DEF IsRowOf
<1>8. late' \subseteq Query /\ \A q \in late' : q \in late \/ LateKept(q)'
  <2>1. late \subseteq Query
    BY DEF StaffInv, StaffTypeOK
  <2>2. S!RequestOf(f) \in Query /\ S!RequestOf(f).by = f
    BY <1>1 DEF S!RequestOf, Query, FormRow
  <2>3. ASSUME NEW q, q = S!RequestOf(f), form[f].stage = "sent", f \in unsure'
        PROVE  LateKept(q)'
    <3>1. /\ q.by = f /\ q.code = form[f].code /\ q.ask = form[f].ask /\ q.try = form[f].try
          /\ q.hires <=> form[f].kind = "hire"
      BY <2>3 DEF S!RequestOf
    <3>2. AsksItsKind(form[f]) /\ (form[f].kind = "hire" /\ form[f].ask # "account" => MadeBy(form[f].code, f, form[f].try))
      BY <1>1, <2>3 DEF FormKept, KindKept, HirerMade, OnItsWay
    <3>3. form'[f].kind = form[f].kind
      BY <1>2, <1>4
    <3>4. q.hires => form'[q.by].kind = "hire" /\ (q.ask # "account" => MadeBy(q.code, q.by, q.try)')
      BY <3>1, <3>2, <3>3 DEF MadeBy, S!Exists
    <3>5. ~q.hires /\ q.ask = "task" => form[f].kind = "assign"
      BY <1>5, <3>1, <3>2 DEF AsksItsKind, S!Controls, S!Kinds
    <3> QED
      BY <1>5, <2>3, <3>1, <3>3, <3>4, <3>5 DEF LateKept
  <2>4. ASSUME NEW q \in late', q \notin late
        PROVE  LateKept(q)'
    BY <2>3, <2>4
  <2> QED
    BY <2>1, <2>2, <2>4
<1> QED
  BY <1>2, <1>3, <1>6, <1>7, <1>8, OneForm

LEMMA AnsweredKeeps ==
    ASSUME StaffInv, NEW f \in Forms, S!Answered(f)
    PROVE  StaffInv'
<1>1. /\ form[f] \in FormRow /\ FormKept(f) /\ form \in [Forms -> FormRow] /\ form[f].stage = "answered"
      /\ UNCHANGED <<account, tasks, late, unsure>>
  BY DEF StaffInv, StaffTypeOK, S!Answered, S!staffServer
<1>2. /\ AsksItsKind(form[f]) /\ ~form[f].told
      /\ form[f].kind = "hire" => MadeBy(form[f].code, f, form[f].try)
      /\ form[f].kind = "hire" /\ form[f].ask \in {"account", "station"} => form[f].left = form[f].keys
      /\ form[f].kind = "hire" /\ form[f].ask = "task" =>
            \A k \in form[f].keys : k \in form[f].left \/ HasRow(form[f].code, k)
  BY <1>1 DEF FormKept, KindKept, HirerMade, HireGoesOn, OnItsWay
<1>3. form[f].kind = "hire" => \A t \in tasks : IsRowOf(t, f) => t.hires
  <2>1. S!TaskOf(S!RequestOf(f)).hires = (form[f].kind = "hire")
    BY DEF S!TaskOf, S!RequestOf
  <2> QED
    BY <2>1 DEF IsRowOf
<1>4. CASE S!AskStation(f)
  <2> DEFINE r == [form[f] EXCEPT !.stage = "sent", !.ask = "station"]
  <2>1. /\ r \in FormRow /\ r.stage = "sent" /\ r.ask = "station" /\ r.kind = form[f].kind /\ r.told = form[f].told
        /\ r.code = form[f].code /\ r.keys = form[f].keys /\ r.left = form[f].left /\ r.try = form[f].try
    BY <1>1 DEF FormRow, Asks
  <2>2. form' = [form EXCEPT ![f] = r] /\ form[f].ask = "account"
    BY <1>4 DEF S!AskStation
  <2> HIDE DEF r
  <2>3. form'[f] = r
    BY <1>1, <2>2
  <2>4. form[f].kind = "hire"
    BY <1>1, <1>2, <2>2 DEF AsksItsKind, FormRow, S!Kinds, S!Controls
  <2>5. KindKept(f)'
    BY <1>2, <2>1, <2>3, <2>4 DEF KindKept, OnItsWay, AsksItsKind, S!Controls
  <2>6. HirerMade(f)'
    BY <1>1, <1>2, <2>1, <2>3, <2>4 DEF HirerMade, MadeBy, S!Exists
  <2>7. HireGoesOn(f)'
    BY <1>2, <2>1, <2>2, <2>3, <2>4 DEF HireGoesOn
  <2> QED
    BY <1>1, <1>3, <2>1, <2>2, <2>4, <2>5, <2>6, <2>7, OneForm DEF FormKept, StaffInv, StaffTypeOK
<1>5. ASSUME NEW k \in form[f].left, S!AskTask(f, k)
      PROVE  StaffInv'
  <2> DEFINE r == [form[f] EXCEPT !.stage = "sent", !.ask = "task", !.key = k, !.left = @ \ {k}]
  <2>1. /\ r \in FormRow /\ r.stage = "sent" /\ r.ask = "task" /\ r.kind = form[f].kind /\ r.told = form[f].told
        /\ r.code = form[f].code /\ r.keys = form[f].keys /\ r.left = form[f].left \ {k} /\ r.try = form[f].try
        /\ r.key = k
    BY <1>1 DEF FormRow, Asks
  <2>2. form' = [form EXCEPT ![f] = r] /\ form[f].ask \in {"account", "station", "task"}
    BY <1>5 DEF S!AskTask
  <2> HIDE DEF r
  <2>3. form'[f] = r
    BY <1>1, <2>2
  <2>4. form[f].kind = "hire"
    BY <1>1, <1>2, <1>5, <2>2 DEF AsksItsKind, FormRow, S!Kinds, S!Controls
  <2>5. KindKept(f)'
    BY <1>2, <2>1, <2>3, <2>4 DEF KindKept, OnItsWay, AsksItsKind, S!Controls
  <2>6. HirerMade(f)'
    BY <1>1, <1>2, <2>1, <2>3, <2>4 DEF HirerMade, MadeBy, S!Exists
  <2>7. HireGoesOn(f)'
    <3>1. \A j \in form[f].keys : j \in form[f].left \/ HasRow(form[f].code, j)
      BY <1>2, <2>2, <2>4
    <3>2. \A j \in form[f].keys :
             j \in form[f].left \ {k} \/ j = k \/ \E t \in tasks : t.hires /\ t.of = form[f].code /\ t.key = j
      BY <3>1 DEF HasRow
    <3> QED
      BY <1>1, <1>2, <2>1, <2>3, <3>2 DEF HireGoesOn, HasRow
  <2> QED
    BY <1>1, <1>3, <2>1, <2>2, <2>4, <2>5, <2>6, <2>7, OneForm DEF FormKept, StaffInv, StaffTypeOK
<1>6. CASE S!Tell(f)
  <2> DEFINE r == [form[f] EXCEPT !.stage = "over", !.told = TRUE]
  <2>1. /\ r \in FormRow /\ r.stage = "over" /\ r.ask = form[f].ask /\ r.kind = form[f].kind /\ r.told
        /\ r.code = form[f].code /\ r.keys = form[f].keys /\ r.left = form[f].left /\ r.try = form[f].try
        /\ r.key = form[f].key /\ r.post = form[f].post
    BY <1>1 DEF FormRow
  <2>2. form' = [form EXCEPT ![f] = r] /\ form[f].left = {}
    BY <1>6 DEF S!Tell
  <2> HIDE DEF r
  <2>3. form'[f] = r
    BY <1>1, <2>2
  <2>4. KindKept(f)' /\ HirerMade(f)'
    BY <2>1, <2>3 DEF KindKept, HirerMade, OnItsWay
  <2>5. HireGoesOn(f)'
    <3>1. form[f].kind = "hire" => \A j \in form[f].keys : HasRow(form[f].code, j)
      BY <1>2, <2>2 DEF AsksItsKind
    <3> QED
      BY <1>1, <2>1, <2>3, <3>1 DEF HireGoesOn, OnItsWay, HasRow
  <2>6. \A t \in tasks : IsRowOf(t, f) => IsRowOf(t, f)'
    BY <2>1, <2>3 DEF IsRowOf, S!TaskOf, S!RequestOf
  <2> QED
    BY <1>1, <2>1, <2>2, <2>4, <2>5, <2>6, OneForm DEF FormKept, StaffInv, StaffTypeOK
<1> QED
  BY <1>4, <1>5, <1>6 DEF S!Answered

LEMMA ControlsKeep ==
    ASSUME S!StaffAssumption, StaffInv, NEW f \in Forms,
           \/ \E c \in Codes, p \in Posts \cup {NoPost}, keys \in SUBSET TaskKeys : S!SubmitHire(f, c, p, keys)
           \/ \E k \in TaskKeys : S!SubmitAssign(f, k)
           \/ S!SubmitControl(f)
    PROVE  StaffInv'
<1>1. ASSUME NEW c \in Codes, NEW p \in Posts \cup {NoPost}, NEW keys \in SUBSET TaskKeys,
             S!SubmitHire(f, c, p, keys)
      PROVE  StaffInv'
  BY <1>1, SubmittedKeeps DEF S!SubmitHire, Asks, S!Controls
<1>2. form[f].stage = "open" => form[f].code \in Codes
  BY DEF StaffInv, FormKept, KindKept
<1>3. ASSUME NEW k \in TaskKeys, S!SubmitAssign(f, k)
      PROVE  StaffInv'
  <2>1. form[f].kind = "assign" /\ S!Submitted(f, "task", form[f].code, NoPost, {k}, {}, k)
    BY <1>3 DEF S!SubmitAssign
  <2>2. form[f].code \in Codes
    BY <1>2, <2>1 DEF S!Submitted
  <2>3. "task" \in Asks /\ "assign" \notin S!Controls
    BY DEF Asks, S!Controls
  <2> QED
    BY <2>1, <2>2, <2>3, SubmittedKeeps
<1>4. CASE S!SubmitControl(f)
  BY <1>2, <1>4, SubmittedKeeps DEF S!SubmitControl, S!Submitted, Asks, S!Controls
<1> QED
  BY <1>1, <1>3, <1>4

(* What the server does for a request: an account that is there keeps its  *)
(* maker, and only the request for a task adds a row, its own.             *)
LEMMA HandleEffect ==
    ASSUME StaffTypeOK, NEW q \in Query, q.code \in Codes, S!Handle(q)
    PROVE  /\ account' \in [Codes -> AccountRow]
           /\ \A c \in Codes, f \in Forms, n \in 0 .. MaxTries : MadeBy(c, f, n) => MadeBy(c, f, n)'
           /\ q.ask = "account" => MadeBy(q.code, q.by, q.try)'
           /\ tasks \subseteq tasks' /\ tasks' \subseteq TaskRow
           /\ \A t \in tasks' : t \in tasks \/ (q.ask = "task" /\ t = S!TaskOf(q))
           /\ q.ask = "task" => S!TaskOf(q) \in tasks'
<1> USE DEF StaffTypeOK
<1> DEFINE Kept == /\ account' \in [Codes -> AccountRow]
                   /\ \A c \in Codes, f \in Forms, n \in 0 .. MaxTries : MadeBy(c, f, n) => MadeBy(c, f, n)'
           Same == tasks' = tasks /\ q.ask # "task"
<1>1. CASE S!CreateWorker(q)
  <2>1. Kept
    BY <1>1 DEF S!CreateWorker, AccountRow, Query, MadeBy, S!Exists
  <2>2. MadeBy(q.code, q.by, q.try)'
    BY <1>1 DEF S!CreateWorker, MadeBy, S!Exists
  <2> QED
    BY <1>1, <2>1, <2>2 DEF S!CreateWorker
<1>2. CASE S!AssignStation(q)
  <2>1. Kept
    BY <1>2 DEF S!AssignStation, MadeBy, S!Exists
  <2> QED
    BY <1>2, <2>1 DEF S!AssignStation
<1>3. CASE S!WorkerTaskCreate(q)
  <2>1. Kept
    BY <1>3 DEF S!WorkerTaskCreate, MadeBy, S!Exists
  <2>2. S!TaskOf(q) \in TaskRow
    BY DEF S!TaskOf, TaskRow, Query
  <2> QED
    BY <1>3, <2>1, <2>2 DEF S!WorkerTaskCreate
<1>4. ASSUME NEW s \in {"ACTIVE", "LOCKED", "DISABLED"}, S!SetStatus(q.code, s), S!Exists(q.code)
      PROVE  Kept
  BY <1>4 DEF S!SetStatus, AccountRow, MadeBy, S!Exists
<1>5. CASE S!BlockWorker(q)
  BY <1>4, <1>5 DEF S!BlockWorker, S!Exists
<1>6. CASE S!UnblockWorker(q)
  BY <1>4, <1>6 DEF S!UnblockWorker, S!Exists
<1>7. CASE S!RemoveWorker(q)
  BY <1>4, <1>7 DEF S!RemoveWorker, S!Exists
<1>8. CASE S!WorkerTaskCancel(q)
  <2>1. Kept
    BY <1>8 DEF S!WorkerTaskCancel, MadeBy, S!Exists
  <2> QED
    BY <1>8, <2>1 DEF S!WorkerTaskCancel
<1> QED
  BY <1>1, <1>2, <1>3, <1>5, <1>6, <1>7, <1>8 DEF S!Handle

(* A request is served while its form waits for the answer, or late.       *)
LEMMA ServedKeeps ==
    ASSUME StaffInv, NEW q \in Query, q.code \in Codes, S!Handle(q),
           StaffTypeOK', unsure' = unsure, late' \subseteq late,
           \A g \in Forms : form'[g].kind = form[g].kind,
           \A g \in Forms : form'[g] = form[g] \/ FormKept(g)',
           \A t \in tasks, g \in Forms : IsRowOf(t, g) => IsRowOf(t, g)',
           q.ask = "task" => RowKept(S!TaskOf(q))'
    PROVE  StaffInv'
<1>1. /\ \A c \in Codes, f \in Forms, n \in 0 .. MaxTries : MadeBy(c, f, n) => MadeBy(c, f, n)'
      /\ tasks \subseteq tasks'
      /\ \A t \in tasks' : t \in tasks \/ (q.ask = "task" /\ t = S!TaskOf(q))
  BY HandleEffect DEF StaffInv
<1>2. ASSUME NEW g \in Forms
      PROVE  FormKept(g)'
  <2>1. CASE form'[g] = form[g]
    <3>1. FormKept(g) /\ form[g] \in FormRow
      BY DEF StaffInv, StaffTypeOK
    <3>2. KindKept(g)'
      BY <2>1, <3>1 DEF FormKept, KindKept, OnItsWay
    <3>3. HirerMade(g)'
      BY <1>1, <2>1, <3>1 DEF FormKept, KindKept, AsksItsKind, HirerMade, OnItsWay, FormRow
    <3>4. \A c, k : HasRow(c, k) => HasRow(c, k)'
      BY <1>1 DEF HasRow
    <3>5. HireGoesOn(g)'
      BY <2>1, <3>1, <3>4 DEF FormKept, HireGoesOn, OnItsWay
    <3> QED
      BY <3>2, <3>3, <3>5 DEF FormKept
  <2> QED
    BY <2>1
<1>3. ASSUME NEW p \in late'
      PROVE  LateKept(p)'
  <2>1. p \in Query /\ LateKept(p)
    BY DEF StaffInv, StaffTypeOK
  <2> QED
    BY <1>1, <2>1 DEF LateKept, Query
<1>4. ASSUME NEW t \in tasks
      PROVE  RowKept(t)'
  <2>1. t \in TaskRow /\ RowKept(t)
    BY DEF StaffInv, StaffTypeOK
  <2> QED
    BY <1>1, <2>1 DEF RowKept, TaskRow
<1>5. ASSUME NEW t \in tasks'
      PROVE  RowKept(t)'
  BY <1>1, <1>4
<1> QED
  BY <1>2, <1>3, <1>5 DEF StaffInv

LEMMA ServeFormKeeps ==
    ASSUME StaffInv, NEW f \in Forms, S!ServeForm(f)
    PROVE  StaffInv'
<1> DEFINE r == [form[f] EXCEPT !.stage = "answered"]
<1>1. PICK q : q = S!RequestOf(f)
  OBVIOUS
<1>2. /\ form[f] \in FormRow /\ FormKept(f) /\ form \in [Forms -> FormRow]
      /\ AsksItsKind(form[f]) /\ ~form[f].told /\ form[f].stage = "sent"
      /\ form[f].kind = "hire" /\ form[f].ask # "account" => MadeBy(form[f].code, f, form[f].try)
  BY DEF StaffInv, StaffTypeOK, S!ServeForm, FormKept, KindKept, HirerMade, OnItsWay
<1>3. /\ q \in Query /\ q.by = f /\ q.code = form[f].code /\ q.ask = form[f].ask /\ q.try = form[f].try
      /\ q.hires <=> form[f].kind = "hire"
  BY <1>1, <1>2 DEF S!RequestOf, Query, FormRow
<1>4. /\ r \in FormRow /\ r.stage = "answered" /\ r.kind = form[f].kind /\ r.told = form[f].told
      /\ r.ask = form[f].ask /\ r.code = form[f].code /\ r.keys = form[f].keys /\ r.left = form[f].left
      /\ r.key = form[f].key /\ r.try = form[f].try /\ r.post = form[f].post
  BY <1>2 DEF FormRow
<1>5. form' = [form EXCEPT ![f] = r] /\ S!Handle(q) /\ late' = late /\ unsure' = unsure
  BY <1>1 DEF S!ServeForm
<1> HIDE DEF r
<1>6. form'[f] = r /\ \A g \in Forms : g # f => form'[g] = form[g]
  BY <1>2, <1>5
<1>7. q.code \in Codes
  BY <1>2, <1>3 DEF AsksItsKind
<1>8. /\ account' \in [Codes -> AccountRow] /\ tasks' \subseteq TaskRow
      /\ \A n \in 0 .. MaxTries : MadeBy(q.code, f, n) => MadeBy(q.code, f, n)'
      /\ q.ask = "account" => MadeBy(q.code, q.by, q.try)'
      /\ tasks \subseteq tasks'
      /\ q.ask = "task" => S!TaskOf(q) \in tasks'
  BY <1>3, <1>5, <1>7, HandleEffect DEF StaffInv
<1>9. StaffTypeOK'
  BY <1>4, <1>5, <1>8 DEF StaffInv, StaffTypeOK
<1>10. FormKept(f)'
  <2>1. KindKept(f)'
    BY <1>2, <1>4, <1>6 DEF KindKept, OnItsWay, AsksItsKind
  <2>2. HirerMade(f)'
    <3>1. form[f].kind = "hire" /\ q.ask # "account" => MadeBy(q.code, f, q.try)
      BY <1>2, <1>3
    <3>2. form[f].kind = "hire" => MadeBy(q.code, f, q.try)'
      BY <1>3, <1>8, <3>1 DEF Query
    <3> QED
      BY <1>3, <1>4, <1>6, <3>2 DEF HirerMade, MadeBy, S!Exists
  <2>3. HireGoesOn(f)'
    <3>2. q.ask = "task" /\ form[f].kind = "hire" => \E t \in tasks' : t.hires /\ t.of = form[f].code /\ t.key = form[f].key
      <4>1. S!TaskOf(q).of = q.code /\ S!TaskOf(q).key = q.key /\ S!TaskOf(q).hires = q.hires
        BY DEF S!TaskOf
      <4>2. q.key = form[f].key
        BY <1>1 DEF S!RequestOf
      <4> QED
        BY <1>3, <1>8, <4>1, <4>2
    <3>3. form[f].kind = "hire" /\ form[f].ask = "task" =>
             \A k \in form[f].keys : k \in form[f].left \/ k = form[f].key \/ HasRow(form[f].code, k)
      BY <1>2 DEF FormKept, HireGoesOn, OnItsWay
    <3>4. form[f].kind = "hire" /\ form[f].ask = "task" =>
             \A k \in form[f].keys : k \in form[f].left \/ \E t \in tasks' : t.hires /\ t.of = form[f].code /\ t.key = k
      BY <1>3, <1>8, <3>2, <3>3 DEF HasRow
    <3>5. form[f].kind = "hire" /\ form[f].ask \in {"account", "station"} => form[f].left = form[f].keys
      BY <1>2 DEF FormKept, HireGoesOn, OnItsWay
    <3> QED
      BY <1>2, <1>4, <1>6, <3>4, <3>5 DEF HireGoesOn, OnItsWay, HasRow
  <2> QED
    BY <2>1, <2>2, <2>3 DEF FormKept
<1>11. \A t \in tasks, g \in Forms : IsRowOf(t, g) => IsRowOf(t, g)'
  BY <1>2, <1>6 DEF IsRowOf, S!TaskOf, S!RequestOf
<1>12. q.ask = "task" => RowKept(S!TaskOf(q))'
  <2>1. PICK t : t = S!TaskOf(q)
    OBVIOUS
  <2>2. t.of = q.code /\ t.by = f /\ t.try = q.try /\ (t.hires <=> form[f].kind = "hire")
    BY <1>3, <2>1 DEF S!TaskOf
  <2>3. q.ask = "task" /\ t.hires => MadeBy(t.of, t.by, t.try)'
    BY <1>2, <1>3, <1>8, <2>2 DEF FormRow
  <2>4. S!TaskOf(S!RequestOf(f))' = S!TaskOf(S!RequestOf(f))
    BY <1>4, <1>6 DEF S!TaskOf, S!RequestOf
  <2>5. IsRowOf(t, f)'
    BY <1>1, <1>4, <1>6, <2>1, <2>4 DEF IsRowOf
  <2>6. q.ask = "task" /\ ~t.hires => form'[f].kind = "assign"
    BY <1>2, <1>3, <1>4, <1>6, <2>2 DEF AsksItsKind, FormRow, S!Kinds, S!Controls
  <2>7. q.ask = "task" => RowKept(t)'
    BY <1>7, <2>2, <2>3, <2>5, <2>6 DEF RowKept
  <2> QED
    BY <2>1, <2>7
<1>13. \A g \in Forms : form'[g].kind = form[g].kind
  BY <1>4, <1>6
<1>14. \A g \in Forms : form'[g] = form[g] \/ FormKept(g)'
  BY <1>6, <1>10
<1> QED
  BY <1>3, <1>5, <1>7, <1>9, <1>11, <1>12, <1>13, <1>14, ServedKeeps

LEMMA ServeLateKeeps ==
    ASSUME StaffInv, NEW q \in late, S!ServeLate(q)
    PROVE  StaffInv'
<1>1. q \in Query /\ LateKept(q) /\ S!Handle(q) /\ late' \subseteq late /\ form' = form /\ unsure' = unsure
  BY DEF StaffInv, StaffTypeOK, S!ServeLate
<1>2. q.code \in Codes
  BY <1>1 DEF LateKept
<1>3. /\ account' \in [Codes -> AccountRow] /\ tasks' \subseteq TaskRow
      /\ \A f \in Forms, n \in 0 .. MaxTries : MadeBy(q.code, f, n) => MadeBy(q.code, f, n)'
  BY <1>1, <1>2, HandleEffect DEF StaffInv
<1>4. StaffTypeOK'
  BY <1>1, <1>3 DEF StaffInv, StaffTypeOK
<1>5. q.ask = "task" => RowKept(S!TaskOf(q))'
  <2>1. PICK t : t = S!TaskOf(q)
    OBVIOUS
  <2>2. t.of = q.code /\ t.by = q.by /\ t.try = q.try /\ (t.hires <=> q.hires)
    BY <1>1, <2>1 DEF S!TaskOf, Query
  <2>3. q.ask = "task" => RowKept(t)'
    BY <1>1, <1>2, <1>3, <2>2 DEF RowKept, LateKept, Query
  <2> QED
    BY <2>1, <2>3
<1>6. \A t \in tasks, g \in Forms : IsRowOf(t, g) => IsRowOf(t, g)'
  BY <1>1 DEF IsRowOf, S!TaskOf, S!RequestOf
<1>7. \A g \in Forms : form'[g] = form[g]
  BY <1>1
<1> QED
  BY <1>1, <1>2, <1>4, <1>5, <1>6, <1>7, ServedKeeps

LEMMA StaffNextKeeps ==
    ASSUME S!StaffAssumption, StaffInv, S!StaffNext
    PROVE  StaffInv'
<1>1. ASSUME NEW f \in Forms, S!Refuse(f)
      PROVE  StaffInv'
  BY <1>1, FailingKeeps DEF S!Refuse, S!staffServer, OnItsWay
<1>2. ASSUME NEW f \in Forms, S!LoseAnswer(f)
      PROVE  StaffInv'
  BY <1>2, FailingKeeps DEF S!LoseAnswer, S!staffServer, OnItsWay
<1>3. ASSUME NEW f \in Forms, S!LoseRequest(f)
      PROVE  StaffInv'
  BY <1>3, FailingKeeps DEF S!LoseRequest, S!staffServer, OnItsWay
<1> QED
  BY <1>1, <1>2, <1>3, OpenFormKeeps, ControlsKeep, CloseFormKeeps, ServeFormKeeps, AnsweredKeeps,
     ServeLateKeeps DEF S!StaffNext

-----------------------------------------------------------------------------
(* The deployment                                                          *)

Old(i) == LEGACY_GRANTS[i].legacy
Targets(i) == LEGACY_GRANTS[i].targets
OnlyOld == {1, 2, 4}

Simple == {"down", "migrate", "diff", "permissions", "admin?", "admin", "admin role", "workforce",
           "worker role", "probe", "up"}
InLegacy == {"legacy", "strip", "retarget", "delete"}
BootIs(q) ==
    /\ q.at \in Simple \cup InLegacy \cup {"role", "trim", "fill", "repair"}
    /\ q.at = "legacy" => q.i \in 1 .. 5
    /\ q.at \in {"strip", "delete"} => q.i \in 1 .. 4
    /\ q.at = "strip" => q.holders \subseteq Roles
    /\ q.at = "retarget" => q \in [at : {"retarget"}, i : 1 .. 4, holders : SUBSET Roles, role : Roles,
                                   todo : SUBSET PERMISSIONS]
    /\ q.at = "role" => q.i \in 1 .. 3
    /\ q.at \in {"trim", "fill"} => q \in [at : {"trim", "fill"}, i : 1 .. 2,
                                           seen : SUBSET (PERMISSIONS \cup LegacyOnly)]
    /\ q.at = "repair" => q \in [at : {"repair"}, i : 1 .. 39]

BootsOK ==
    /\ DOMAIN boot = Boots /\ \A b \in Boots : BootIs(boot[b])
    /\ mode \in {"script", "direct"}
    /\ mode = "script" => \A b \in Boots : boot[b].at \notin {"probe", "repair"}
    /\ mode = "direct" => \A b \in Boots : boot[b].at \in {"down", "probe", "repair", "up"}
    /\ admin \in {"none", "bare", "full"} /\ faults \in Nat

(* The keys.                                                               *)
KeysOK ==
    /\ DOMAIN grants = Roles
    /\ \A r \in Roles : grants[r] \subseteq PERMISSIONS \cup LegacyOnly
    /\ \A r \in Roles : grants[r] \cap LegacyOnly \subseteq perms

(* A container that has still to read role number n.                       *)
PreRead(q, n) ==
    \/ q.at \in {"down", "migrate", "diff", "permissions"} \cup InLegacy
    \/ q.at = "role" /\ q.i <= n
    \/ q.at \in {"trim", "fill"} /\ q.i < n
WillTrim(q, n, x) == PreRead(q, n) \/ (q.at = "trim" /\ q.i = n /\ x \in q.seen)
WillFill(q, n, x) == PreRead(q, n) \/ (q.at \in {"trim", "fill"} /\ q.i = n /\ x \notin q.seen)
RoleWhole(n) ==
    /\ \A x \in grants[RoleOrder[n]] \ ROLES[RoleOrder[n]] : \E b \in Boots : WillTrim(boot[b], n, x)
    /\ \A x \in ROLES[RoleOrder[n]] \ grants[RoleOrder[n]] : \E b \in Boots : WillFill(boot[b], n, x)
RolesWhole ==
    mode = "script" => \A n \in 1 .. 2 : RoleOrder[n] \notin edited => RoleWhole(n)

PeopleWhole ==
    /\ admin = "bare" /\ ~cut => \E b \in Boots : At(b, "admin role")
    /\ mode = "script" => \A b \in Boots : boot[b].at \in {"admin role", "workforce", "worker role", "up"} => admin # "none"
    /\ mode = "script" /\ worker = "bare" => \E b \in Boots : ~At(b, "up")

(* What a container still does about an old key of a role.                 *)
WillStrip(q, i, r) ==
    \/ q.at \in {"down", "migrate", "diff", "permissions"}
    \/ q.at = "legacy" /\ q.i <= i
    \/ q.at \in InLegacy /\ q.i < i
    \/ q.at \in {"strip", "retarget"} /\ q.i = i /\ r \in q.holders
OldKeys ==
    \A i \in OnlyOld : \A r \in Roles : Old(i) \in grants[r] =>
        /\ mode = "script" => \A b \in Boots : WillStrip(boot[b], i, r)
        /\ \A b \in Boots : At(b, "delete") => boot[b].i # i
        /\ \A b \in Boots : At(b, "retarget") => boot[b].i # i \/ boot[b].role # r
NewKeys ==
    ~cut => \A r \in CustomRoles \ edited : \A i \in OnlyOld : Old(i) \in was.grants[r] =>
        \A t \in Targets(i) \ {"locations.view"} :
            \/ t \in grants[r] \/ Old(i) \in grants[r]
            \/ \E b \in Boots : At(b, "retarget") /\ boot[b].i = i /\ boot[b].role = r /\ t \in boot[b].todo

(* The repair.  All that comes before a statement is there, or out of reach; *)
(* so it is before whatever a pass has made that the probe names.           *)
DoneBefore(n) == MadeBefore(n) \cap lacks \subseteq BeyondRepair
AllDone == Repairable \cap lacks \subseteq BeyondRepair
RepairOK ==
    (mode = "direct" /\ faults = 0) =>
        /\ lacks \subseteq was.lacks
        /\ "tasks" \in lacks /\ "lifecycle" \in was.lacks => "lifecycle" \in lacks
        /\ \A b \in Boots : At(b, "repair") => DoneBefore(boot[b].i)
        /\ \A n \in 1 .. 38 : ((PROBE \cap was.lacks) \ lacks) \ MadeBefore(n) # {} => DoneBefore(n)
        /\ \A b \in Boots : At(b, "up") => PROBE \cap lacks = {} \/ AllDone
        /\ ~cut => PROBE \cap was.lacks \subseteq lacks \/ AllDone \/ \E b \in Boots : At(b, "repair")

DeployInv == BootsOK /\ KeysOK /\ RolesWhole /\ PeopleWhole /\ OldKeys /\ NewKeys /\ RepairOK

-----------------------------------------------------------------------------
LEMMA OldFacts ==
    /\ DOMAIN LEGACY_GRANTS = 1 .. 4 /\ Len(LEGACY_GRANTS) = 4
    /\ \A i, j \in 1 .. 4 : Old(i) = Old(j) => i = j
    /\ \A i \in OnlyOld : i \in 1 .. 4 /\ Old(i) \in LegacyOnly /\ Old(i) \notin PERMISSIONS
    /\ \A i \in 1 .. 4 : /\ Targets(i) \subseteq PERMISSIONS
                         /\ i \notin OnlyOld => i = 3 /\ Old(i) = "locations.view" /\ Old(i) \in PERMISSIONS
                                            /\ Targets(i) = {"locations.view"}
<1>1. /\ Old(1) = "warehouse.view" /\ Old(2) = "warehouse.manage" /\ Old(3) = "locations.view"
      /\ Old(4) = "locations.manage"
  BY DEF Old, LEGACY_GRANTS
<1>2. /\ Targets(1) = {"warehouses.view"} /\ Targets(2) = {"warehouses.view", "warehouses.update"}
      /\ Targets(3) = {"locations.view"} /\ Targets(4) = {"locations.view", "locations.update"}
  BY DEF Targets, LEGACY_GRANTS
<1>3. DOMAIN LEGACY_GRANTS = 1 .. 4 /\ Len(LEGACY_GRANTS) = 4
  BY DEF LEGACY_GRANTS
<1>4. \A i \in 1 .. 4 : i = 1 \/ i = 2 \/ i = 3 \/ i = 4
  OBVIOUS
<1>5. \A i \in OnlyOld : i \in 1 .. 4 /\ Old(i) \notin PERMISSIONS
  BY <1>1 DEF OnlyOld, PERMISSIONS
<1>6. \A i \in OnlyOld : Old(i) \in LegacyOnly
  BY <1>3, <1>5 DEF LegacyOnly, Old
<1>7. \A i, j \in 1 .. 4 : Old(i) = Old(j) => i = j
  BY <1>1, <1>4
<1>8. \A i \in 1 .. 4 : i \notin OnlyOld => i = 3
  BY <1>4 DEF OnlyOld
<1>9. \A i \in 1 .. 4 : Targets(i) \subseteq PERMISSIONS
  BY <1>2, <1>4 DEF PERMISSIONS
<1> QED
  BY <1>1, <1>2, <1>3, <1>5, <1>6, <1>7, <1>8, <1>9 DEF PERMISSIONS

LEMMA RoleFacts ==
    /\ DOMAIN RoleOrder = 1 .. 2 /\ Len(RoleOrder) = 2
    /\ DOMAIN ROLES = {RoleOrder[1], RoleOrder[2]} /\ RoleOrder[1] # RoleOrder[2]
    /\ \A n \in 1 .. 2 : RoleOrder[n] \in Roles /\ RoleOrder[n] \notin CustomRoles
                         /\ ROLES[RoleOrder[n]] \subseteq PERMISSIONS
<1>1. RoleOrder[1] = "SUPER_ADMIN" /\ RoleOrder[2] = "RECEIVING_WORKER" /\ DOMAIN RoleOrder = 1 .. 2
      /\ Len(RoleOrder) = 2
  BY DEF RoleOrder
<1>2. DOMAIN ROLES = {"SUPER_ADMIN", "RECEIVING_WORKER"}
  BY DEF ROLES
<1>3. ROLES["SUPER_ADMIN"] \subseteq PERMISSIONS /\ ROLES["RECEIVING_WORKER"] \subseteq PERMISSIONS
  BY DEF ROLES, PERMISSIONS
<1>4. \A n \in 1 .. 2 : n = 1 \/ n = 2
  OBVIOUS
<1> QED
  BY <1>1, <1>2, <1>3, <1>4, DeploymentAssumption DEF Roles

-----------------------------------------------------------------------------
(* A container moves.                                                      *)
Moves(b, q) ==
    /\ DOMAIN boot' = Boots /\ boot'[b] = q
    /\ \A c \in Boots : c # b => boot'[c] = boot[c]

LEMMA Moved ==
    ASSUME DOMAIN boot = Boots, NEW b \in Boots, NEW q, boot' = [boot EXCEPT ![b] = q]
    PROVE  Moves(b, q)
  BY DEF Moves

LEMMA BootsKeep ==
    ASSUME BootsOK, NEW b \in Boots, NEW q, Moves(b, q), BootIs(q), mode' = mode,
           mode = "script" => q.at \notin {"probe", "repair"},
           mode = "direct" => q.at \in {"down", "probe", "repair", "up"},
           admin' \in {"none", "bare", "full"}, faults' \in Nat
    PROVE  BootsOK'
<1>1. \A c \in Boots : boot'[c] = boot[c] \/ boot'[c] = q
  BY DEF Moves
<1>2. \A c \in Boots : BootIs(boot'[c])
  BY <1>1 DEF BootsOK
<1>3. \A c \in Boots : BootIs(boot[c])'
  BY <1>2 DEF BootIs
<1> QED
  BY <1>1, <1>3 DEF BootsOK, Moves

LEMMA ScriptOnly ==
    ASSUME BootsOK, NEW b \in Boots, boot[b].at \notin {"down", "probe", "repair", "up"}
    PROVE  mode = "script"
  BY DEF BootsOK

(* The system roles are whole when a container has still to read both, and *)
(* stay so when the containers that were to set them right still are.      *)
LEMMA RolesByReader ==
    ASSUME NEW b \in Boots, NEW q, Moves(b, q), \A n \in 1 .. 2 : PreRead(q, n)
    PROVE  RolesWhole'
<1>1. \A n \in 1 .. 2 : PreRead(boot[b], n)'
  BY DEF PreRead, Moves
<1>2. ASSUME NEW n \in 1 .. 2
      PROVE  RoleWhole(n)'
  BY <1>1 DEF RoleWhole, WillTrim, WillFill
<1> QED
  BY <1>2 DEF RolesWhole

LEMMA RoleKeeps ==
    ASSUME NEW n \in 1 .. 2, RoleWhole(n), NEW b \in Boots, NEW q, Moves(b, q),
           \A x \in grants'[RoleOrder[n]] \ ROLES[RoleOrder[n]] :
               x \in grants[RoleOrder[n]] /\ (WillTrim(boot[b], n, x) => WillTrim(q, n, x)),
           \A x \in ROLES[RoleOrder[n]] \ grants'[RoleOrder[n]] :
               x \notin grants[RoleOrder[n]] /\ (WillFill(boot[b], n, x) => WillFill(q, n, x))
    PROVE  RoleWhole(n)'
<1>1. ASSUME NEW x \in grants'[RoleOrder[n]] \ ROLES[RoleOrder[n]]
      PROVE  \E c \in Boots : WillTrim(boot[c], n, x)'
  <2>1. PICK c \in Boots : WillTrim(boot[c], n, x)
    BY <1>1 DEF RoleWhole
  <2>2. WillTrim(boot'[c], n, x)
    BY <1>1, <2>1 DEF Moves
  <2> QED
    BY <2>2 DEF WillTrim, PreRead
<1>2. ASSUME NEW x \in ROLES[RoleOrder[n]] \ grants'[RoleOrder[n]]
      PROVE  \E c \in Boots : WillFill(boot[c], n, x)'
  <2>1. PICK c \in Boots : WillFill(boot[c], n, x)
    BY <1>2 DEF RoleWhole
  <2>2. WillFill(boot'[c], n, x)
    BY <1>2, <2>1 DEF Moves
  <2> QED
    BY <2>2 DEF WillFill, PreRead
<1> QED
  BY <1>1, <1>2 DEF RoleWhole

LEMMA RolesUntouched ==
    ASSUME RolesWhole, NEW b \in Boots, NEW q, Moves(b, q),
           boot[b].at \in {"admin?", "admin", "admin role", "workforce", "worker role"},
           UNCHANGED <<mode, grants, edited>>
    PROVE  RolesWhole'
<1>1. \A n, x : ~WillTrim(boot[b], n, x) /\ ~WillFill(boot[b], n, x)
  BY DEF PreRead, InLegacy, WillTrim, WillFill
<1>2. ASSUME NEW n \in 1 .. 2, RoleWhole(n)
      PROVE  RoleWhole(n)'
  BY <1>1, <1>2, RoleKeeps
<1> QED
  BY <1>2 DEF RolesWhole

LEMMA OldKeysKeep ==
    ASSUME OldKeys, NEW b \in Boots, NEW q, Moves(b, q), mode' = mode,
           \A i \in OnlyOld : \A r \in Roles : Old(i) \in grants'[r] =>
               /\ Old(i) \in grants[r]
               /\ mode = "script" /\ WillStrip(boot[b], i, r) => WillStrip(q, i, r)
               /\ q.at = "delete" => q.i # i
               /\ q.at = "retarget" => q.i # i \/ q.role # r
    PROVE  OldKeys'
<1> SUFFICES ASSUME NEW i \in OnlyOld, NEW r \in Roles, Old(i) \in grants'[r]
             PROVE  /\ mode = "script" => \A c \in Boots : WillStrip(boot[c], i, r)'
                    /\ \A c \in Boots : At(c, "delete")' => boot'[c].i # i
                    /\ \A c \in Boots : At(c, "retarget")' => boot'[c].i # i \/ boot'[c].role # r
  BY DEF OldKeys
<1>1. Old(i) \in grants[r]
  OBVIOUS
<1>2. ASSUME NEW c \in Boots, mode = "script"
      PROVE  WillStrip(boot[c], i, r)'
  <2>1. WillStrip(boot[c], i, r) /\ WillStrip(boot[b], i, r)
    BY <1>1, <1>2 DEF OldKeys
  <2>2. WillStrip(boot'[c], i, r)
    BY <2>1, <1>2 DEF Moves
  <2> QED
    BY <2>2 DEF WillStrip
<1>3. ASSUME NEW c \in Boots
      PROVE  /\ At(c, "delete")' => boot'[c].i # i
             /\ At(c, "retarget")' => boot'[c].i # i \/ boot'[c].role # r
  BY <1>1, <1>3 DEF OldKeys, Moves, At
<1> QED
  BY <1>2, <1>3

LEMMA NewKeysKeep ==
    ASSUME NewKeys, NEW b \in Boots, NEW q, Moves(b, q), boot[b].at # "retarget",
           (~cut' => ~cut), CustomRoles \ edited' \subseteq CustomRoles \ edited, was' = was,
           \A r \in CustomRoles \ edited : \A x \in grants[r] : x \in grants'[r]
    PROVE  NewKeys'
<1>1. \A c \in Boots : At(c, "retarget") => At(c, "retarget")' /\ boot'[c] = boot[c]
  BY DEF Moves, At
<1> SUFFICES ASSUME ~cut', NEW r \in CustomRoles \ edited', NEW i \in OnlyOld, Old(i) \in was.grants[r],
                    NEW t \in Targets(i) \ {"locations.view"}
             PROVE  \/ t \in grants'[r] \/ Old(i) \in grants'[r]
                    \/ \E c \in Boots : At(c, "retarget")' /\ boot'[c].i = i /\ boot'[c].role = r /\ t \in boot'[c].todo
  BY DEF NewKeys
<1>2. r \in CustomRoles \ edited /\ ~cut
  OBVIOUS
<1>3. \/ t \in grants[r] \/ Old(i) \in grants[r]
      \/ \E c \in Boots : At(c, "retarget") /\ boot[c].i = i /\ boot[c].role = r /\ t \in boot[c].todo
  BY <1>2 DEF NewKeys
<1> QED
  BY <1>1, <1>2, <1>3

(* A step of the seed that leaves grants and people alone.                 *)
LEMMA WalkKeeps ==
    ASSUME DeployInv, NEW b \in Boots, NEW q, Moves(b, q), BootIs(q), mode = "script",
           q.at \notin {"probe", "repair", "up", "admin role", "workforce", "worker role", "delete", "retarget"},
           boot[b].at \notin {"retarget", "admin role"}, \A n \in 1 .. 2 : PreRead(q, n),
           UNCHANGED <<mode, grants, people, history, counts>>, perms \subseteq perms',
           \A i \in OnlyOld : \A r \in Roles : Old(i) \in grants[r] =>
               (WillStrip(boot[b], i, r) => WillStrip(q, i, r))
    PROVE  DeployInv'
<1>1. BootsOK'
  BY BootsKeep DEF DeployInv, BootsOK, people, counts
<1>2. KeysOK'
  BY DEF DeployInv, KeysOK
<1>3. RolesWhole'
  BY RolesByReader
<1>4. PeopleWhole'
  <2>1. (\E c \in Boots : At(c, "admin role")) => \E c \in Boots : At(c, "admin role")'
    BY DEF Moves, At
  <2>2. \E c \in Boots : ~At(c, "up")'
    BY DEF Moves, At
  <2>3. \A c \in Boots : boot'[c].at \in {"admin role", "workforce", "worker role", "up"} => boot'[c] = boot[c]
    BY DEF Moves
  <2> QED
    BY <2>1, <2>2, <2>3 DEF DeployInv, PeopleWhole, people, counts
<1>5. OldKeys'
  BY OldKeysKeep DEF DeployInv
<1>6. NewKeys'
  BY NewKeysKeep DEF DeployInv, history, counts
<1>7. RepairOK'
  BY DEF RepairOK
<1> QED
  BY <1>1, <1>2, <1>3, <1>4, <1>5, <1>6, <1>7 DEF DeployInv

LEMMA MigrateKeeps ==
    ASSUME DeployInv, NEW b \in Boots, Migrate(b)
    PROVE  DeployInv'
<1>1. PICK q : q = [at |-> "diff"]
  OBVIOUS
<1>2. Moves(b, q) /\ boot[b].at = "migrate"
  BY <1>1, Moved DEF Migrate, Goes, Becomes, At, DeployInv, BootsOK
<1>3. q.at = "diff" /\ BootIs(q) /\ \A n \in 1 .. 2 : PreRead(q, n)
  BY <1>1 DEF BootIs, Simple, InLegacy, PreRead
<1>4. mode = "script"
  BY <1>2, ScriptOnly DEF DeployInv
<1>5. \A i, r : WillStrip(q, i, r)
  BY <1>3 DEF WillStrip
<1> QED
  BY <1>2, <1>3, <1>4, <1>5, WalkKeeps DEF Migrate, access

LEMMA DiffKeeps ==
    ASSUME DeployInv, NEW b \in Boots, Diff(b)
    PROVE  DeployInv'
<1>1. PICK q : q = [at |-> IF lacks = {} THEN "permissions" ELSE "down"]
  OBVIOUS
<1>2. Moves(b, q) /\ boot[b].at = "diff"
  BY <1>1, Moved DEF Diff, Goes, Becomes, At, DeployInv, BootsOK
<1>3. q.at \in {"permissions", "down"} /\ BootIs(q) /\ \A n \in 1 .. 2 : PreRead(q, n)
  BY <1>1 DEF BootIs, Simple, InLegacy, PreRead
<1>4. mode = "script"
  BY <1>2, ScriptOnly DEF DeployInv
<1>5. \A i, r : WillStrip(q, i, r)
  BY <1>3 DEF WillStrip
<1> QED
  BY <1>2, <1>3, <1>4, <1>5, WalkKeeps DEF Diff, access

LEMMA SeedPermissionsKeeps ==
    ASSUME DeployInv, NEW b \in Boots, SeedPermissions(b)
    PROVE  DeployInv'
<1>1. PICK q : q = [at |-> "legacy", i |-> 1]
  OBVIOUS
<1>2. Moves(b, q) /\ boot[b].at = "permissions"
  BY <1>1, Moved DEF SeedPermissions, Becomes, At, DeployInv, BootsOK
<1>3. q.at = "legacy" /\ q.i = 1 /\ BootIs(q) /\ \A n \in 1 .. 2 : PreRead(q, n)
  BY <1>1 DEF BootIs, Simple, InLegacy, PreRead
<1>4. mode = "script"
  BY <1>2, ScriptOnly DEF DeployInv
<1>5. \A i \in OnlyOld : \A r : WillStrip(q, i, r)
  BY <1>3 DEF WillStrip, OnlyOld
<1> QED
  BY <1>2, <1>3, <1>4, <1>5, WalkKeeps DEF SeedPermissions

LEMMA FindLegacyKeeps ==
    ASSUME DeployInv, NEW b \in Boots, FindLegacy(b)
    PROVE  DeployInv'
<1>0. boot[b].at = "legacy" /\ boot[b].i \in 1 .. 5 /\ DOMAIN boot = Boots /\ Len(LEGACY_GRANTS) = 4
  BY OldFacts DEF FindLegacy, At, DeployInv, BootsOK, BootIs
<1>1. PICK j \in 1 .. 5 : j = boot[b].i
  BY <1>0
<1>2. mode = "script" /\ UNCHANGED <<mode, lacks, pending, access, people, history, counts>>
  BY <1>0, ScriptOnly DEF DeployInv, FindLegacy
<1>3. CASE j = 5
  <2>1. PICK q : q = [at |-> "role", i |-> 1]
    OBVIOUS
  <2>2. Moves(b, q)
    BY <1>0, <1>1, <1>3, <2>1, Moved DEF FindLegacy, Becomes
  <2>3. q.at = "role" /\ q.i = 1 /\ BootIs(q) /\ \A n \in 1 .. 2 : PreRead(q, n)
    BY <2>1 DEF BootIs, Simple, InLegacy, PreRead
  <2>4. \A i \in OnlyOld : \A r : ~WillStrip(boot[b], i, r)
    BY <1>0, <1>1, <1>3 DEF WillStrip, OnlyOld, InLegacy
  <2> QED
    BY <1>0, <1>2, <2>2, <2>3, <2>4, WalkKeeps DEF access
<1>4. CASE j # 5 /\ Old(j) \notin perms
  <2>1. PICK q : q = [at |-> "legacy", i |-> j + 1]
    OBVIOUS
  <2>2. Moves(b, q)
    BY <1>0, <1>1, <1>4, <2>1, Moved DEF FindLegacy, Becomes, Legacy, Old
  <2>3. q.at = "legacy" /\ q.i = j + 1 /\ BootIs(q) /\ \A n \in 1 .. 2 : PreRead(q, n)
    BY <1>4, <2>1 DEF BootIs, Simple, InLegacy, PreRead
  <2>4. ASSUME NEW i \in OnlyOld, NEW r \in Roles, Old(i) \in grants[r], WillStrip(boot[b], i, r)
        PROVE  WillStrip(q, i, r)
    <3>1. i # j
      BY <1>4, <2>4, OldFacts DEF DeployInv, KeysOK
    <3>2. j <= i /\ i \in 1 .. 4
      BY <1>0, <1>1, <2>4, OldFacts DEF WillStrip, InLegacy
    <3> QED
      BY <2>3, <3>1, <3>2 DEF WillStrip
  <2> QED
    BY <1>0, <1>2, <2>2, <2>3, <2>4, WalkKeeps DEF access
<1>5. CASE j # 5 /\ Old(j) \in perms
  <2>1. PICK q : q = [at |-> "strip", i |-> j, holders |-> {r \in Roles : Old(j) \in grants[r]}]
    OBVIOUS
  <2>2. Moves(b, q)
    <3>1. ~(boot[b].i > Len(LEGACY_GRANTS)) /\ ~(Legacy(b).legacy \notin perms)
      BY <1>0, <1>1, <1>5 DEF Legacy, Old
    <3>2. boot' = [boot EXCEPT ![b] = [at |-> "strip", i |-> boot[b].i,
                                       holders |-> {r \in Roles : Legacy(b).legacy \in grants[r]}]]
      BY <3>1 DEF FindLegacy, Becomes
    <3>3. Legacy(b).legacy = Old(j)
      BY <1>1 DEF Legacy, Old
    <3> QED
      BY <1>0, <1>1, <2>1, <3>2, <3>3, Moved
  <2>3. q.at = "strip" /\ q.i = j /\ q.holders = {r \in Roles : Old(j) \in grants[r]} /\ BootIs(q)
        /\ \A n \in 1 .. 2 : PreRead(q, n)
    BY <1>5, <2>1 DEF BootIs, Simple, InLegacy, PreRead
  <2>4. ASSUME NEW i \in OnlyOld, NEW r \in Roles, Old(i) \in grants[r], WillStrip(boot[b], i, r)
        PROVE  WillStrip(q, i, r)
    <3>1. j <= i /\ i \in 1 .. 4
      BY <1>0, <1>1, <2>4, OldFacts DEF WillStrip, InLegacy
    <3>2. j = i \/ j < i
      BY <3>1
    <3> QED
      BY <2>3, <2>4, <3>2 DEF WillStrip, InLegacy
  <2> QED
    BY <1>0, <1>2, <2>2, <2>3, <2>4, WalkKeeps DEF access
<1> QED
  BY <1>3, <1>4, <1>5

(* Custom roles while a holder of an old key is served.                    *)
Serves(q, i, r, t) == q.at = "retarget" /\ q.i = i /\ q.role = r /\ t \in q.todo
LEMMA NewKeysServed ==
    ASSUME NewKeys, NEW b \in Boots, NEW q, Moves(b, q), cut' = cut, edited' = edited, was' = was,
           \A r \in CustomRoles : \A x \in PERMISSIONS \ {"locations.view"} : x \in grants[r] => x \in grants'[r],
           \A r \in CustomRoles : \A i \in OnlyOld : \A t \in Targets(i) \ {"locations.view"} :
               /\ Old(i) \in grants[r] => t \in grants'[r] \/ Old(i) \in grants'[r] \/ Serves(q, i, r, t)
               /\ Serves(boot[b], i, r, t) => t \in grants'[r] \/ Serves(q, i, r, t)
    PROVE  NewKeys'
<1> SUFFICES ASSUME ~cut, NEW r \in CustomRoles \ edited, NEW i \in OnlyOld, Old(i) \in was.grants[r],
                    NEW t \in Targets(i) \ {"locations.view"}
             PROVE  \/ t \in grants'[r] \/ Old(i) \in grants'[r]
                    \/ \E c \in Boots : At(c, "retarget")' /\ boot'[c].i = i /\ boot'[c].role = r /\ t \in boot'[c].todo
  BY DEF NewKeys
<1>1. \/ t \in grants[r] \/ Old(i) \in grants[r]
      \/ \E c \in Boots : Serves(boot[c], i, r, t)
  BY DEF NewKeys, Serves, At
<1>2. t \in PERMISSIONS \ {"locations.view"}
  BY OldFacts
<1>3. Serves(q, i, r, t) => \E c \in Boots : Serves(boot'[c], i, r, t)
  BY DEF Moves
<1>4. \A c \in Boots : Serves(boot[c], i, r, t) => c = b \/ Serves(boot'[c], i, r, t)
  BY DEF Moves
<1>5. \/ t \in grants'[r] \/ Old(i) \in grants'[r]
      \/ \E c \in Boots : Serves(boot'[c], i, r, t)
  BY <1>1, <1>2, <1>3, <1>4
<1> QED
  BY <1>5 DEF Serves, At

(* The steps of the migration that touch grants.                           *)
LEMMA MigrationKeeps ==
    ASSUME DeployInv, NEW b \in Boots, NEW q, Moves(b, q), BootIs(q), boot[b].at \in {"strip", "retarget", "delete"},
           q.at \in InLegacy \cup {"down"}, UNCHANGED <<mode, people, history, counts>>,
           KeysOK', NewKeys',
           \A i \in OnlyOld : \A r \in Roles : Old(i) \in grants'[r] =>
               /\ Old(i) \in grants[r]
               /\ WillStrip(boot[b], i, r) => WillStrip(q, i, r)
               /\ q.at = "delete" => q.i # i
               /\ q.at = "retarget" => q.i # i \/ q.role # r
    PROVE  DeployInv'
<1>0. mode = "script"
  BY ScriptOnly DEF DeployInv
<1>1. BootsOK'
  BY <1>0, BootsKeep DEF DeployInv, BootsOK, people, counts, InLegacy
<1>3. RolesWhole'
  BY RolesByReader DEF PreRead
<1>4. PeopleWhole'
  <2>1. (\E c \in Boots : At(c, "admin role")) => \E c \in Boots : At(c, "admin role")'
    BY DEF Moves, At
  <2>2. \E c \in Boots : ~At(c, "up")'
    BY DEF Moves, At, InLegacy
  <2>3. \A c \in Boots : boot'[c].at \in {"admin role", "workforce", "worker role", "up"} => boot'[c] = boot[c]
    BY DEF Moves, InLegacy
  <2> QED
    BY <2>1, <2>2, <2>3 DEF DeployInv, PeopleWhole, people, counts
<1>5. OldKeys'
  BY OldKeysKeep DEF DeployInv
<1>7. RepairOK'
  BY <1>0 DEF RepairOK
<1> QED
  BY <1>1, <1>3, <1>4, <1>5, <1>7 DEF DeployInv

LEMMA StripKeeps ==
    ASSUME DeployInv, NEW b \in Boots, Strip(b)
    PROVE  DeployInv'
<1>0. boot[b].at = "strip" /\ boot[b].i \in 1 .. 4 /\ DOMAIN boot = Boots /\ boot[b].holders \subseteq Roles
      /\ boot[b].holders # {}
  BY DEF Strip, At, DeployInv, BootsOK, BootIs
<1>1. PICK j, r, q : /\ j \in 1 .. 4 /\ j = boot[b].i /\ r = (CHOOSE h \in boot[b].holders : TRUE)
                     /\ q = [at |-> "retarget", i |-> j, holders |-> boot[b].holders, role |-> r,
                             todo |-> Targets(j) \ {Old(j)}]
  BY <1>0
<1>2. r \in boot[b].holders /\ r \in Roles /\ j \in 1 .. 4
  BY <1>0, <1>1
<1>3. grants' = [grants EXCEPT ![r] = @ \ {Old(j)}] /\ Moves(b, q)
  <2>1. Legacy(b).legacy = Old(j) /\ Legacy(b).targets = Targets(j)
    BY <1>1 DEF Legacy, Old, Targets
  <2>2. boot' = [boot EXCEPT ![b] = q]
    BY <1>1, <2>1 DEF Strip, Becomes
  <2> QED
    BY <1>0, <1>1, <2>1, <2>2, Moved DEF Strip
<1>4. /\ q.at = "retarget" /\ q.i = j /\ q.holders = boot[b].holders /\ q.role = r
      /\ q.todo = Targets(j) \ {Old(j)}
  BY <1>1
<1>5. BootIs(q)
  <2>1. q \in [at : {"retarget"}, i : 1 .. 4, holders : SUBSET Roles, role : Roles, todo : SUBSET PERMISSIONS]
    BY <1>0, <1>1, <1>2, OldFacts
  <2> QED
    BY <1>4, <2>1 DEF BootIs, InLegacy
<1>6. /\ DOMAIN grants' = Roles /\ grants'[r] = grants[r] \ {Old(j)}
      /\ \A s \in Roles : s # r => grants'[s] = grants[s]
  BY <1>2, <1>3 DEF DeployInv, KeysOK
<1>7. KeysOK'
  BY <1>6 DEF DeployInv, KeysOK, Strip
<1>8. NewKeys'
  <2>1. \A s \in CustomRoles : \A x \in PERMISSIONS \ {"locations.view"} : x \in grants[s] => x \in grants'[s]
    BY <1>2, <1>6, OldFacts DEF Roles
  <2>2. ASSUME NEW s \in CustomRoles, NEW i \in OnlyOld, NEW t \in Targets(i) \ {"locations.view"}
        PROVE  /\ Old(i) \in grants[s] => t \in grants'[s] \/ Old(i) \in grants'[s] \/ Serves(q, i, s, t)
               /\ Serves(boot[b], i, s, t) => t \in grants'[s] \/ Serves(q, i, s, t)
    <3>1. s \in Roles /\ t # Old(i)
      BY OldFacts DEF Roles
    <3> QED
      BY <1>2, <1>0, <1>4, <1>6, <3>1, OldFacts DEF Serves
  <2> QED
    BY <1>3, <2>1, <2>2, NewKeysServed DEF Strip, DeployInv, history, counts
<1>9. ASSUME NEW i \in OnlyOld, NEW s \in Roles, Old(i) \in grants'[s]
      PROVE  /\ Old(i) \in grants[s]
             /\ WillStrip(boot[b], i, s) => WillStrip(q, i, s)
             /\ q.i # i \/ q.role # s
  BY <1>0, <1>1, <1>4, <1>6, <1>9 DEF WillStrip, InLegacy
<1> QED
  BY <1>0, <1>3, <1>4, <1>5, <1>7, <1>8, <1>9, MigrationKeeps DEF Strip, InLegacy

LEMMA RetargetKeeps ==
    ASSUME DeployInv, NEW b \in Boots, Retarget(b)
    PROVE  DeployInv'
<1>0. /\ boot[b].at = "retarget" /\ DOMAIN boot = Boots
      /\ boot[b] \in [at : {"retarget"}, i : 1 .. 4, holders : SUBSET Roles, role : Roles, todo : SUBSET PERMISSIONS]
  BY DEF Retarget, At, DeployInv, BootsOK, BootIs
<1>1. PICK j \in 1 .. 4, r \in Roles, H \in SUBSET Roles, T \in SUBSET PERMISSIONS :
          j = boot[b].i /\ r = boot[b].role /\ H = boot[b].holders /\ T = boot[b].todo
  BY <1>0
<1>2. CASE T = {}
  <2>1. PICK q : q = [at |-> "strip", i |-> j, holders |-> H \ {r}]
    OBVIOUS
  <2>2. Moves(b, q) /\ grants' = grants
    BY <1>0, <1>1, <1>2, <2>1, Moved DEF Retarget, Becomes
  <2>3. q.at = "strip" /\ q.i = j /\ q.holders = H \ {r} /\ BootIs(q)
    BY <2>1 DEF BootIs, InLegacy
  <2>4. KeysOK'
    BY <2>2 DEF Retarget, DeployInv, KeysOK
  <2>5. NewKeys'
    BY <1>1, <1>2, <2>2, NewKeysServed DEF Retarget, DeployInv, history, counts, Serves
  <2>6. ASSUME NEW i \in OnlyOld, NEW s \in Roles, Old(i) \in grants'[s], WillStrip(boot[b], i, s)
        PROVE  WillStrip(q, i, s)
    <3>1. boot[b].i # i \/ boot[b].role # s
      BY <1>0, <2>2, <2>6 DEF DeployInv, OldKeys, At
    <3> QED
      BY <1>0, <1>1, <2>3, <2>6, <3>1 DEF WillStrip, InLegacy
  <2> QED
    BY <1>0, <2>2, <2>3, <2>4, <2>5, <2>6, MigrationKeeps DEF Retarget, InLegacy
<1>3. CASE T # {}
  <2>1. PICK k, q : k = (CHOOSE h \in T : TRUE) /\ q = [boot[b] EXCEPT !.todo = T \ {k}]
    OBVIOUS
  <2>2. k \in T /\ k \in PERMISSIONS
    BY <1>3, <2>1
  <2>3. grants' = [grants EXCEPT ![r] = @ \cup {k}] /\ Moves(b, q)
    <3>1. boot' = [boot EXCEPT ![b] = q]
      BY <1>1, <1>3, <2>1 DEF Retarget
    <3> QED
      BY <1>0, <1>1, <1>3, <2>1, <3>1, Moved DEF Retarget
  <2>4. /\ q.at = "retarget" /\ q.i = j /\ q.holders = H /\ q.role = r /\ q.todo = T \ {k}
        /\ q \in [at : {"retarget"}, i : 1 .. 4, holders : SUBSET Roles, role : Roles, todo : SUBSET PERMISSIONS]
    BY <1>0, <1>1, <2>1
  <2>5. BootIs(q)
    BY <2>4 DEF BootIs, InLegacy
  <2>6. /\ DOMAIN grants' = Roles /\ grants'[r] = grants[r] \cup {k}
        /\ \A s \in Roles : s # r => grants'[s] = grants[s]
    BY <2>3 DEF DeployInv, KeysOK
  <2>7. k \notin LegacyOnly
    BY <2>2 DEF LegacyOnly
  <2>8. KeysOK'
    BY <2>2, <2>6, <2>7 DEF Retarget, DeployInv, KeysOK
  <2>9. NewKeys'
    <3>1. \A s \in CustomRoles : s \in Roles
      BY DEF Roles
    <3>2. ASSUME NEW s \in CustomRoles, NEW i \in OnlyOld, NEW t, Serves(boot[b], i, s, t)
          PROVE  t \in grants'[s] \/ Serves(q, i, s, t)
      BY <1>1, <2>4, <2>6, <3>1, <3>2 DEF Serves
    <3> QED
      BY <2>3, <2>6, <3>1, <3>2, NewKeysServed DEF Retarget, DeployInv, history, counts
  <2>10. ASSUME NEW i \in OnlyOld, NEW s \in Roles, Old(i) \in grants'[s]
         PROVE  /\ Old(i) \in grants[s]
                /\ WillStrip(boot[b], i, s) => WillStrip(q, i, s)
                /\ q.i # i \/ q.role # s
    <3>1. Old(i) \in grants[s]
      BY <2>2, <2>6, <2>10, OldFacts
    <3>2. boot[b].i # i \/ boot[b].role # s
      BY <1>0, <2>10, <3>1 DEF DeployInv, OldKeys, At
    <3> QED
      BY <1>0, <1>1, <2>4, <3>1, <3>2 DEF WillStrip, InLegacy
  <2> QED
    BY <1>0, <2>3, <2>4, <2>5, <2>8, <2>9, <2>10, MigrationKeeps DEF Retarget, InLegacy
<1> QED
  BY <1>2, <1>3

LEMMA DropLegacyKeeps ==
    ASSUME DeployInv, NEW b \in Boots, DropLegacy(b)
    PROVE  DeployInv'
<1>0. boot[b].at = "strip" /\ boot[b].i \in 1 .. 4 /\ DOMAIN boot = Boots /\ boot[b].holders = {}
      /\ mode = "script" /\ grants' = grants
  BY ScriptOnly DEF DropLegacy, At, DeployInv, BootsOK, BootIs, access
<1>1. PICK j, q : /\ j \in 1 .. 4 /\ j = boot[b].i
                  /\ q = IF StillHeld(b) \/ Legacy(b).legacy \in PERMISSIONS
                         THEN [at |-> "legacy", i |-> j + 1] ELSE [at |-> "delete", i |-> j]
  BY <1>0
<1>2. Moves(b, q)
  <2>1. boot' = [boot EXCEPT ![b] = q]
    BY <1>1 DEF DropLegacy, Becomes
  <2> QED
    BY <1>0, <2>1, Moved
<1>3. /\ (q.at = "legacy" /\ q.i = j + 1) \/ (q.at = "delete" /\ q.i = j)
      /\ BootIs(q)
      /\ q.at = "delete" => \A r \in Roles : Old(j) \notin grants[r]
  <2>1. Legacy(b).legacy = Old(j)
    BY <1>1 DEF Legacy, Old
  <2>2. CASE StillHeld(b) \/ Legacy(b).legacy \in PERMISSIONS
    <3>1. q = [at |-> "legacy", i |-> j + 1]
      BY <1>1, <2>2
    <3>2. q.at = "legacy" /\ q.i = j + 1 /\ j + 1 \in 1 .. 5
      BY <1>1, <3>1
    <3> QED
      BY <3>2 DEF BootIs, Simple, InLegacy
  <2>3. CASE ~StillHeld(b) /\ Legacy(b).legacy \notin PERMISSIONS
    <3>1. q = [at |-> "delete", i |-> j]
      BY <1>1, <2>3
    <3> QED
      BY <1>1, <2>1, <2>3, <3>1 DEF BootIs, Simple, InLegacy, StillHeld
  <2> QED
    BY <2>2, <2>3
<1>4. ASSUME NEW i \in OnlyOld, NEW r \in Roles, Old(i) \in grants'[r]
      PROVE  /\ WillStrip(boot[b], i, r) => WillStrip(q, i, r)
             /\ q.at = "delete" => q.i # i
  <2>1. i \in 1 .. 4
    BY OldFacts
  <2>2. WillStrip(boot[b], i, r) => j < i
    BY <1>0, <1>1, <2>1 DEF WillStrip, InLegacy
  <2>3. j < i => WillStrip(q, i, r)
    BY <1>1, <1>3, <2>1 DEF WillStrip, InLegacy
  <2> QED
    BY <1>0, <1>3, <1>4, <2>2, <2>3
<1>5. KeysOK'
  BY DEF DropLegacy, DeployInv, KeysOK, access
<1>6. NewKeys'
  BY <1>0, <1>2, NewKeysKeep DEF DropLegacy, DeployInv, history, counts
<1> QED
  BY <1>0, <1>2, <1>3, <1>4, <1>5, <1>6, MigrationKeeps DEF DropLegacy, InLegacy

LEMMA DeleteLegacyKeeps ==
    ASSUME DeployInv, NEW b \in Boots, DeleteLegacy(b)
    PROVE  DeployInv'
<1>0. boot[b].at = "delete" /\ boot[b].i \in 1 .. 4 /\ DOMAIN boot = Boots
  BY DEF DeleteLegacy, At, DeployInv, BootsOK, BootIs
<1>1. PICK j \in 1 .. 4 : j = boot[b].i
  BY <1>0
<1>2. Legacy(b).legacy = Old(j)
  BY <1>1 DEF Legacy, Old
<1>3. \A i \in OnlyOld : \A r \in Roles : Old(i) \in grants[r] => i # j
  BY <1>0, <1>1 DEF DeployInv, OldKeys, At
<1>4. CASE Old(j) \in perms
  <2>1. PICK q : q = [at |-> "legacy", i |-> j + 1]
    OBVIOUS
  <2>2. Moves(b, q) /\ perms' = perms \ {Old(j)} /\ grants' = [r \in Roles |-> grants[r] \ {Old(j)}]
    BY <1>0, <1>1, <1>2, <1>4, <2>1, Moved DEF DeleteLegacy, Becomes
  <2>3. q.at = "legacy" /\ q.i = j + 1 /\ BootIs(q)
    BY <2>1 DEF BootIs, Simple, InLegacy
  <2>4. KeysOK'
    BY <2>2 DEF DeployInv, KeysOK
  <2>5. NewKeys'
    <3>1. \A r \in CustomRoles : r \in Roles
      BY DEF Roles
    <3>2. \A r \in CustomRoles : \A x \in PERMISSIONS \ {"locations.view"} : x \in grants[r] => x \in grants'[r]
      BY <2>2, <3>1, OldFacts
    <3>3. \A r \in CustomRoles : \A i \in OnlyOld : Old(i) \in grants[r] => Old(i) \in grants'[r]
      BY <1>3, <2>2, <3>1, OldFacts
    <3> QED
      BY <1>0, <2>2, <3>2, <3>3, NewKeysServed DEF DeleteLegacy, DeployInv, history, counts, Serves
  <2>6. ASSUME NEW i \in OnlyOld, NEW r \in Roles, Old(i) \in grants'[r]
        PROVE  Old(i) \in grants[r] /\ (WillStrip(boot[b], i, r) => WillStrip(q, i, r))
    <3>1. Old(i) \in grants[r] /\ i # j /\ i \in 1 .. 4
      BY <1>3, <2>2, <2>6, OldFacts
    <3>2. WillStrip(boot[b], i, r) => j < i
      BY <1>0, <1>1, <3>1 DEF WillStrip, InLegacy
    <3> QED
      BY <2>3, <3>1, <3>2 DEF WillStrip
  <2> QED
    BY <1>0, <2>2, <2>3, <2>4, <2>5, <2>6, MigrationKeeps DEF DeleteLegacy, InLegacy
<1>5. CASE Old(j) \notin perms
  <2>1. PICK q : q = [at |-> "down"]
    OBVIOUS
  <2>2. Moves(b, q) /\ UNCHANGED access
    BY <1>0, <1>1, <1>2, <1>5, <2>1, Moved DEF DeleteLegacy, Goes, Becomes
  <2>3. q.at = "down" /\ BootIs(q) /\ \A i, r : WillStrip(q, i, r)
    BY <2>1 DEF BootIs, Simple, InLegacy, WillStrip
  <2>4. KeysOK'
    BY <2>2 DEF DeployInv, KeysOK, access
  <2>5. NewKeys'
    BY <1>0, <2>2, NewKeysKeep DEF DeleteLegacy, DeployInv, history, counts, access
  <2> QED
    BY <1>0, <2>2, <2>3, <2>4, <2>5, MigrationKeeps DEF DeleteLegacy, InLegacy, access
<1> QED
  BY <1>4, <1>5

(* The system roles.                                                       *)
LEMMA RoleStepKeeps ==
    ASSUME DeployInv, NEW b \in Boots, NEW q, Moves(b, q), BootIs(q), boot[b].at \in {"role", "trim", "fill"},
           q.at \in {"role", "trim", "fill", "admin?"}, UNCHANGED <<mode, people, history, counts>>,
           KeysOK', RolesWhole', \A r \in CustomRoles : grants'[r] = grants[r],
           \A i \in OnlyOld : \A r \in Roles : Old(i) \in grants'[r] => Old(i) \in grants[r]
    PROVE  DeployInv'
<1>0. mode = "script"
  BY ScriptOnly DEF DeployInv
<1>1. BootsOK'
  BY <1>0, BootsKeep DEF DeployInv, BootsOK, people, counts
<1>4. PeopleWhole'
  <2>1. (\E c \in Boots : At(c, "admin role")) => \E c \in Boots : At(c, "admin role")'
    BY DEF Moves, At
  <2>2. \E c \in Boots : ~At(c, "up")'
    BY DEF Moves, At
  <2>3. \A c \in Boots : boot'[c].at \in {"admin role", "workforce", "worker role", "up"} => boot'[c] = boot[c]
    BY DEF Moves
  <2> QED
    BY <2>1, <2>2, <2>3 DEF DeployInv, PeopleWhole, people, counts
<1>5. OldKeys'
  <2>1. \A i, r : ~WillStrip(boot[b], i, r)
    BY DEF WillStrip, InLegacy
  <2> QED
    BY <2>1, OldKeysKeep DEF DeployInv
<1>6. NewKeys'
  BY NewKeysKeep DEF DeployInv, history, counts
<1>7. RepairOK'
  BY <1>0 DEF RepairOK
<1> QED
  BY <1>1, <1>4, <1>5, <1>6, <1>7 DEF DeployInv

LEMMA RolesKeep ==
    ASSUME RolesWhole, NEW b \in Boots, NEW q, Moves(b, q), UNCHANGED <<mode, history>>,
           \A n \in 1 .. 2 :
               /\ \A x \in grants'[RoleOrder[n]] \ ROLES[RoleOrder[n]] :
                     x \in grants[RoleOrder[n]] /\ (WillTrim(boot[b], n, x) => WillTrim(q, n, x))
               /\ \A x \in ROLES[RoleOrder[n]] \ grants'[RoleOrder[n]] :
                     x \notin grants[RoleOrder[n]] /\ (WillFill(boot[b], n, x) => WillFill(q, n, x))
    PROVE  RolesWhole'
<1>1. ASSUME NEW n \in 1 .. 2, RoleWhole(n)
      PROVE  RoleWhole(n)'
  BY <1>1, RoleKeeps
<1> QED
  BY <1>1 DEF RolesWhole, history

LEMMA ReadRoleKeeps ==
    ASSUME DeployInv, NEW b \in Boots, ReadRole(b)
    PROVE  DeployInv'
<1>0. boot[b].at = "role" /\ boot[b].i \in 1 .. 3 /\ DOMAIN boot = Boots /\ grants' = grants
  BY DEF ReadRole, At, DeployInv, BootsOK, BootIs, access
<1>1. PICK j \in 1 .. 3 : j = boot[b].i
  BY <1>0
<1>2. KeysOK' /\ \A i, r : ~WillStrip(boot[b], i, r)
  BY <1>0 DEF ReadRole, DeployInv, KeysOK, access, WillStrip, InLegacy
<1>3. CASE j = 3
  <2>1. PICK q : q = [at |-> "admin?"]
    OBVIOUS
  <2>2. Moves(b, q)
    BY <1>0, <1>1, <1>3, <2>1, RoleFacts, Moved DEF ReadRole, Goes, Becomes
  <2>3. q.at = "admin?" /\ BootIs(q)
    BY <2>1 DEF BootIs, Simple, InLegacy
  <2>4. \A n \in 1 .. 2 : \A x : ~WillTrim(boot[b], n, x) /\ ~WillFill(boot[b], n, x)
    BY <1>0, <1>1, <1>3 DEF WillTrim, WillFill, PreRead, InLegacy
  <2>5. RolesWhole'
    BY <1>0, <2>2, <2>4, RolesKeep DEF ReadRole, DeployInv
  <2> QED
    BY <1>0, <1>2, <2>2, <2>3, <2>5, RoleStepKeeps DEF ReadRole
<1>4. CASE j # 3
  <2>1. PICK q : q = [at |-> "trim", i |-> j, seen |-> grants[RoleOrder[j]]]
    OBVIOUS
  <2>2. Moves(b, q)
    BY <1>0, <1>1, <1>4, <2>1, RoleFacts, Moved DEF ReadRole, Becomes, Role
  <2>3. q.at = "trim" /\ q.i = j /\ q.seen = grants[RoleOrder[j]] /\ j \in 1 .. 2 /\ BootIs(q)
    <3>1. grants[RoleOrder[j]] \subseteq PERMISSIONS \cup LegacyOnly
      BY <1>4, RoleFacts DEF DeployInv, KeysOK
    <3>2. q \in [at : {"trim", "fill"}, i : 1 .. 2, seen : SUBSET (PERMISSIONS \cup LegacyOnly)]
      BY <1>4, <2>1, <3>1
    <3> QED
      BY <1>4, <2>1, <3>2 DEF BootIs, Simple, InLegacy
  <2>4. ASSUME NEW n \in 1 .. 2, NEW x
        PROVE  /\ x \in grants[RoleOrder[n]] /\ WillTrim(boot[b], n, x) => WillTrim(q, n, x)
               /\ x \notin grants[RoleOrder[n]] /\ WillFill(boot[b], n, x) => WillFill(q, n, x)
    BY <1>0, <1>1, <2>3 DEF WillTrim, WillFill, PreRead, InLegacy
  <2>5. RolesWhole'
    BY <1>0, <2>2, <2>4, RolesKeep DEF ReadRole, DeployInv
  <2> QED
    BY <1>0, <1>2, <2>2, <2>3, <2>5, RoleStepKeeps DEF ReadRole
<1> QED
  BY <1>3, <1>4

LEMMA TrimRoleKeeps ==
    ASSUME DeployInv, NEW b \in Boots, TrimRole(b)
    PROVE  DeployInv'
<1>0. /\ boot[b].at = "trim" /\ DOMAIN boot = Boots
      /\ boot[b] \in [at : {"trim", "fill"}, i : 1 .. 2, seen : SUBSET (PERMISSIONS \cup LegacyOnly)]
  BY DEF TrimRole, At, DeployInv, BootsOK, BootIs
<1>1. PICK j \in 1 .. 2, Z \in SUBSET (PERMISSIONS \cup LegacyOnly) : j = boot[b].i /\ Z = boot[b].seen
  BY <1>0
<1>2. PICK q, r : q = [boot[b] EXCEPT !.at = "fill"] /\ r = RoleOrder[j]
  OBVIOUS
<1>3. Moves(b, q) /\ grants' = [grants EXCEPT ![r] = @ \ (Z \ ROLES[r])] /\ r \in Roles /\ r \notin CustomRoles
  <2>1. boot' = [boot EXCEPT ![b] = q]
    BY <1>2 DEF TrimRole
  <2> QED
    BY <1>0, <1>1, <1>2, <2>1, RoleFacts, Moved DEF TrimRole, Role
<1>4. /\ q.at = "fill" /\ q.i = j /\ q.seen = Z
      /\ q \in [at : {"trim", "fill"}, i : 1 .. 2, seen : SUBSET (PERMISSIONS \cup LegacyOnly)]
  BY <1>0, <1>1, <1>2
<1>5. BootIs(q)
  BY <1>4 DEF BootIs, InLegacy
<1>6. /\ DOMAIN grants' = Roles /\ grants'[r] = grants[r] \ (Z \ ROLES[r])
      /\ \A s \in Roles : s # r => grants'[s] = grants[s]
  BY <1>3 DEF DeployInv, KeysOK
<1>7. KeysOK' /\ \A s \in CustomRoles : s \in Roles
  BY <1>6 DEF TrimRole, DeployInv, KeysOK, Roles
<1>8. ASSUME NEW n \in 1 .. 2
      PROVE  /\ \A x \in grants'[RoleOrder[n]] \ ROLES[RoleOrder[n]] :
                   x \in grants[RoleOrder[n]] /\ (WillTrim(boot[b], n, x) => WillTrim(q, n, x))
             /\ \A x \in ROLES[RoleOrder[n]] \ grants'[RoleOrder[n]] :
                   x \notin grants[RoleOrder[n]] /\ (WillFill(boot[b], n, x) => WillFill(q, n, x))
  <2>1. CASE n = j
    BY <1>0, <1>1, <1>2, <1>4, <1>6, <2>1 DEF WillTrim, WillFill, PreRead, InLegacy
  <2>2. CASE n # j
    <3>1. RoleOrder[n] # r /\ RoleOrder[n] \in Roles
      BY <1>1, <1>2, <2>2, RoleFacts
    <3>2. \A x : /\ WillTrim(boot[b], n, x) => WillTrim(q, n, x)
                 /\ WillFill(boot[b], n, x) => WillFill(q, n, x)
      BY <1>0, <1>1, <1>4, <2>2 DEF WillTrim, WillFill, PreRead, InLegacy
    <3> QED
      BY <1>6, <3>1, <3>2
  <2> QED
    BY <2>1, <2>2
<1>9. RolesWhole'
  BY <1>3, <1>8, RolesKeep DEF TrimRole, DeployInv
<1> QED
  BY <1>0, <1>3, <1>4, <1>5, <1>6, <1>7, <1>9, RoleStepKeeps DEF TrimRole

LEMMA FillRoleKeeps ==
    ASSUME DeployInv, NEW b \in Boots, FillRole(b)
    PROVE  DeployInv'
<1>0. /\ boot[b].at = "fill" /\ DOMAIN boot = Boots
      /\ boot[b] \in [at : {"trim", "fill"}, i : 1 .. 2, seen : SUBSET (PERMISSIONS \cup LegacyOnly)]
  BY DEF FillRole, At, DeployInv, BootsOK, BootIs
<1>1. PICK j \in 1 .. 2, Z \in SUBSET (PERMISSIONS \cup LegacyOnly) : j = boot[b].i /\ Z = boot[b].seen
  BY <1>0
<1>2. PICK q, r : q = [at |-> "role", i |-> j + 1] /\ r = RoleOrder[j]
  OBVIOUS
<1>3. /\ Moves(b, q) /\ grants' = [grants EXCEPT ![r] = @ \cup (ROLES[r] \ Z)] /\ r \in Roles
      /\ r \notin CustomRoles /\ ROLES[r] \subseteq PERMISSIONS
  BY <1>0, <1>1, <1>2, RoleFacts, Moved DEF FillRole, Becomes, Role
<1>4. q.at = "role" /\ q.i = j + 1 /\ BootIs(q)
  BY <1>2 DEF BootIs, Simple, InLegacy
<1>6. /\ DOMAIN grants' = Roles /\ grants'[r] = grants[r] \cup (ROLES[r] \ Z)
      /\ \A s \in Roles : s # r => grants'[s] = grants[s]
  BY <1>3 DEF DeployInv, KeysOK
<1>7. KeysOK' /\ (\A s \in CustomRoles : s \in Roles)
      /\ \A i \in OnlyOld : \A s \in Roles : Old(i) \in grants'[s] => Old(i) \in grants[s]
  <2>1. \A k \in PERMISSIONS : k \notin LegacyOnly
    BY DEF LegacyOnly
  <2> QED
    BY <1>3, <1>6, <2>1, OldFacts DEF FillRole, DeployInv, KeysOK, Roles
<1>8. ASSUME NEW n \in 1 .. 2
      PROVE  /\ \A x \in grants'[RoleOrder[n]] \ ROLES[RoleOrder[n]] :
                   x \in grants[RoleOrder[n]] /\ (WillTrim(boot[b], n, x) => WillTrim(q, n, x))
             /\ \A x \in ROLES[RoleOrder[n]] \ grants'[RoleOrder[n]] :
                   x \notin grants[RoleOrder[n]] /\ (WillFill(boot[b], n, x) => WillFill(q, n, x))
  <2>1. CASE n = j
    BY <1>0, <1>1, <1>2, <1>4, <1>6, <2>1 DEF WillTrim, WillFill, PreRead, InLegacy
  <2>2. CASE n # j
    <3>1. RoleOrder[n] # r /\ RoleOrder[n] \in Roles
      BY <1>1, <1>2, <2>2, RoleFacts
    <3>2. \A x : /\ WillTrim(boot[b], n, x) => WillTrim(q, n, x)
                 /\ WillFill(boot[b], n, x) => WillFill(q, n, x)
      BY <1>0, <1>1, <1>4, <2>2 DEF WillTrim, WillFill, PreRead, InLegacy
    <3> QED
      BY <1>6, <3>1, <3>2
  <2> QED
    BY <2>1, <2>2
<1>9. RolesWhole'
  BY <1>3, <1>8, RolesKeep DEF FillRole, DeployInv
<1> QED
  BY <1>0, <1>3, <1>4, <1>6, <1>7, <1>9, RoleStepKeeps DEF FillRole

(* The first administrator and the demo worker.                            *)
LEMMA PeopleStepKeeps ==
    ASSUME DeployInv, NEW b \in Boots, NEW q, Moves(b, q),
           boot[b].at \in {"admin?", "admin", "admin role", "workforce", "worker role"},
           q.at \in {"admin", "admin role", "workforce", "worker role", "up", "down"},
           UNCHANGED <<mode, access, history, counts>>, admin' \in {"none", "bare", "full"}, PeopleWhole'
    PROVE  DeployInv'
<1>0. mode = "script" /\ BootIs(q)
  BY ScriptOnly DEF DeployInv, BootIs, Simple, InLegacy
<1>1. BootsOK'
  BY <1>0, BootsKeep DEF DeployInv, BootsOK, counts
<1>2. KeysOK'
  BY DEF DeployInv, KeysOK, access
<1>3. RolesWhole'
  BY RolesUntouched DEF DeployInv, access, history
<1>5. OldKeys'
  <2>1. \A i, r : ~WillStrip(boot[b], i, r)
    BY DEF WillStrip, InLegacy
  <2> QED
    BY <2>1, OldKeysKeep DEF DeployInv, access
<1>6. NewKeys'
  BY NewKeysKeep DEF DeployInv, access, history, counts
<1>7. RepairOK'
  BY <1>0 DEF RepairOK
<1> QED
  BY <1>1, <1>2, <1>3, <1>5, <1>6, <1>7 DEF DeployInv

(* Who has no role yet keeps somebody at work.                             *)
LEMMA PeopleKeep ==
    ASSUME PeopleWhole, NEW b \in Boots, NEW q, Moves(b, q), mode' = mode, cut' = cut,
           admin' = "bare" /\ ~cut => q.at = "admin role" \/ (admin = "bare" /\ boot[b].at # "admin role"),
           admin' = "none" => admin = "none" /\ q.at \notin {"admin role", "workforce", "worker role", "up"},
           worker' = "bare" => q.at # "up"
    PROVE  PeopleWhole'
<1>1. admin' = "bare" /\ ~cut' => \E c \in Boots : At(c, "admin role")'
  <2>1. CASE q.at = "admin role"
    BY <2>1 DEF Moves, At
  <2>2. CASE admin = "bare" /\ boot[b].at # "admin role" /\ ~cut
    <3>1. PICK c \in Boots : boot[c].at = "admin role"
      BY <2>2 DEF PeopleWhole, At
    <3> QED
      BY <2>2, <3>1 DEF Moves, At
  <2> QED
    BY <2>1, <2>2
<1>2. ASSUME mode = "script", admin' = "none", NEW c \in Boots
      PROVE  boot'[c].at \notin {"admin role", "workforce", "worker role", "up"}
  BY <1>2 DEF PeopleWhole, Moves
<1>3. worker' = "bare" => \E c \in Boots : ~At(c, "up")'
  BY DEF Moves, At
<1> QED
  BY <1>1, <1>2, <1>3 DEF PeopleWhole

LEMMA FindAdminKeeps ==
    ASSUME DeployInv, NEW b \in Boots, FindAdmin(b)
    PROVE  DeployInv'
<1>1. PICK q : q = [at |-> IF admin = "none" THEN "admin" ELSE "workforce"]
  OBVIOUS
<1>2. Moves(b, q) /\ boot[b].at = "admin?" /\ UNCHANGED <<mode, access, people, history, counts>>
  BY <1>1, Moved DEF FindAdmin, Goes, Becomes, At, DeployInv, BootsOK
<1>3. q.at = IF admin = "none" THEN "admin" ELSE "workforce"
  BY <1>1
<1>4. PeopleWhole'
  BY <1>2, <1>3, PeopleKeep DEF DeployInv, people, counts
<1> QED
  BY <1>2, <1>3, <1>4, PeopleStepKeeps DEF people, DeployInv, BootsOK

LEMMA CreateAdminKeeps ==
    ASSUME DeployInv, NEW b \in Boots, CreateAdmin(b)
    PROVE  DeployInv'
<1>1. PICK q : q = [at |-> IF admin = "none" THEN "admin role" ELSE "down"]
  OBVIOUS
<1>2. /\ Moves(b, q) /\ boot[b].at = "admin" /\ UNCHANGED <<mode, access, worker, history, counts>>
      /\ admin' = IF admin = "none" THEN "bare" ELSE admin
  BY <1>1, Moved DEF CreateAdmin, Goes, Becomes, At, DeployInv, BootsOK
<1>3. q.at = IF admin = "none" THEN "admin role" ELSE "down"
  BY <1>1
<1>4. PeopleWhole'
  BY <1>2, <1>3, PeopleKeep DEF DeployInv, counts
<1> QED
  BY <1>2, <1>3, <1>4, PeopleStepKeeps DEF DeployInv, BootsOK

LEMMA GiveAdminRoleKeeps ==
    ASSUME DeployInv, NEW b \in Boots, GiveAdminRole(b)
    PROVE  DeployInv'
<1>1. PICK q : q = [at |-> "workforce"]
  OBVIOUS
<1>2. /\ Moves(b, q) /\ boot[b].at = "admin role" /\ UNCHANGED <<mode, access, worker, history, counts>>
      /\ admin' = "full"
  BY <1>1, Moved DEF GiveAdminRole, Goes, Becomes, At, DeployInv, BootsOK
<1>3. q.at = "workforce"
  BY <1>1
<1>4. PeopleWhole'
  BY <1>2, <1>3, PeopleKeep DEF DeployInv, counts
<1> QED
  BY <1>2, <1>3, <1>4, PeopleStepKeeps

LEMMA SeedWorkerKeeps ==
    ASSUME DeployInv, NEW b \in Boots, SeedWorker(b)
    PROVE  DeployInv'
<1>1. PICK q : q = [at |-> "worker role"]
  OBVIOUS
<1>2. Moves(b, q) /\ boot[b].at = "workforce" /\ UNCHANGED <<mode, access, admin, history, counts>>
  BY <1>1, Moved DEF SeedWorker, Goes, Becomes, At, DeployInv, BootsOK
<1>3. q.at = "worker role"
  BY <1>1
<1>4. mode = "script" => admin # "none"
  BY <1>2 DEF DeployInv, PeopleWhole
<1>5. mode = "script"
  BY <1>2, ScriptOnly DEF DeployInv
<1>6. PeopleWhole'
  BY <1>2, <1>3, <1>4, <1>5, PeopleKeep DEF DeployInv, counts
<1> QED
  BY <1>2, <1>3, <1>6, PeopleStepKeeps DEF DeployInv, BootsOK

LEMMA SeedWorkerRoleKeeps ==
    ASSUME DeployInv, NEW b \in Boots, SeedWorkerRole(b)
    PROVE  DeployInv'
<1>1. PICK q : q = [at |-> "up"]
  OBVIOUS
<1>2. /\ Moves(b, q) /\ boot[b].at = "worker role" /\ UNCHANGED <<mode, access, admin, history, counts>>
      /\ worker' # "bare"
  BY <1>1, Moved DEF SeedWorkerRole, Goes, Becomes, At, DeployInv, BootsOK
<1>3. q.at = "up"
  BY <1>1
<1>4. mode = "script" => admin # "none"
  BY <1>2 DEF DeployInv, PeopleWhole
<1>5. mode = "script"
  BY <1>2, ScriptOnly DEF DeployInv
<1>6. PeopleWhole'
  BY <1>2, <1>3, <1>4, <1>5, PeopleKeep DEF DeployInv, counts
<1> QED
  BY <1>2, <1>3, <1>6, PeopleStepKeeps DEF DeployInv, BootsOK
(* What a concatenation is made of.                                        *)
IsOver(u, Z) == u \in Seq(Z)
Joins(u, s, t) ==
    /\ Len(u) = Len(s) + Len(t)
    /\ \A i \in 1 .. Len(s) : u[i] = s[i]
    /\ \A i \in 1 .. Len(t) : u[Len(s) + i] = t[i]

LEMMA Joined ==
    ASSUME NEW Z, NEW s, NEW t, IsOver(s, Z), IsOver(t, Z)
    PROVE  IsOver(s \o t, Z) /\ Joins(s \o t, s, t)
<1> DEFINE u == s \o t
<1>1. s \in Seq(Z) /\ t \in Seq(Z) /\ Len(s) \in Nat /\ Len(t) \in Nat
  BY DEF IsOver
<1>2. /\ u \in Seq(Z) /\ Len(u) = Len(s) + Len(t)
      /\ \A i \in 1 .. Len(s) + Len(t) : u[i] = IF i <= Len(s) THEN s[i] ELSE t[i - Len(s)]
  BY <1>1, ConcatProperties
<1> HIDE DEF u
<1>3. PICK m \in Nat, n \in Nat : Len(s) = m /\ Len(t) = n
  BY <1>1
<1>4. \A i \in 1 .. m : u[i] = s[i]
  BY <1>2, <1>3
<1>5. ASSUME NEW i \in 1 .. n
      PROVE  u[m + i] = t[i]
  <2>1. m + i \in 1 .. m + n /\ ~(m + i <= m) /\ (m + i) - m = i
    OBVIOUS
  <2>2. PICK j \in 1 .. m + n : j = m + i
    BY <2>1
  <2>3. u[j] = t[j - m]
    BY <1>2, <1>3, <2>1, <2>2
  <2> QED
    BY <2>1, <2>2, <2>3
<1>6. IsOver(u, Z) /\ Joins(u, s, t)
  BY <1>2, <1>3, <1>4, <1>5 DEF IsOver, Joins
<1> QED
  BY <1>6 DEF u

LEMMA Among ==
    ASSUME NEW Z, NEW T, Z \subseteq T, NEW s \in Seq(Z)
    PROVE  IsOver(s, T)
  BY DEF IsOver

(* The statements of the repair, group by group.                           *)
LEMMA RepairTypesAre ==
    /\ Len(RepairTypes) = 2 /\ RepairTypes \in Seq({RepairTypes[1], RepairTypes[2]})
  BY DEF RepairTypes
LEMMA RepairStationsAre ==
    /\ Len(RepairStations) = 5 /\ RepairStations \in Seq({RepairStations[1], RepairStations[2], RepairStations[3], RepairStations[4], RepairStations[5]})
  BY DEF RepairStations
LEMMA RepairPutawayAre ==
    /\ Len(RepairPutaway) = 4 /\ RepairPutaway \in Seq({RepairPutaway[1], RepairPutaway[2], RepairPutaway[3], RepairPutaway[4]})
  BY DEF RepairPutaway
LEMMA RepairCategoriesAre ==
    /\ Len(RepairCategories) = 4 /\ RepairCategories \in Seq({RepairCategories[1], RepairCategories[2], RepairCategories[3], RepairCategories[4]})
  BY DEF RepairCategories
LEMMA RepairFlowAre ==
    /\ Len(RepairFlow) = 6 /\ RepairFlow \in Seq({RepairFlow[1], RepairFlow[2], RepairFlow[3], RepairFlow[4], RepairFlow[5], RepairFlow[6]})
  BY DEF RepairFlow
LEMMA RepairTasksAre ==
    /\ Len(RepairTasks) = 4 /\ RepairTasks \in Seq({RepairTasks[1], RepairTasks[2], RepairTasks[3], RepairTasks[4]})
  BY DEF RepairTasks
LEMMA RepairChainAre ==
    /\ Len(RepairChain) = 8 /\ RepairChain \in Seq({RepairChain[1], RepairChain[2], RepairChain[3], RepairChain[4], RepairChain[5], RepairChain[6], RepairChain[7], RepairChain[8]})
  BY DEF RepairChain
LEMMA RepairDisplaysAre ==
    /\ Len(RepairDisplays) = 5 /\ RepairDisplays \in Seq({RepairDisplays[1], RepairDisplays[2], RepairDisplays[3], RepairDisplays[4], RepairDisplays[5]})
  BY DEF RepairDisplays

LEMMA RepairOrder ==
    /\ Len(REPAIR_STATEMENTS) = 38 /\ DOMAIN REPAIR_STATEMENTS = 1 .. 38
    /\ \A i \in 1 .. 2 : REPAIR_STATEMENTS[i] = RepairTypes[i]
    /\ \A i \in 1 .. 5 : REPAIR_STATEMENTS[2 + i] = RepairStations[i]
    /\ \A i \in 1 .. 4 : REPAIR_STATEMENTS[7 + i] = RepairPutaway[i]
    /\ \A i \in 1 .. 4 : REPAIR_STATEMENTS[11 + i] = RepairCategories[i]
    /\ \A i \in 1 .. 6 : REPAIR_STATEMENTS[15 + i] = RepairFlow[i]
    /\ \A i \in 1 .. 4 : REPAIR_STATEMENTS[21 + i] = RepairTasks[i]
    /\ \A i \in 1 .. 8 : REPAIR_STATEMENTS[25 + i] = RepairChain[i]
    /\ \A i \in 1 .. 5 : REPAIR_STATEMENTS[33 + i] = RepairDisplays[i]
<1> DEFINE A == {RepairTypes[i] : i \in 1 .. 2} \cup {RepairStations[i] : i \in 1 .. 5}
                 \cup {RepairPutaway[i] : i \in 1 .. 4} \cup {RepairCategories[i] : i \in 1 .. 4}
                 \cup {RepairFlow[i] : i \in 1 .. 6} \cup {RepairTasks[i] : i \in 1 .. 4}
                 \cup {RepairChain[i] : i \in 1 .. 8} \cup {RepairDisplays[i] : i \in 1 .. 5}
<1>0. /\ IsOver(RepairTypes, A)
      /\ IsOver(RepairStations, A)
      /\ IsOver(RepairPutaway, A)
      /\ IsOver(RepairCategories, A)
      /\ IsOver(RepairFlow, A)
      /\ IsOver(RepairTasks, A)
      /\ IsOver(RepairChain, A)
      /\ IsOver(RepairDisplays, A)
  <2>1. IsOver(RepairTypes, A)
    <3>1. {RepairTypes[1], RepairTypes[2]} \subseteq A
      OBVIOUS
    <3> HIDE DEF A
    <3> QED
      BY <3>1, RepairTypesAre, Among
  <2>2. IsOver(RepairStations, A)
    <3>1. {RepairStations[1], RepairStations[2], RepairStations[3], RepairStations[4], RepairStations[5]} \subseteq A
      OBVIOUS
    <3> HIDE DEF A
    <3> QED
      BY <3>1, RepairStationsAre, Among
  <2>3. IsOver(RepairPutaway, A)
    <3>1. {RepairPutaway[1], RepairPutaway[2], RepairPutaway[3], RepairPutaway[4]} \subseteq A
      OBVIOUS
    <3> HIDE DEF A
    <3> QED
      BY <3>1, RepairPutawayAre, Among
  <2>4. IsOver(RepairCategories, A)
    <3>1. {RepairCategories[1], RepairCategories[2], RepairCategories[3], RepairCategories[4]} \subseteq A
      OBVIOUS
    <3> HIDE DEF A
    <3> QED
      BY <3>1, RepairCategoriesAre, Among
  <2>5. IsOver(RepairFlow, A)
    <3>1. {RepairFlow[1], RepairFlow[2], RepairFlow[3], RepairFlow[4], RepairFlow[5], RepairFlow[6]} \subseteq A
      OBVIOUS
    <3> HIDE DEF A
    <3> QED
      BY <3>1, RepairFlowAre, Among
  <2>6. IsOver(RepairTasks, A)
    <3>1. {RepairTasks[1], RepairTasks[2], RepairTasks[3], RepairTasks[4]} \subseteq A
      OBVIOUS
    <3> HIDE DEF A
    <3> QED
      BY <3>1, RepairTasksAre, Among
  <2>7. IsOver(RepairChain, A)
    <3>1. {RepairChain[1], RepairChain[2], RepairChain[3], RepairChain[4], RepairChain[5], RepairChain[6], RepairChain[7], RepairChain[8]} \subseteq A
      OBVIOUS
    <3> HIDE DEF A
    <3> QED
      BY <3>1, RepairChainAre, Among
  <2>8. IsOver(RepairDisplays, A)
    <3>1. {RepairDisplays[1], RepairDisplays[2], RepairDisplays[3], RepairDisplays[4], RepairDisplays[5]} \subseteq A
      OBVIOUS
    <3> HIDE DEF A
    <3> QED
      BY <3>1, RepairDisplaysAre, Among
  <2> QED
    BY <2>1, <2>2, <2>3, <2>4, <2>5, <2>6, <2>7, <2>8
<1> HIDE DEF A
<1> DEFINE P1 == RepairTypes \o RepairStations
           P2 == P1 \o RepairPutaway
           P3 == P2 \o RepairCategories
           P4 == P3 \o RepairFlow
           P5 == P4 \o RepairTasks
           P6 == P5 \o RepairChain
           P7 == P6 \o RepairDisplays
<1>1. IsOver(P1, A) /\ Joins(P1, RepairTypes, RepairStations)
  BY <1>0, Joined
<1>2. IsOver(P2, A) /\ Joins(P2, P1, RepairPutaway)
  BY <1>0, <1>1, Joined
<1>3. IsOver(P3, A) /\ Joins(P3, P2, RepairCategories)
  BY <1>0, <1>2, Joined
<1>4. IsOver(P4, A) /\ Joins(P4, P3, RepairFlow)
  BY <1>0, <1>3, Joined
<1>5. IsOver(P5, A) /\ Joins(P5, P4, RepairTasks)
  BY <1>0, <1>4, Joined
<1>6. IsOver(P6, A) /\ Joins(P6, P5, RepairChain)
  BY <1>0, <1>5, Joined
<1>7. IsOver(P7, A) /\ Joins(P7, P6, RepairDisplays)
  BY <1>0, <1>6, Joined
<1>8. REPAIR_STATEMENTS = P7
  BY DEF REPAIR_STATEMENTS
<1> HIDE DEF P1, P2, P3, P4, P5, P6, P7
<1>9. /\ Len(P1) = 7
      /\ \A i \in 1 .. 2 : P1[i] = RepairTypes[i]
      /\ \A i \in 1 .. 5 : P1[2 + i] = RepairStations[i]
  BY RepairTypesAre, <1>1, RepairStationsAre DEF Joins
<1>10. /\ Len(P2) = 11
       /\ \A i \in 1 .. 7 : P2[i] = P1[i]
       /\ \A i \in 1 .. 4 : P2[7 + i] = RepairPutaway[i]
  BY <1>9, <1>2, RepairPutawayAre DEF Joins
<1>11. /\ Len(P3) = 15
       /\ \A i \in 1 .. 11 : P3[i] = P2[i]
       /\ \A i \in 1 .. 4 : P3[11 + i] = RepairCategories[i]
  BY <1>10, <1>3, RepairCategoriesAre DEF Joins
<1>12. /\ Len(P4) = 21
       /\ \A i \in 1 .. 15 : P4[i] = P3[i]
       /\ \A i \in 1 .. 6 : P4[15 + i] = RepairFlow[i]
  BY <1>11, <1>4, RepairFlowAre DEF Joins
<1>13. /\ Len(P5) = 25
       /\ \A i \in 1 .. 21 : P5[i] = P4[i]
       /\ \A i \in 1 .. 4 : P5[21 + i] = RepairTasks[i]
  BY <1>12, <1>5, RepairTasksAre DEF Joins
<1>14. /\ Len(P6) = 33
       /\ \A i \in 1 .. 25 : P6[i] = P5[i]
       /\ \A i \in 1 .. 8 : P6[25 + i] = RepairChain[i]
  BY <1>13, <1>6, RepairChainAre DEF Joins
<1>15. /\ Len(P7) = 38
       /\ \A i \in 1 .. 33 : P7[i] = P6[i]
       /\ \A i \in 1 .. 5 : P7[33 + i] = RepairDisplays[i]
  BY <1>14, <1>7, RepairDisplaysAre DEF Joins
<1>16. \A i \in 1 .. 2 : P7[i] = RepairTypes[i]
  BY <1>9, <1>10, <1>11, <1>12, <1>13, <1>14, <1>15
<1>17. \A i \in 1 .. 5 : P7[2 + i] = RepairStations[i]
  BY <1>9, <1>10, <1>11, <1>12, <1>13, <1>14, <1>15
<1>18. \A i \in 1 .. 4 : P7[7 + i] = RepairPutaway[i]
  BY <1>10, <1>11, <1>12, <1>13, <1>14, <1>15
<1>19. \A i \in 1 .. 4 : P7[11 + i] = RepairCategories[i]
  BY <1>11, <1>12, <1>13, <1>14, <1>15
<1>20. \A i \in 1 .. 6 : P7[15 + i] = RepairFlow[i]
  BY <1>12, <1>13, <1>14, <1>15
<1>21. \A i \in 1 .. 4 : P7[21 + i] = RepairTasks[i]
  BY <1>13, <1>14, <1>15
<1>22. \A i \in 1 .. 8 : P7[25 + i] = RepairChain[i]
  BY <1>14, <1>15
<1>23. \A i \in 1 .. 5 : P7[33 + i] = RepairDisplays[i]
  BY <1>15
<1>24. DOMAIN P7 = 1 .. 38
  BY <1>7, <1>15 DEF IsOver
<1> QED
  BY <1>8, <1>15, <1>16, <1>17, <1>18, <1>19, <1>20, <1>21, <1>22, <1>23, <1>24

(* No statement needs what only a later one makes.                         *)
LEMMA RepairTypesOrdered ==
    \A i \in 1 .. 2 : \A x \in RepairTypes[i].needs :
        (\E j \in 1 .. i - 1 : x \in RepairTypes[j].makes)
<1>1. \A x \in RepairTypes[1].needs : FALSE
  BY DEF RepairTypes, Makes
<1>2. \A x \in RepairTypes[2].needs : x \in RepairTypes[1].makes
  BY DEF RepairTypes, Makes
<1> QED
  BY <1>1, <1>2
LEMMA RepairStationsOrdered ==
    \A i \in 1 .. 5 : \A x \in RepairStations[i].needs :
        x \in {"types"} \/ (\E j \in 1 .. i - 1 : x \in RepairStations[j].makes)
<1>1. \A x \in RepairStations[1].needs : x \in {"types"}
  BY DEF RepairStations, Makes
<1>2. \A x \in RepairStations[2].needs : x \in {"types"} \/ x \in RepairStations[1].makes
  BY DEF RepairStations, Makes
<1>3. \A x \in RepairStations[3].needs : x \in {"types"} \/ x \in RepairStations[1].makes \/ x \in RepairStations[2].makes
  BY DEF RepairStations, Makes
<1>4. \A x \in RepairStations[4].needs : x \in {"types"} \/ x \in RepairStations[1].makes \/ x \in RepairStations[2].makes \/ x \in RepairStations[3].makes
  BY DEF RepairStations, Makes
<1>5. \A x \in RepairStations[5].needs : x \in {"types"} \/ x \in RepairStations[1].makes \/ x \in RepairStations[2].makes \/ x \in RepairStations[3].makes \/ x \in RepairStations[4].makes
  BY DEF RepairStations, Makes
<1> QED
  BY <1>1, <1>2, <1>3, <1>4, <1>5
LEMMA RepairPutawayOrdered ==
    \A i \in 1 .. 4 : \A x \in RepairPutaway[i].needs :
        x \in {"types", "stations"} \/ (\E j \in 1 .. i - 1 : x \in RepairPutaway[j].makes)
<1>1. \A x \in RepairPutaway[1].needs : x \in {"types", "stations"}
  BY DEF RepairPutaway, Makes
<1>2. \A x \in RepairPutaway[2].needs : x \in {"types", "stations"} \/ x \in RepairPutaway[1].makes
  BY DEF RepairPutaway, Makes
<1>3. \A x \in RepairPutaway[3].needs : x \in {"types", "stations"} \/ x \in RepairPutaway[1].makes \/ x \in RepairPutaway[2].makes
  BY DEF RepairPutaway, Makes
<1>4. \A x \in RepairPutaway[4].needs : x \in {"types", "stations"} \/ x \in RepairPutaway[1].makes \/ x \in RepairPutaway[2].makes \/ x \in RepairPutaway[3].makes
  BY DEF RepairPutaway, Makes
<1> QED
  BY <1>1, <1>2, <1>3, <1>4
LEMMA RepairCategoriesOrdered ==
    \A i \in 1 .. 4 : \A x \in RepairCategories[i].needs :
        (\E j \in 1 .. i - 1 : x \in RepairCategories[j].makes)
<1>1. \A x \in RepairCategories[1].needs : FALSE
  BY DEF RepairCategories, Makes
<1>2. \A x \in RepairCategories[2].needs : x \in RepairCategories[1].makes
  BY DEF RepairCategories, Makes
<1>3. \A x \in RepairCategories[3].needs : x \in RepairCategories[1].makes \/ x \in RepairCategories[2].makes
  BY DEF RepairCategories, Makes
<1>4. \A x \in RepairCategories[4].needs : x \in RepairCategories[1].makes \/ x \in RepairCategories[2].makes \/ x \in RepairCategories[3].makes
  BY DEF RepairCategories, Makes
<1> QED
  BY <1>1, <1>2, <1>3, <1>4
LEMMA RepairFlowOrdered ==
    \A i \in 1 .. 6 : \A x \in RepairFlow[i].needs :
        x \in {"category types"} \/ (\E j \in 1 .. i - 1 : x \in RepairFlow[j].makes)
<1>1. \A x \in RepairFlow[1].needs : x \in {"category types"}
  BY DEF RepairFlow, Makes
<1>2. \A x \in RepairFlow[2].needs : x \in {"category types"} \/ x \in RepairFlow[1].makes
  BY DEF RepairFlow, Makes
<1>3. \A x \in RepairFlow[3].needs : x \in {"category types"} \/ x \in RepairFlow[1].makes \/ x \in RepairFlow[2].makes
  BY DEF RepairFlow, Makes
<1>4. \A x \in RepairFlow[4].needs : x \in {"category types"} \/ x \in RepairFlow[1].makes \/ x \in RepairFlow[2].makes \/ x \in RepairFlow[3].makes
  BY DEF RepairFlow, Makes
<1>5. \A x \in RepairFlow[5].needs : x \in {"category types"} \/ x \in RepairFlow[1].makes \/ x \in RepairFlow[2].makes \/ x \in RepairFlow[3].makes \/ x \in RepairFlow[4].makes
  BY DEF RepairFlow, Makes
<1>6. \A x \in RepairFlow[6].needs : x \in {"category types"} \/ x \in RepairFlow[1].makes \/ x \in RepairFlow[2].makes \/ x \in RepairFlow[3].makes \/ x \in RepairFlow[4].makes \/ x \in RepairFlow[5].makes
  BY DEF RepairFlow, Makes
<1>7. \A i \in 1 .. 6 : i = 1 \/ i = 2 \/ i = 3 \/ i = 4 \/ i = 5 \/ i = 6
  OBVIOUS
<1>8. ASSUME NEW i \in 1 .. 6, NEW x \in RepairFlow[i].needs, x \notin {"category types"}
      PROVE  \E j \in 1 .. i - 1 : x \in RepairFlow[j].makes
  <2>1. CASE i = 1 \/ i = 2 \/ i = 3
    <3>1. i # 1 => 1 \in 1 .. i - 1
      BY <2>1
    <3>2. i = 3 => 2 \in 1 .. i - 1
      OBVIOUS
    <3> QED
      BY <1>1, <1>2, <1>3, <1>8, <2>1, <3>1, <3>2, Zenon
  <2>2. CASE i = 4
    <3>1. 1 \in 1 .. i - 1 /\ 2 \in 1 .. i - 1 /\ 3 \in 1 .. i - 1
      BY <2>2
    <3> QED
      BY <1>4, <1>8, <2>2, <3>1, Zenon
  <2>3. CASE i = 5
    <3>1. 1 \in 1 .. i - 1 /\ 2 \in 1 .. i - 1 /\ 3 \in 1 .. i - 1 /\ 4 \in 1 .. i - 1
      BY <2>3
    <3> QED
      BY <1>5, <1>8, <2>3, <3>1, Zenon
  <2>4. CASE i = 6
    <3>1. 1 \in 1 .. i - 1 /\ 2 \in 1 .. i - 1 /\ 3 \in 1 .. i - 1 /\ 4 \in 1 .. i - 1 /\ 5 \in 1 .. i - 1
      BY <2>4
    <3> QED
      BY <1>6, <1>8, <2>4, <3>1, Zenon
  <2> QED
    BY <1>7, <2>1, <2>2, <2>3, <2>4
<1> QED
  BY <1>8
LEMMA RepairTasksOrdered ==
    \A i \in 1 .. 4 : \A x \in RepairTasks[i].needs :
        x \in {"outbound_shipments", "operational_containers", "stations"} \/ (\E j \in 1 .. i - 1 : x \in RepairTasks[j].makes)
<1>1. \A x \in RepairTasks[1].needs : x \in {"outbound_shipments", "operational_containers", "stations"}
  BY DEF RepairTasks, Makes
<1>2. \A x \in RepairTasks[2].needs : x \in {"outbound_shipments", "operational_containers", "stations"} \/ x \in RepairTasks[1].makes
  BY DEF RepairTasks, Makes
<1>3. \A x \in RepairTasks[3].needs : x \in {"outbound_shipments", "operational_containers", "stations"} \/ x \in RepairTasks[1].makes \/ x \in RepairTasks[2].makes
  BY DEF RepairTasks, Makes
<1>4. \A x \in RepairTasks[4].needs : x \in {"outbound_shipments", "operational_containers", "stations"} \/ x \in RepairTasks[1].makes \/ x \in RepairTasks[2].makes \/ x \in RepairTasks[3].makes
  BY DEF RepairTasks, Makes
<1> QED
  BY <1>1, <1>2, <1>3, <1>4
LEMMA RepairChainOrdered ==
    \A i \in 1 .. 8 : \A x \in RepairChain[i].needs :
        x \in {"outbound_shipments", "operational_containers", "stations"} \/ (\E j \in 1 .. i - 1 : x \in RepairChain[j].makes)
<1>1. \A x \in RepairChain[1].needs : x \in {"outbound_shipments", "operational_containers", "stations"}
  BY DEF RepairChain, Makes
<1>2. \A x \in RepairChain[2].needs : x \in {"outbound_shipments", "operational_containers", "stations"} \/ x \in RepairChain[1].makes
  BY DEF RepairChain, Makes
<1>3. \A x \in RepairChain[3].needs : x \in {"outbound_shipments", "operational_containers", "stations"} \/ x \in RepairChain[1].makes \/ x \in RepairChain[2].makes
  BY DEF RepairChain, Makes
<1>4. \A x \in RepairChain[4].needs : x \in {"outbound_shipments", "operational_containers", "stations"} \/ x \in RepairChain[1].makes \/ x \in RepairChain[2].makes \/ x \in RepairChain[3].makes
  BY DEF RepairChain, Makes
<1>5. \A x \in RepairChain[5].needs : x \in {"outbound_shipments", "operational_containers", "stations"} \/ x \in RepairChain[1].makes \/ x \in RepairChain[2].makes \/ x \in RepairChain[3].makes \/ x \in RepairChain[4].makes
  BY DEF RepairChain, Makes
<1>6. \A x \in RepairChain[6].needs : x \in {"outbound_shipments", "operational_containers", "stations"} \/ x \in RepairChain[1].makes \/ x \in RepairChain[2].makes \/ x \in RepairChain[3].makes \/ x \in RepairChain[4].makes \/ x \in RepairChain[5].makes
  BY DEF RepairChain, Makes
<1>7. \A x \in RepairChain[7].needs : x \in {"outbound_shipments", "operational_containers", "stations"} \/ x \in RepairChain[1].makes \/ x \in RepairChain[2].makes \/ x \in RepairChain[3].makes \/ x \in RepairChain[4].makes \/ x \in RepairChain[5].makes \/ x \in RepairChain[6].makes
  BY DEF RepairChain, Makes
<1>8. \A x \in RepairChain[8].needs : x \in {"outbound_shipments", "operational_containers", "stations"} \/ x \in RepairChain[1].makes \/ x \in RepairChain[2].makes \/ x \in RepairChain[3].makes \/ x \in RepairChain[4].makes \/ x \in RepairChain[5].makes \/ x \in RepairChain[6].makes \/ x \in RepairChain[7].makes
  BY DEF RepairChain, Makes
<1> QED
  BY <1>1, <1>2, <1>3, <1>4, <1>5, <1>6, <1>7, <1>8
LEMMA RepairDisplaysOrdered ==
    \A i \in 1 .. 5 : \A x \in RepairDisplays[i].needs :
        x \in {"stations"} \/ (\E j \in 1 .. i - 1 : x \in RepairDisplays[j].makes)
<1>1. \A x \in RepairDisplays[1].needs : x \in {"stations"}
  BY DEF RepairDisplays, Makes
<1>2. \A x \in RepairDisplays[2].needs : x \in {"stations"} \/ x \in RepairDisplays[1].makes
  BY DEF RepairDisplays, Makes
<1>3. \A x \in RepairDisplays[3].needs : x \in {"stations"} \/ x \in RepairDisplays[1].makes \/ x \in RepairDisplays[2].makes
  BY DEF RepairDisplays, Makes
<1>4. \A x \in RepairDisplays[4].needs : x \in {"stations"} \/ x \in RepairDisplays[1].makes \/ x \in RepairDisplays[2].makes \/ x \in RepairDisplays[3].makes
  BY DEF RepairDisplays, Makes
<1>5. \A x \in RepairDisplays[5].needs : x \in {"stations"} \/ x \in RepairDisplays[1].makes \/ x \in RepairDisplays[2].makes \/ x \in RepairDisplays[3].makes \/ x \in RepairDisplays[4].makes
  BY DEF RepairDisplays, Makes
<1> QED
  BY <1>1, <1>2, <1>3, <1>4, <1>5

LEMMA MadeEarly ==
    /\ "types" \in REPAIR_STATEMENTS[1].makes /\ "stations" \in REPAIR_STATEMENTS[5].makes
    /\ "category types" \in REPAIR_STATEMENTS[12].makes
    /\ "operational_containers" \in REPAIR_STATEMENTS[17].makes
    /\ "outbound_shipments" \in REPAIR_STATEMENTS[18].makes
<1>1. /\ REPAIR_STATEMENTS[1] = RepairTypes[1] /\ REPAIR_STATEMENTS[2 + 3] = RepairStations[3]
      /\ REPAIR_STATEMENTS[11 + 1] = RepairCategories[1] /\ REPAIR_STATEMENTS[15 + 2] = RepairFlow[2]
      /\ REPAIR_STATEMENTS[15 + 3] = RepairFlow[3]
  BY RepairOrder
<1>2. /\ "types" \in RepairTypes[1].makes /\ "stations" \in RepairStations[3].makes
      /\ "category types" \in RepairCategories[1].makes
      /\ "operational_containers" \in RepairFlow[2].makes
      /\ "outbound_shipments" \in RepairFlow[3].makes
  BY DEF RepairTypes, RepairStations, RepairCategories, RepairFlow, Makes
<1>3. /\ 2 + 3 = 5 /\ 11 + 1 = 12 /\ 15 + 2 = 17 /\ 15 + 3 = 18
  OBVIOUS
<1> QED
  BY <1>1, <1>2, <1>3, Zenon

LEMMA Ordered ==
    ASSUME NEW i \in 1 .. 38, NEW x \in REPAIR_STATEMENTS[i].needs
    PROVE  \E j \in 1 .. i - 1 : x \in REPAIR_STATEMENTS[j].makes
<1>1. ASSUME NEW n \in 1 .. 2, i = 0 + n
      PROVE  \E j \in 1 .. i - 1 : x \in REPAIR_STATEMENTS[j].makes
  <2>1. REPAIR_STATEMENTS[i] = RepairTypes[n]
    BY <1>1, RepairOrder
  <2>2. PICK j \in 1 .. n - 1 : x \in RepairTypes[j].makes
    BY <2>1, RepairTypesOrdered
  <2>3. REPAIR_STATEMENTS[0 + j] = RepairTypes[j]
    BY RepairOrder
  <2> QED
    BY <1>1, <2>2, <2>3
<1>2. ASSUME NEW n \in 1 .. 5, i = 2 + n
      PROVE  \E j \in 1 .. i - 1 : x \in REPAIR_STATEMENTS[j].makes
  <2>1. REPAIR_STATEMENTS[i] = RepairStations[n]
    BY <1>2, RepairOrder
  <2>2. CASE x \in {"types"}
    <3>0. 1 \in 1 .. 2
      OBVIOUS
    <3>1. PICK j \in 1 .. 2 : x \in REPAIR_STATEMENTS[j].makes
      BY <2>2, <3>0, MadeEarly, Zenon
    <3>2. j \in 1 .. i - 1
      BY <1>2
    <3> QED
      BY <3>1, <3>2
  <2>3. CASE \E j \in 1 .. n - 1 : x \in RepairStations[j].makes
    <3>1. PICK j \in 1 .. n - 1 : x \in RepairStations[j].makes
      BY <2>3
    <3>2. REPAIR_STATEMENTS[2 + j] = RepairStations[j]
      BY RepairOrder
    <3> QED
      BY <1>2, <3>1, <3>2
  <2> QED
    BY <2>1, <2>2, <2>3, RepairStationsOrdered
<1>3. ASSUME NEW n \in 1 .. 4, i = 7 + n
      PROVE  \E j \in 1 .. i - 1 : x \in REPAIR_STATEMENTS[j].makes
  <2>1. REPAIR_STATEMENTS[i] = RepairPutaway[n]
    BY <1>3, RepairOrder
  <2>2. CASE x \in {"types", "stations"}
    <3>0. 1 \in 1 .. 7 /\ 5 \in 1 .. 7
      OBVIOUS
    <3>1. PICK j \in 1 .. 7 : x \in REPAIR_STATEMENTS[j].makes
      BY <2>2, <3>0, MadeEarly, Zenon
    <3>2. j \in 1 .. i - 1
      BY <1>3
    <3> QED
      BY <3>1, <3>2
  <2>3. CASE \E j \in 1 .. n - 1 : x \in RepairPutaway[j].makes
    <3>1. PICK j \in 1 .. n - 1 : x \in RepairPutaway[j].makes
      BY <2>3
    <3>2. REPAIR_STATEMENTS[7 + j] = RepairPutaway[j]
      BY RepairOrder
    <3> QED
      BY <1>3, <3>1, <3>2
  <2> QED
    BY <2>1, <2>2, <2>3, RepairPutawayOrdered
<1>4. ASSUME NEW n \in 1 .. 4, i = 11 + n
      PROVE  \E j \in 1 .. i - 1 : x \in REPAIR_STATEMENTS[j].makes
  <2>1. REPAIR_STATEMENTS[i] = RepairCategories[n]
    BY <1>4, RepairOrder
  <2>2. PICK j \in 1 .. n - 1 : x \in RepairCategories[j].makes
    BY <2>1, RepairCategoriesOrdered
  <2>3. REPAIR_STATEMENTS[11 + j] = RepairCategories[j]
    BY RepairOrder
  <2> QED
    BY <1>4, <2>2, <2>3
<1>5. ASSUME NEW n \in 1 .. 6, i = 15 + n
      PROVE  \E j \in 1 .. i - 1 : x \in REPAIR_STATEMENTS[j].makes
  <2>1. REPAIR_STATEMENTS[i] = RepairFlow[n]
    BY <1>5, RepairOrder
  <2>2. CASE x \in {"category types"}
    <3>0. 12 \in 1 .. 15
      OBVIOUS
    <3>1. PICK j \in 1 .. 15 : x \in REPAIR_STATEMENTS[j].makes
      BY <2>2, <3>0, MadeEarly, Zenon
    <3>2. j \in 1 .. i - 1
      BY <1>5
    <3> QED
      BY <3>1, <3>2
  <2>3. CASE \E j \in 1 .. n - 1 : x \in RepairFlow[j].makes
    <3>1. PICK j \in 1 .. n - 1 : x \in RepairFlow[j].makes
      BY <2>3
    <3>2. REPAIR_STATEMENTS[15 + j] = RepairFlow[j]
      BY RepairOrder
    <3> QED
      BY <1>5, <3>1, <3>2
  <2> QED
    BY <2>1, <2>2, <2>3, RepairFlowOrdered
<1>6. ASSUME NEW n \in 1 .. 4, i = 21 + n
      PROVE  \E j \in 1 .. i - 1 : x \in REPAIR_STATEMENTS[j].makes
  <2>1. REPAIR_STATEMENTS[i] = RepairTasks[n]
    BY <1>6, RepairOrder
  <2>2. CASE x \in {"outbound_shipments", "operational_containers", "stations"}
    <3>0. 18 \in 1 .. 21 /\ 17 \in 1 .. 21 /\ 5 \in 1 .. 21
      OBVIOUS
    <3>1. PICK j \in 1 .. 21 : x \in REPAIR_STATEMENTS[j].makes
      BY <2>2, <3>0, MadeEarly, Zenon
    <3>2. j \in 1 .. i - 1
      BY <1>6
    <3> QED
      BY <3>1, <3>2
  <2>3. CASE \E j \in 1 .. n - 1 : x \in RepairTasks[j].makes
    <3>1. PICK j \in 1 .. n - 1 : x \in RepairTasks[j].makes
      BY <2>3
    <3>2. REPAIR_STATEMENTS[21 + j] = RepairTasks[j]
      BY RepairOrder
    <3> QED
      BY <1>6, <3>1, <3>2
  <2> QED
    BY <2>1, <2>2, <2>3, RepairTasksOrdered
<1>7. ASSUME NEW n \in 1 .. 8, i = 25 + n
      PROVE  \E j \in 1 .. i - 1 : x \in REPAIR_STATEMENTS[j].makes
  <2>1. REPAIR_STATEMENTS[i] = RepairChain[n]
    BY <1>7, RepairOrder
  <2>2. CASE x \in {"outbound_shipments", "operational_containers", "stations"}
    <3>0. 18 \in 1 .. 25 /\ 17 \in 1 .. 25 /\ 5 \in 1 .. 25
      OBVIOUS
    <3>1. PICK j \in 1 .. 25 : x \in REPAIR_STATEMENTS[j].makes
      BY <2>2, <3>0, MadeEarly, Zenon
    <3>2. j \in 1 .. i - 1
      BY <1>7
    <3> QED
      BY <3>1, <3>2
  <2>3. CASE \E j \in 1 .. n - 1 : x \in RepairChain[j].makes
    <3>1. PICK j \in 1 .. n - 1 : x \in RepairChain[j].makes
      BY <2>3
    <3>2. REPAIR_STATEMENTS[25 + j] = RepairChain[j]
      BY RepairOrder
    <3> QED
      BY <1>7, <3>1, <3>2
  <2> QED
    BY <2>1, <2>2, <2>3, RepairChainOrdered
<1>8. ASSUME NEW n \in 1 .. 5, i = 33 + n
      PROVE  \E j \in 1 .. i - 1 : x \in REPAIR_STATEMENTS[j].makes
  <2>1. REPAIR_STATEMENTS[i] = RepairDisplays[n]
    BY <1>8, RepairOrder
  <2>2. CASE x \in {"stations"}
    <3>0. 5 \in 1 .. 33
      OBVIOUS
    <3>1. PICK j \in 1 .. 33 : x \in REPAIR_STATEMENTS[j].makes
      BY <2>2, <3>0, MadeEarly, Zenon
    <3>2. j \in 1 .. i - 1
      BY <1>8
    <3> QED
      BY <3>1, <3>2
  <2>3. CASE \E j \in 1 .. n - 1 : x \in RepairDisplays[j].makes
    <3>1. PICK j \in 1 .. n - 1 : x \in RepairDisplays[j].makes
      BY <2>3
    <3>2. REPAIR_STATEMENTS[33 + j] = RepairDisplays[j]
      BY RepairOrder
    <3> QED
      BY <1>8, <3>1, <3>2
  <2> QED
    BY <2>1, <2>2, <2>3, RepairDisplaysOrdered
<1>9. \E n \in 1 .. 38 : i = n
  OBVIOUS
<1>10. \/ \E n \in 1 .. 2 : i = 0 + n
       \/ \E n \in 1 .. 5 : i = 2 + n
       \/ \E n \in 1 .. 4 : i = 7 + n
       \/ \E n \in 1 .. 4 : i = 11 + n
       \/ \E n \in 1 .. 6 : i = 15 + n
       \/ \E n \in 1 .. 4 : i = 21 + n
       \/ \E n \in 1 .. 8 : i = 25 + n
       \/ \E n \in 1 .. 5 : i = 33 + n
  OBVIOUS
<1> QED
  BY <1>1, <1>2, <1>3, <1>4, <1>5, <1>6, <1>7, <1>8, <1>10

(* Only the statements 22 to 25 are about the tasks of the workers.         *)
Apart(t) == {"tasks", "lifecycle"} \cap t.makes = {} /\ {"tasks", "task links"} \cap t.needs = {}

LEMMA TasksApart ==
    ASSUME NEW i \in 1 .. 38, i \notin 22 .. 25
    PROVE  Apart(REPAIR_STATEMENTS[i])
<1>1. ASSUME NEW n \in 1 .. 2
      PROVE  Apart(REPAIR_STATEMENTS[0 + n])
  <2>1. Apart(RepairTypes[1])
    BY DEF RepairTypes, Makes, Apart
  <2>2. Apart(RepairTypes[2])
    BY DEF RepairTypes, Makes, Apart
  <2>3. REPAIR_STATEMENTS[0 + n] = RepairTypes[n]
    BY RepairOrder
  <2>4. n = 1 \/ n = 2
    OBVIOUS
  <2> QED
    BY <2>1, <2>2, <2>3, <2>4
<1>2. ASSUME NEW n \in 1 .. 5
      PROVE  Apart(REPAIR_STATEMENTS[2 + n])
  <2>1. Apart(RepairStations[1])
    BY DEF RepairStations, Makes, Apart
  <2>2. Apart(RepairStations[2])
    BY DEF RepairStations, Makes, Apart
  <2>3. Apart(RepairStations[3])
    BY DEF RepairStations, Makes, Apart
  <2>4. Apart(RepairStations[4])
    BY DEF RepairStations, Makes, Apart
  <2>5. Apart(RepairStations[5])
    BY DEF RepairStations, Makes, Apart
  <2>6. REPAIR_STATEMENTS[2 + n] = RepairStations[n]
    BY RepairOrder
  <2>7. n = 1 \/ n = 2 \/ n = 3 \/ n = 4 \/ n = 5
    OBVIOUS
  <2> QED
    BY <2>1, <2>2, <2>3, <2>4, <2>5, <2>6, <2>7
<1>3. ASSUME NEW n \in 1 .. 4
      PROVE  Apart(REPAIR_STATEMENTS[7 + n])
  <2>1. Apart(RepairPutaway[1])
    BY DEF RepairPutaway, Makes, Apart
  <2>2. Apart(RepairPutaway[2])
    BY DEF RepairPutaway, Makes, Apart
  <2>3. Apart(RepairPutaway[3])
    BY DEF RepairPutaway, Makes, Apart
  <2>4. Apart(RepairPutaway[4])
    BY DEF RepairPutaway, Makes, Apart
  <2>5. REPAIR_STATEMENTS[7 + n] = RepairPutaway[n]
    BY RepairOrder
  <2>6. n = 1 \/ n = 2 \/ n = 3 \/ n = 4
    OBVIOUS
  <2> QED
    BY <2>1, <2>2, <2>3, <2>4, <2>5, <2>6
<1>4. ASSUME NEW n \in 1 .. 4
      PROVE  Apart(REPAIR_STATEMENTS[11 + n])
  <2>1. Apart(RepairCategories[1])
    BY DEF RepairCategories, Makes, Apart
  <2>2. Apart(RepairCategories[2])
    BY DEF RepairCategories, Makes, Apart
  <2>3. Apart(RepairCategories[3])
    BY DEF RepairCategories, Makes, Apart
  <2>4. Apart(RepairCategories[4])
    BY DEF RepairCategories, Makes, Apart
  <2>5. REPAIR_STATEMENTS[11 + n] = RepairCategories[n]
    BY RepairOrder
  <2>6. n = 1 \/ n = 2 \/ n = 3 \/ n = 4
    OBVIOUS
  <2> QED
    BY <2>1, <2>2, <2>3, <2>4, <2>5, <2>6
<1>5. ASSUME NEW n \in 1 .. 6
      PROVE  Apart(REPAIR_STATEMENTS[15 + n])
  <2>1. Apart(RepairFlow[1])
    BY DEF RepairFlow, Makes, Apart
  <2>2. Apart(RepairFlow[2])
    BY DEF RepairFlow, Makes, Apart
  <2>3. Apart(RepairFlow[3])
    BY DEF RepairFlow, Makes, Apart
  <2>4. Apart(RepairFlow[4])
    BY DEF RepairFlow, Makes, Apart
  <2>5. Apart(RepairFlow[5])
    BY DEF RepairFlow, Makes, Apart
  <2>6. Apart(RepairFlow[6])
    BY DEF RepairFlow, Makes, Apart
  <2>7. REPAIR_STATEMENTS[15 + n] = RepairFlow[n]
    BY RepairOrder
  <2>8. n = 1 \/ n = 2 \/ n = 3 \/ n = 4 \/ n = 5 \/ n = 6
    OBVIOUS
  <2> QED
    BY <2>1, <2>2, <2>3, <2>4, <2>5, <2>6, <2>7, <2>8
<1>6. ASSUME NEW n \in 1 .. 8
      PROVE  Apart(REPAIR_STATEMENTS[25 + n])
  <2>1. Apart(RepairChain[1])
    BY DEF RepairChain, Makes, Apart
  <2>2. Apart(RepairChain[2])
    BY DEF RepairChain, Makes, Apart
  <2>3. Apart(RepairChain[3])
    BY DEF RepairChain, Makes, Apart
  <2>4. Apart(RepairChain[4])
    BY DEF RepairChain, Makes, Apart
  <2>5. Apart(RepairChain[5])
    BY DEF RepairChain, Makes, Apart
  <2>6. Apart(RepairChain[6])
    BY DEF RepairChain, Makes, Apart
  <2>7. Apart(RepairChain[7])
    BY DEF RepairChain, Makes, Apart
  <2>8. Apart(RepairChain[8])
    BY DEF RepairChain, Makes, Apart
  <2>9. REPAIR_STATEMENTS[25 + n] = RepairChain[n]
    BY RepairOrder
  <2>10. n = 1 \/ n = 2 \/ n = 3 \/ n = 4 \/ n = 5 \/ n = 6 \/ n = 7 \/ n = 8
    OBVIOUS
  <2> QED
    BY <2>1, <2>2, <2>3, <2>4, <2>5, <2>6, <2>7, <2>8, <2>9, <2>10
<1>7. ASSUME NEW n \in 1 .. 5
      PROVE  Apart(REPAIR_STATEMENTS[33 + n])
  <2>1. Apart(RepairDisplays[1])
    BY DEF RepairDisplays, Makes, Apart
  <2>2. Apart(RepairDisplays[2])
    BY DEF RepairDisplays, Makes, Apart
  <2>3. Apart(RepairDisplays[3])
    BY DEF RepairDisplays, Makes, Apart
  <2>4. Apart(RepairDisplays[4])
    BY DEF RepairDisplays, Makes, Apart
  <2>5. Apart(RepairDisplays[5])
    BY DEF RepairDisplays, Makes, Apart
  <2>6. REPAIR_STATEMENTS[33 + n] = RepairDisplays[n]
    BY RepairOrder
  <2>7. n = 1 \/ n = 2 \/ n = 3 \/ n = 4 \/ n = 5
    OBVIOUS
  <2> QED
    BY <2>1, <2>2, <2>3, <2>4, <2>5, <2>6, <2>7
<1>8. \/ \E n \in 1 .. 2 : i = 0 + n
      \/ \E n \in 1 .. 5 : i = 2 + n
      \/ \E n \in 1 .. 4 : i = 7 + n
      \/ \E n \in 1 .. 4 : i = 11 + n
      \/ \E n \in 1 .. 6 : i = 15 + n
      \/ \E n \in 1 .. 8 : i = 25 + n
      \/ \E n \in 1 .. 5 : i = 33 + n
  OBVIOUS
<1> QED
  BY <1>1, <1>2, <1>3, <1>4, <1>5, <1>6, <1>7, <1>8

LEMMA TaskStatements ==
    /\ REPAIR_STATEMENTS[22].makes = {"AssignmentStatus"} /\ REPAIR_STATEMENTS[22].needs = {}
    /\ REPAIR_STATEMENTS[23].makes = {"tasks"} /\ REPAIR_STATEMENTS[23].needs = {"AssignmentStatus"}
    /\ REPAIR_STATEMENTS[24].makes = {"AssignmentStatus", "lifecycle"}
    /\ REPAIR_STATEMENTS[24].needs = {"tasks"}
    /\ REPAIR_STATEMENTS[25].makes = {"task links"} /\ "task links" \notin REPAIR_STATEMENTS[25].needs
<1>1. /\ REPAIR_STATEMENTS[21 + 1] = RepairTasks[1] /\ REPAIR_STATEMENTS[21 + 2] = RepairTasks[2]
      /\ REPAIR_STATEMENTS[21 + 3] = RepairTasks[3] /\ REPAIR_STATEMENTS[21 + 4] = RepairTasks[4]
  BY RepairOrder
<1>2. /\ RepairTasks[1].makes = {"AssignmentStatus"} /\ RepairTasks[1].needs = {}
      /\ RepairTasks[2].makes = {"tasks"} /\ RepairTasks[2].needs = {"AssignmentStatus"}
      /\ RepairTasks[3].makes = {"AssignmentStatus", "lifecycle"} /\ RepairTasks[3].needs = {"tasks"}
      /\ RepairTasks[4].makes = {"task links"} /\ "task links" \notin RepairTasks[4].needs
  BY DEF RepairTasks, Makes
<1>3. 21 + 1 = 22 /\ 21 + 2 = 23 /\ 21 + 3 = 24 /\ 21 + 4 = 25
  OBVIOUS
<1> QED
  BY <1>1, <1>2, <1>3, Zenon

LEMMA MadeBeforeIs ==
    ASSUME NEW n \in Nat
    PROVE  /\ \A i \in 1 .. n - 1 : REPAIR_STATEMENTS[i].makes \subseteq MadeBefore(n)
           /\ MadeBefore(n + 1) = MadeBefore(n) \cup (IF n = 0 THEN {} ELSE REPAIR_STATEMENTS[n].makes)
           /\ n <= 39 => MadeBefore(n) \subseteq Repairable
           /\ \A x \in MadeBefore(n) : \E i \in 1 .. n - 1 : x \in REPAIR_STATEMENTS[i].makes
<1>1. \A x : x \in MadeBefore(n) <=> \E i \in 1 .. n - 1 : x \in REPAIR_STATEMENTS[i].makes
  BY DEF MadeBefore
<1>2. \A x : x \in MadeBefore(n + 1) <=> \E i \in 1 .. n : x \in REPAIR_STATEMENTS[i].makes
  BY DEF MadeBefore
<1>3. n <= 39 => MadeBefore(n) \subseteq Repairable
  BY <1>1, RepairOrder DEF Repairable
<1>4. \A i : i \in 1 .. n <=> i \in 1 .. n - 1 \/ (n # 0 /\ i = n)
  OBVIOUS
<1>5. ASSUME NEW x
      PROVE  x \in MadeBefore(n + 1) <=> x \in MadeBefore(n) \/ (n # 0 /\ x \in REPAIR_STATEMENTS[n].makes)
  <2>1. ASSUME x \in MadeBefore(n + 1)
        PROVE  x \in MadeBefore(n) \/ (n # 0 /\ x \in REPAIR_STATEMENTS[n].makes)
    <3>1. PICK i \in 1 .. n : x \in REPAIR_STATEMENTS[i].makes
      BY <1>2, <2>1
    <3> QED
      BY <1>1, <1>4, <3>1
  <2>2. n # 0 => n \in 1 .. n
    OBVIOUS
  <2> QED
    BY <1>1, <1>2, <1>4, <2>1, <2>2
<1> QED
  BY <1>1, <1>3, <1>5

(* A statement that follows on all before it makes what it is for, unless  *)
(* that is out of reach; and the labels only where the table is.           *)
LEMMA StatementWorks ==
    ASSUME NEW i \in 1 .. 38, DoneBefore(i), lacks \subseteq was.lacks,
           "tasks" \in lacks /\ "lifecycle" \in was.lacks => "lifecycle" \in lacks,
           lacks' = IF Runs(REPAIR_STATEMENTS[i]) THEN lacks \ REPAIR_STATEMENTS[i].makes ELSE lacks
    PROVE  /\ REPAIR_STATEMENTS[i].makes \cap lacks' \subseteq BeyondRepair
           /\ "tasks" \in lacks' /\ "lifecycle" \in was.lacks => "lifecycle" \in lacks'
<1> DEFINE t == REPAIR_STATEMENTS[i]
<1>1. t.needs \cap lacks \subseteq BeyondRepair
  <2>1. ASSUME NEW x \in t.needs
        PROVE  x \in MadeBefore(i)
    <3>1. PICK j \in 1 .. i - 1 : x \in REPAIR_STATEMENTS[j].makes
      BY Ordered
    <3> QED
      BY <3>1, MadeBeforeIs
  <2> QED
    BY <2>1 DEF DoneBefore
<1>2. BeyondRepair = {} \/ (/\ BeyondRepair = {"tasks", "task links"}
                           /\ "lifecycle" \notin lacks)
  BY DEF BeyondRepair
<1>3. BeyondRepair = {} /\ "tasks" \in lacks => "lifecycle" \in lacks
  BY DEF BeyondRepair
<1>4. i > 22 => "AssignmentStatus" \notin lacks
  <2>1. SUFFICES ASSUME i > 22
                 PROVE  "AssignmentStatus" \notin lacks
    OBVIOUS
  <2>2. 22 \in 1 .. i - 1 /\ i \in Nat
    BY <2>1
  <2>3. "AssignmentStatus" \in MadeBefore(i)
    BY <2>2, TaskStatements, MadeBeforeIs
  <2>4. "AssignmentStatus" \notin BeyondRepair
    BY DEF BeyondRepair
  <2> QED
    BY <2>3, <2>4 DEF DoneBefore
<1>5. CASE i \notin 22 .. 25
  <2>1. Apart(t)
    BY <1>5, TasksApart
  <2>2. t.needs \cap lacks = {} /\ "tasks" \notin t.makes /\ "lifecycle" \notin t.makes
    BY <1>1, <1>2, <2>1 DEF Apart
  <2> QED
    BY <2>2 DEF Runs
<1>6. CASE i = 22
  BY <1>6, TaskStatements DEF Runs
<1>7. CASE i = 23
  <2>0. "AssignmentStatus" \notin lacks
    BY <1>4, <1>7
  <2>3. t.makes = {"tasks"} /\ t.needs = {"AssignmentStatus"}
    BY <1>7, TaskStatements
  <2>1. t.makes = {"tasks"} /\ t.needs \cap lacks = {}
    <3> HIDE DEF t
    <3> QED
      BY <2>0, <2>3
  <2>2. CASE BeyondRepair = {}
    BY <1>3, <2>1, <2>2 DEF Runs
  <2>4. CASE BeyondRepair = {"tasks", "task links"}
    BY <2>1, <2>4
  <2> QED
    BY <1>2, <2>1, <2>2, <2>4
<1>8. CASE i = 24
  <2>0. "AssignmentStatus" \notin lacks
    BY <1>4, <1>8
  <2>1. t.makes = {"AssignmentStatus", "lifecycle"} /\ t.needs = {"tasks"} /\ "AssignmentStatus" \notin lacks
    BY <1>8, <2>0, TaskStatements
  <2>2. Runs(t) <=> "tasks" \notin lacks
    BY <2>1 DEF Runs
  <2> QED
    BY <1>1, <1>2, <2>1, <2>2
<1>9. CASE i = 25
  <2>1. t.makes = {"task links"} /\ "task links" \notin t.needs
    BY <1>9, TaskStatements
  <2> QED
    BY <1>1, <1>2, <2>1 DEF Runs
<1> QED
  BY <1>5, <1>6, <1>7, <1>8, <1>9

(* The schema stays as it is.                                              *)
LEMMA SameSchema ==
    ASSUME UNCHANGED <<lacks, was>>
    PROVE  /\ \A n : DoneBefore(n)' = DoneBefore(n) /\ MadeBefore(n)' = MadeBefore(n)
           /\ AllDone' = AllDone
  BY DEF DoneBefore, AllDone, BeyondRepair, MadeBefore

(* A step of the repair.                                                   *)
LEMMA DirectStepKeeps ==
    ASSUME DeployInv, NEW b \in Boots, NEW q, Moves(b, q), BootIs(q), mode = "direct",
           q.at \in {"probe", "repair", "up"}, boot[b].at \in {"down", "probe", "repair"},
           UNCHANGED <<mode, access, people, history, cut>>, faults' \in Nat, RepairOK'
    PROVE  DeployInv'
<1>1. BootsOK'
  BY BootsKeep DEF DeployInv, BootsOK, people
<1>2. KeysOK'
  BY DEF DeployInv, KeysOK, access
<1>3. RolesWhole'
  BY DEF RolesWhole
<1>4. PeopleWhole'
  <2>1. \A c \in Boots : boot[c].at \in {"down", "probe", "repair", "up"}
    BY DEF DeployInv, BootsOK
  <2>2. ~(admin = "bare" /\ ~cut)
    BY <2>1 DEF DeployInv, PeopleWhole, At
  <2> QED
    BY <2>2 DEF PeopleWhole, people
<1>5. OldKeys'
  BY OldKeysKeep DEF DeployInv, access
<1>6. NewKeys'
  BY NewKeysKeep DEF DeployInv, access, history
<1> QED
  BY <1>1, <1>2, <1>3, <1>4, <1>5, <1>6 DEF DeployInv

LEMMA ProbeKeeps ==
    ASSUME DeployInv, NEW b \in Boots, Probe(b)
    PROVE  DeployInv'
<1>1. boot[b].at = "probe" /\ DOMAIN boot = Boots /\ mode = "direct"
  BY DEF Probe, At, DeployInv, BootsOK
<1>2. UNCHANGED <<mode, lacks, access, people, history, cut, faults>>
  BY DEF Probe, counts
<1>3. CASE PROBE \cap lacks = {}
  <2>1. PICK q : q = [at |-> "up"]
    OBVIOUS
  <2>2. Moves(b, q)
    BY <1>1, <1>3, <2>1, Moved DEF Probe, Goes, Becomes
  <2>3. q.at = "up" /\ BootIs(q)
    BY <2>1 DEF BootIs, Simple, InLegacy
  <2>4. RepairOK'
    BY <1>1, <1>2, <1>3, <2>2, <2>3, SameSchema DEF DeployInv, RepairOK, Moves, At, history
  <2> QED
    BY <1>1, <1>2, <2>2, <2>3, <2>4, DirectStepKeeps DEF DeployInv, BootsOK
<1>4. CASE PROBE \cap lacks # {}
  <2>1. PICK q : q = [at |-> "repair", i |-> 1]
    OBVIOUS
  <2>2. Moves(b, q)
    BY <1>1, <1>4, <2>1, Moved DEF Probe, Goes, Becomes
  <2>3. q.at = "repair" /\ q.i = 1 /\ BootIs(q)
    BY <2>1 DEF BootIs, Simple, InLegacy
  <2>0. DoneBefore(1)
    BY DEF DoneBefore, MadeBefore
  <2>4. RepairOK'
    BY <1>1, <1>2, <1>4, <2>0, <2>2, <2>3, SameSchema DEF DeployInv, RepairOK, Moves, At, history
  <2> QED
    BY <1>1, <1>2, <2>2, <2>3, <2>4, DirectStepKeeps DEF DeployInv, BootsOK
<1> QED
  BY <1>3, <1>4

LEMMA ProbeFaultKeeps ==
    ASSUME DeployInv, NEW b \in Boots, ProbeFault(b)
    PROVE  DeployInv'
<1>1. boot[b].at = "probe" /\ DOMAIN boot = Boots /\ mode = "direct" /\ faults \in Nat
  BY DEF ProbeFault, At, DeployInv, BootsOK
<1>2. UNCHANGED <<mode, access, people, history, cut>> /\ faults' = faults + 1
  BY DEF ProbeFault
<1>3. PICK q : q = [at |-> "up"]
  OBVIOUS
<1>4. Moves(b, q)
  BY <1>1, <1>3, Moved DEF ProbeFault, Goes, Becomes
<1>5. q.at = "up" /\ BootIs(q)
  BY <1>3 DEF BootIs, Simple, InLegacy
<1>6. RepairOK'
  BY <1>1, <1>2 DEF RepairOK
<1> QED
  BY <1>1, <1>2, <1>4, <1>5, <1>6, DirectStepKeeps

(* A statement of the repair is over.                                      *)
LEMMA NextStatement ==
    ASSUME DeployInv, NEW b \in Boots, Repair(b) \/ RepairFault(b)
    PROVE  /\ boot[b].i \in 1 .. 38
           /\ \E q : Moves(b, q) /\ BootIs(q) /\ q.at = "repair" /\ q.i = boot[b].i + 1
<1>1. boot[b] \in [at : {"repair"}, i : 1 .. 39] /\ DOMAIN boot = Boots
  BY DEF Repair, RepairFault, At, DeployInv, BootsOK, BootIs
<1>2. PICK i \in 1 .. 38 : i = boot[b].i
  BY <1>1, RepairOrder DEF Repair, RepairFault
<1>0. i + 1 \in 1 .. 39
  OBVIOUS
<1>3. PICK q : q = [boot[b] EXCEPT !.i = i + 1]
  OBVIOUS
<1>4. q.at = "repair" /\ q.i = i + 1 /\ q \in [at : {"repair"}, i : 1 .. 39]
  BY <1>0, <1>1, <1>2, <1>3
<1>6. BootIs(q)
  BY <1>4 DEF BootIs, Simple, InLegacy
<1>5. Moves(b, q)
  BY <1>1, <1>2, <1>3 DEF Moves, Repair, RepairFault
<1> QED
  BY <1>2, <1>4, <1>5, <1>6

(* What is there stays there.                                              *)
LEMMA DoneStays ==
    ASSUME lacks' \subseteq lacks, was' = was
    PROVE  /\ \A n : DoneBefore(n) => DoneBefore(n)'
           /\ AllDone => AllDone'
           /\ BeyondRepair' = BeyondRepair
  BY DEF DoneBefore, AllDone, BeyondRepair, MadeBefore

LEMMA RepairKeeps ==
    ASSUME DeployInv, NEW b \in Boots, Repair(b)
    PROVE  DeployInv'
<1>1. boot[b].at = "repair" /\ mode = "direct"
  BY DEF Repair, At, DeployInv, BootsOK
<1>0. PICK i \in 1 .. 38 : i = boot[b].i
  BY NextStatement
<1>2. PICK q : i = boot[b].i /\ Moves(b, q) /\ BootIs(q) /\ q.at = "repair" /\ q.i = i + 1
  BY <1>0, NextStatement
<1>3. /\ UNCHANGED <<mode, access, people, history, cut, faults>>
      /\ lacks' = IF Runs(REPAIR_STATEMENTS[i]) THEN lacks \ REPAIR_STATEMENTS[i].makes ELSE lacks
  BY <1>2 DEF Repair, counts
<1>4. lacks' \subseteq lacks /\ was' = was /\ lacks \ lacks' \subseteq REPAIR_STATEMENTS[i].makes
  BY <1>3 DEF history
<1>5. RepairOK'
  <2> SUFFICES ASSUME faults = 0
               PROVE  RepairOK'
    BY <1>3 DEF RepairOK
  <2>0. /\ lacks \subseteq was.lacks
        /\ "tasks" \in lacks /\ "lifecycle" \in was.lacks => "lifecycle" \in lacks
        /\ \A c \in Boots : At(c, "repair") => DoneBefore(boot[c].i)
        /\ \A n \in 1 .. 38 : ((PROBE \cap was.lacks) \ lacks) \ MadeBefore(n) # {} => DoneBefore(n)
        /\ \A c \in Boots : At(c, "up") => PROBE \cap lacks = {} \/ AllDone
    BY <1>1 DEF DeployInv, RepairOK
  <2>1. DoneBefore(i)
    BY <1>1, <1>2, <2>0 DEF At
  <2>2. /\ REPAIR_STATEMENTS[i].makes \cap lacks' \subseteq BeyondRepair
        /\ "tasks" \in lacks' /\ "lifecycle" \in was.lacks => "lifecycle" \in lacks'
    BY <1>3, <2>0, <2>1, StatementWorks
  <2>3. DoneBefore(i)' /\ DoneBefore(i + 1)'
    <3>1. DoneBefore(i)' /\ BeyondRepair' = BeyondRepair /\ MadeBefore(i + 1)' = MadeBefore(i + 1)
      BY <1>4, <2>1, DoneStays DEF MadeBefore
    <3>2. MadeBefore(i + 1) = MadeBefore(i) \cup REPAIR_STATEMENTS[i].makes
      BY MadeBeforeIs
    <3>3. MadeBefore(i) \cap lacks' \subseteq BeyondRepair
      BY <1>4, <2>1 DEF DoneBefore
    <3> QED
      BY <2>2, <3>1, <3>2, <3>3 DEF DoneBefore
  <2>4. ASSUME NEW c \in Boots, At(c, "repair")'
        PROVE  DoneBefore(boot[c].i)'
    <3>1. CASE c = b
      <4>1. boot'[c].i = i + 1
        BY <1>2, <3>1 DEF Moves
      <4> QED
        BY <2>3, <4>1 DEF DoneBefore
    <3>2. CASE c # b
      <4>1. At(c, "repair") /\ boot'[c] = boot[c]
        BY <1>2, <2>4, <3>2 DEF Moves, At
      <4>2. DoneBefore(boot[c].i)
        BY <2>0, <4>1
      <4>3. DoneBefore(boot[c].i)' = (MadeBefore(boot[c].i) \cap lacks' \subseteq BeyondRepair')
        BY <4>1 DEF DoneBefore, MadeBefore
      <4> QED
        BY <1>4, <4>2, <4>3, DoneStays DEF DoneBefore
    <3> QED
      BY <3>1, <3>2
  <2>5. ASSUME NEW n \in 1 .. 38, ((PROBE \cap was.lacks) \ lacks') \ MadeBefore(n) # {}
        PROVE  DoneBefore(n)'
    <3>1. PICK x \in PROBE \cap was.lacks : x \notin lacks' /\ x \notin MadeBefore(n)
      BY <2>5
    <3>2. CASE x \notin lacks
      BY <1>4, <2>0, <3>1, <3>2, DoneStays
    <3>3. CASE x \in lacks
      <4>1. x \in REPAIR_STATEMENTS[i].makes
        BY <1>4, <3>1, <3>3
      <4>2. n <= i
        <5>1. CASE i <= n - 1
          <6>1. i \in 1 .. n - 1 /\ n \in Nat
            BY <5>1
          <6> QED
            BY <3>1, <4>1, <6>1, MadeBeforeIs
        <5> QED
          BY <5>1
      <4>3. MadeBefore(n) \subseteq MadeBefore(i)
        <5>1. 1 .. n - 1 \subseteq 1 .. i - 1
          BY <4>2
        <5> QED
          BY <5>1 DEF MadeBefore
      <4>4. DoneBefore(n)
        BY <2>1, <4>3 DEF DoneBefore
      <4> QED
        BY <1>4, <4>4, DoneStays
    <3> QED
      BY <3>2, <3>3
  <2>6. ASSUME NEW c \in Boots, At(c, "up")'
        PROVE  PROBE \cap lacks' = {} \/ AllDone'
    <3>1. At(c, "up")
      BY <1>2, <2>6 DEF Moves, At
    <3> QED
      BY <1>4, <2>0, <3>1, DoneStays
  <2>7. \E c \in Boots : At(c, "repair")'
    BY <1>2 DEF Moves, At
  <2>8. lacks' \subseteq was'.lacks /\ was' = was
    BY <1>4, <2>0
  <2>9. \A n \in 1 .. 38 : ((PROBE \cap was'.lacks) \ lacks') \ MadeBefore(n) # {} => DoneBefore(n)'
    BY <2>5, <2>8
  <2>10. RepairOK'
    <3>1. \A n : MadeBefore(n)' = MadeBefore(n)
      BY DEF MadeBefore
    <3> QED
      BY <1>3, <2>2, <2>4, <2>6, <2>7, <2>8, <2>9, <3>1 DEF RepairOK
  <2> QED
    BY <2>10
<1> QED
  BY <1>1, <1>2, <1>3, <1>5, DirectStepKeeps DEF DeployInv, BootsOK

LEMMA RepairFaultKeeps ==
    ASSUME DeployInv, NEW b \in Boots, RepairFault(b)
    PROVE  DeployInv'
<1>1. boot[b].at = "repair" /\ mode = "direct" /\ faults \in Nat
  BY DEF RepairFault, At, DeployInv, BootsOK
<1>2. PICK q : Moves(b, q) /\ BootIs(q) /\ q.at = "repair"
  BY NextStatement
<1>3. UNCHANGED <<mode, access, people, history, cut>> /\ faults' = faults + 1
  BY DEF RepairFault
<1>4. RepairOK'
  BY <1>1, <1>3 DEF RepairOK
<1> QED
  BY <1>1, <1>2, <1>3, <1>4, DirectStepKeeps

LEMMA RecordKeeps ==
    ASSUME DeployInv, NEW b \in Boots, Record(b)
    PROVE  DeployInv'
<1>1. boot[b].at = "repair" /\ mode = "direct" /\ DOMAIN boot = Boots /\ boot[b].i = 39
  BY RepairOrder DEF Record, At, DeployInv, BootsOK, BootIs
<1>2. UNCHANGED <<mode, lacks, access, people, history, cut, faults>>
  BY DEF Record, counts
<1>3. PICK q : q = [at |-> "up"]
  OBVIOUS
<1>4. Moves(b, q) /\ q.at = "up" /\ BootIs(q)
  BY <1>1, <1>3, Moved DEF Record, Goes, Becomes, BootIs, Simple, InLegacy
<1>5. RepairOK'
  <2> SUFFICES ASSUME faults = 0
               PROVE  RepairOK'
    BY <1>2 DEF RepairOK
  <2>1. DoneBefore(39)
    BY <1>1 DEF DeployInv, RepairOK, At
  <2>2. AllDone
    BY <2>1, RepairOrder DEF Repairable, AllDone, DoneBefore, MadeBefore
  <2> QED
    BY <1>1, <1>2, <1>4, <2>2, SameSchema DEF DeployInv, RepairOK, Moves, At, history
<1> QED
  BY <1>1, <1>2, <1>4, <1>5, DirectStepKeeps DEF DeployInv, BootsOK

LEMMA StartKeeps ==
    ASSUME DeployInv, NEW b \in Boots, Start(b)
    PROVE  DeployInv'
<1>1. PICK q : q = [at |-> IF mode = "script" THEN "migrate" ELSE "probe"]
  OBVIOUS
<1>2. /\ Moves(b, q) /\ boot[b].at = "down" /\ mode \in {"script", "direct"}
      /\ UNCHANGED <<mode, lacks, access, people, history, counts>>
  BY <1>1, Moved DEF Start, Goes, Becomes, At, DeployInv, BootsOK
<1>3. q.at = (IF mode = "script" THEN "migrate" ELSE "probe") /\ BootIs(q)
  BY <1>1 DEF BootIs, Simple, InLegacy
<1>4. CASE mode = "script"
  <2>1. \A n \in 1 .. 2 : PreRead(q, n)
    BY <1>3, <1>4 DEF PreRead
  <2>2. \A i, r : WillStrip(q, i, r)
    BY <1>3, <1>4 DEF WillStrip
  <2> QED
    BY <1>2, <1>3, <1>4, <2>1, <2>2, WalkKeeps DEF access
<1>5. CASE mode = "direct"
  <2>1. RepairOK'
    BY <1>2, <1>3, <1>5, SameSchema DEF DeployInv, RepairOK, Moves, At, counts, history
  <2> QED
    BY <1>2, <1>3, <1>5, <2>1, DirectStepKeeps DEF DeployInv, BootsOK, counts
<1> QED
  BY <1>2, <1>4, <1>5

LEMMA KillKeeps ==
    ASSUME DeployInv, NEW b \in Boots, Kill(b)
    PROVE  DeployInv'
<1>1. PICK q : q = [at |-> "down"]
  OBVIOUS
<1>2. /\ Moves(b, q) /\ UNCHANGED <<mode, lacks, access, people, history, faults>>
      /\ cut' = (cut \/ ~At(b, "up"))
  BY <1>1, Moved DEF Kill, Goes, Becomes, DeployInv, BootsOK
<1>3. q.at = "down" /\ BootIs(q) /\ \A n \in 1 .. 2 : PreRead(q, n)
  BY <1>1 DEF BootIs, Simple, InLegacy, PreRead
<1>4. BootsOK'
  BY <1>2, <1>3, BootsKeep DEF DeployInv, BootsOK, people
<1>5. KeysOK'
  BY <1>2 DEF DeployInv, KeysOK, access
<1>6. RolesWhole'
  BY <1>2, <1>3, RolesByReader
<1>7. PeopleWhole'
  <2>1. admin' = "bare" /\ ~cut' => \E c \in Boots : At(c, "admin role")'
    <3>1. SUFFICES ASSUME admin = "bare", ~cut, At(b, "up")
                   PROVE  \E c \in Boots : At(c, "admin role")'
      BY <1>2 DEF people
    <3>2. PICK c \in Boots : At(c, "admin role")
      BY <3>1 DEF DeployInv, PeopleWhole
    <3> QED
      BY <1>2, <3>1, <3>2 DEF Moves, At
  <2>2. \E c \in Boots : ~At(c, "up")'
    BY <1>2, <1>3 DEF Moves, At
  <2>3. ASSUME mode = "script", admin = "none", NEW c \in Boots
        PROVE  boot'[c].at \notin {"admin role", "workforce", "worker role", "up"}
    BY <1>2, <1>3, <2>3 DEF DeployInv, PeopleWhole, Moves
  <2> QED
    BY <1>2, <2>1, <2>2, <2>3 DEF PeopleWhole, people
<1>8. OldKeys'
  <2>1. \A i, r : WillStrip(q, i, r)
    BY <1>3 DEF WillStrip
  <2> QED
    BY <1>2, <1>3, <2>1, OldKeysKeep DEF DeployInv, access
<1>9. NewKeys'
  <2>1. CASE At(b, "up")
    BY <1>2, <2>1, NewKeysKeep DEF DeployInv, access, history, At
  <2>2. CASE ~At(b, "up")
    BY <1>2, <2>2 DEF NewKeys
  <2> QED
    BY <2>1, <2>2
<1>10. RepairOK'
  <2> SUFFICES ASSUME mode = "direct", faults = 0
               PROVE  RepairOK'
    BY <1>2 DEF RepairOK
  <2>1. \A c \in Boots : boot'[c].at \in {"up", "repair"} => boot'[c] = boot[c]
    BY <1>2, <1>3 DEF Moves
  <2>2. ~cut' => PROBE \cap was.lacks \subseteq lacks \/ AllDone \/ \E c \in Boots : At(c, "repair")'
    <3>1. SUFFICES ASSUME ~cut, At(b, "up"), ~(PROBE \cap was.lacks \subseteq lacks), ~AllDone
                   PROVE  \E c \in Boots : At(c, "repair")'
      BY <1>2
    <3>2. PICK c \in Boots : At(c, "repair")
      BY <3>1 DEF DeployInv, RepairOK
    <3> QED
      BY <1>2, <3>1, <3>2 DEF Moves, At
  <2> QED
    BY <1>2, <2>1, <2>2, SameSchema DEF DeployInv, RepairOK, At, history
<1> QED
  BY <1>4, <1>5, <1>6, <1>7, <1>8, <1>9, <1>10 DEF DeployInv

(* Nobody moves.                                                           *)
LEMMA StillKeeps ==
    ASSUME DeployInv, UNCHANGED <<mode, boot, lacks, admin, was, counts>>, KeysOK',
           worker' \in {worker, "disabled"}, edited \subseteq edited',
           \A r \in Roles \ edited' : grants'[r] = grants[r],
           \A i \in OnlyOld : \A r \in Roles : Old(i) \in grants'[r] => Old(i) \in grants[r]
    PROVE  DeployInv'
<1>1. BootsOK'
  BY DEF DeployInv, BootsOK, BootIs, counts
<1>2. RolesWhole'
  <2>1. SUFFICES ASSUME mode = "script", NEW n \in 1 .. 2, RoleOrder[n] \notin edited'
                 PROVE  RoleWhole(n)'
    BY DEF RolesWhole
  <2>2. grants'[RoleOrder[n]] = grants[RoleOrder[n]] /\ RoleWhole(n)
    BY <2>1, RoleFacts DEF DeployInv, RolesWhole
  <2> QED
    BY <2>2 DEF RoleWhole, WillTrim, WillFill, PreRead
<1>3. PeopleWhole'
  BY DEF DeployInv, PeopleWhole, At, counts
<1>4. OldKeys'
  BY DEF DeployInv, OldKeys, WillStrip, At
<1>5. NewKeys'
  <2>1. \A r \in CustomRoles \ edited' : r \in CustomRoles \ edited /\ grants'[r] = grants[r]
    BY DEF Roles
  <2> QED
    BY <2>1 DEF DeployInv, NewKeys, At, counts
<1>6. RepairOK'
  BY SameSchema DEF DeployInv, RepairOK, At, counts
<1> QED
  BY <1>1, <1>2, <1>3, <1>4, <1>5, <1>6 DEF DeployInv

LEMMA EditRoleKeeps ==
    ASSUME DeployInv, NEW r \in Roles, EditRole(r, {"receiving.execute"})
    PROVE  DeployInv'
<1>1. /\ DOMAIN grants' = Roles /\ grants'[r] = {"receiving.execute"} /\ DOMAIN grants = Roles
      /\ \A s \in Roles : s # r => grants'[s] = grants[s]
      /\ edited' = edited \cup {r} /\ UNCHANGED <<mode, boot, lacks, perms, people, was, counts>>
  BY DEF EditRole, DeployInv, KeysOK
<1>2. "receiving.execute" \in PERMISSIONS /\ "receiving.execute" \notin LegacyOnly
  BY DEF PERMISSIONS, LegacyOnly
<1>3. KeysOK'
  BY <1>1, <1>2 DEF DeployInv, KeysOK
<1>4. \A i \in OnlyOld : Old(i) \notin grants'[r]
  BY <1>1, <1>2, OldFacts
<1> QED
  BY <1>1, <1>3, <1>4, StillKeeps DEF people

LEMMA DisableWorkerKeeps ==
    ASSUME DeployInv, DisableWorker
    PROVE  DeployInv'
<1>1. KeysOK'
  BY DEF DisableWorker, DeployInv, KeysOK, access
<1> QED
  BY <1>1, StillKeeps DEF DisableWorker, access

LEMMA DeployNextKeeps ==
    ASSUME DeployInv, DeployNext \/ UNCHANGED deployVars
    PROVE  DeployInv'
<1>1. CASE UNCHANGED deployVars
  <2>1. KeysOK'
    BY <1>1 DEF DeployInv, KeysOK, deployVars, access
  <2>2. grants' = grants /\ UNCHANGED <<mode, boot, lacks, admin, worker, was, edited, cut, faults, kills>>
    BY <1>1 DEF deployVars, access, people, history, counts
  <2>3. worker' \in {worker, "disabled"} /\ edited \subseteq edited' /\ UNCHANGED counts
    BY <2>2 DEF counts
  <2> QED
    BY <2>1, <2>2, <2>3, StillKeeps
<1>2. ASSUME NEW b \in Boots, Seed(b)
      PROVE  DeployInv'
  BY <1>2, SeedPermissionsKeeps, FindLegacyKeeps, StripKeeps, RetargetKeeps, DropLegacyKeeps,
     DeleteLegacyKeeps, ReadRoleKeeps, TrimRoleKeeps, FillRoleKeeps, FindAdminKeeps, CreateAdminKeeps,
     GiveAdminRoleKeeps, SeedWorkerKeeps, SeedWorkerRoleKeeps DEF Seed
<1>3. ASSUME NEW b \in Boots, BootStep(b)
      PROVE  DeployInv'
  BY <1>2, <1>3, StartKeeps, MigrateKeeps, DiffKeeps, ProbeKeeps, ProbeFaultKeeps, RepairKeeps, RepairFaultKeeps,
     RecordKeeps DEF BootStep
<1> QED
  BY <1>1, <1>3, KillKeeps, EditRoleKeeps, DisableWorkerKeeps DEF DeployNext

LEMMA DeployInitInv ==
    ASSUME NEW w \in Worlds, DeployFrom(w)
    PROVE  DeployInv
<1>1. /\ DOMAIN boot = Boots /\ \A b \in Boots : boot[b].at = "down"
      /\ mode = w.mode /\ lacks = w.lacks /\ grants = w.grants
      /\ was.grants = w.grants /\ was.lacks = w.lacks
      /\ perms = PERMISSIONS \cup LegacyOnly /\ admin = "none" /\ worker = "none"
      /\ edited = {} /\ cut = FALSE /\ faults = 0
  BY DEF DeployFrom
<1>2. /\ w.mode \in {"script", "direct"} /\ DOMAIN w.grants = Roles
      /\ \A r \in Roles : w.grants[r] \subseteq PERMISSIONS \cup LegacyOnly
  BY DeploymentAssumption
<1>3. BootsOK
  BY <1>1, <1>2 DEF BootsOK, BootIs, Simple, InLegacy
<1>4. KeysOK
  BY <1>1, <1>2 DEF KeysOK
<1>5. RolesWhole
  <2>1. PICK b \in Boots : TRUE
    BY DeploymentAssumption
  <2>2. \A n \in 1 .. 2 : PreRead(boot[b], n)
    BY <1>1 DEF PreRead
  <2> QED
    BY <2>2 DEF RolesWhole, RoleWhole, WillTrim, WillFill
<1>6. PeopleWhole
  BY <1>1 DEF PeopleWhole
<1>7. OldKeys
  BY <1>1 DEF OldKeys, WillStrip, At
<1>8. NewKeys
  BY <1>1 DEF NewKeys
<1>9. RepairOK
  BY <1>1 DEF RepairOK, At
<1> QED
  BY <1>3, <1>4, <1>5, <1>6, <1>7, <1>8, <1>9 DEF DeployInv

LEMMA SeedsAreWhole ==
    ASSUME DeployInv
    PROVE  SeedIsWhole
<1> SUFFICES ASSUME AllUp, mode = "script"
             PROVE  /\ worker # "bare"
                    /\ ~cut =>
                        /\ admin = "full"
                        /\ \A r \in Roles \ edited :
                              IF r \in DOMAIN ROLES THEN grants[r] = ROLES[r]
                              ELSE \A i \in DOMAIN LEGACY_GRANTS :
                                      LEGACY_GRANTS[i].legacy \in was.grants[r]
                                         => LEGACY_GRANTS[i].targets \ {"locations.view"} \subseteq grants[r]
  BY DEF SeedIsWhole
<1>1. \A b \in Boots : boot[b].at = "up"
  BY DEF AllUp, At
<1>2. worker # "bare"
  BY <1>1 DEF DeployInv, PeopleWhole, At
<1>3. ~cut => admin = "full"
  <2>1. PICK b \in Boots : TRUE
    BY DeploymentAssumption
  <2>2. admin # "none"
    BY <1>1, <2>1 DEF DeployInv, PeopleWhole
  <2> QED
    BY <1>1, <2>2 DEF DeployInv, BootsOK, PeopleWhole, At
<1>4. ASSUME NEW r \in DOMAIN ROLES, r \notin edited
      PROVE  grants[r] = ROLES[r]
  <2>1. PICK n \in 1 .. 2 : r = RoleOrder[n]
    BY RoleFacts
  <2>2. RoleWhole(n)
    BY <1>4, <2>1 DEF DeployInv, RolesWhole
  <2>3. \A b \in Boots : \A x : ~WillTrim(boot[b], n, x) /\ ~WillFill(boot[b], n, x)
    BY <1>1 DEF WillTrim, WillFill, PreRead, InLegacy
  <2>4. grants[r] \subseteq ROLES[r] /\ ROLES[r] \subseteq grants[r]
    BY <2>1, <2>2, <2>3 DEF RoleWhole
  <2> QED
    BY <2>4
<1>5. ASSUME ~cut, NEW r \in CustomRoles \ edited, NEW i \in DOMAIN LEGACY_GRANTS,
             LEGACY_GRANTS[i].legacy \in was.grants[r]
      PROVE  LEGACY_GRANTS[i].targets \ {"locations.view"} \subseteq grants[r]
  <2>1. i \in 1 .. 4 /\ Old(i) \in was.grants[r] /\ Targets(i) = LEGACY_GRANTS[i].targets
    BY <1>5, OldFacts DEF Old, Targets
  <2>2. CASE i \notin OnlyOld
    BY <2>1, <2>2, OldFacts
  <2>3. CASE i \in OnlyOld
    <3>1. r \in Roles
      BY DEF Roles
    <3>2. Old(i) \notin grants[r]
      <4>1. PICK b \in Boots : TRUE
        BY DeploymentAssumption
      <4>2. ~WillStrip(boot[b], i, r)
        BY <1>1 DEF WillStrip, InLegacy
      <4> QED
        BY <2>3, <3>1, <4>2 DEF DeployInv, OldKeys
    <3> QED
      BY <1>1, <1>5, <2>1, <2>3, <3>2 DEF DeployInv, NewKeys, At
  <2> QED
    BY <2>2, <2>3
<1> QED
  BY <1>2, <1>3, <1>4, <1>5 DEF Roles

LEMMA RepairsLeaveNoHole ==
    ASSUME DeployInv
    PROVE  RepairLeavesNoHole
<1> SUFFICES ASSUME mode = "direct", faults = 0, NEW b \in Boots, At(b, "up")
             PROVE  /\ PROBE \cap lacks \subseteq BeyondRepair
                    /\ \A n \in DOMAIN REPAIR_STATEMENTS :
                          (PROBE \cap was.lacks) \ MadeBefore(n) # {} => MadeBefore(n) \cap lacks \subseteq BeyondRepair
                    /\ ~cut /\ AllUp /\ PROBE \cap was.lacks # {} => Repairable \cap lacks \subseteq BeyondRepair
  BY DEF RepairLeavesNoHole
<1>0. PROBE \subseteq Repairable
  BY DEF PROBE
<1>1. PROBE \cap lacks = {} \/ AllDone
  BY DEF DeployInv, RepairOK
<1>2. PROBE \cap lacks \subseteq BeyondRepair
  BY <1>0, <1>1 DEF AllDone
<1>3. ASSUME NEW n \in DOMAIN REPAIR_STATEMENTS, (PROBE \cap was.lacks) \ MadeBefore(n) # {}
      PROVE  MadeBefore(n) \cap lacks \subseteq BeyondRepair
  <2>1. n \in 1 .. 38
    BY RepairOrder
  <2>2. CASE PROBE \cap lacks = {}
    <3>1. ((PROBE \cap was.lacks) \ lacks) \ MadeBefore(n) # {}
      BY <1>3, <2>2
    <3> QED
      BY <2>1, <3>1 DEF DeployInv, RepairOK, DoneBefore
  <2>3. CASE AllDone
    BY <2>1, <2>3, MadeBeforeIs DEF AllDone
  <2> QED
    BY <1>1, <2>2, <2>3
<1>4. ~cut /\ AllUp /\ PROBE \cap was.lacks # {} => Repairable \cap lacks \subseteq BeyondRepair
  BY <1>1 DEF DeployInv, RepairOK, AllUp, At, AllDone
<1> QED
  BY <1>2, <1>3, <1>4

-----------------------------------------------------------------------------
(* The reset                                                               *)

USE ResetAssumption, SchemaAssumption

(* What a script may delete.                                               *)
MineIn(r, w) ==
    \/ Table[r] \in PgAudited \cup ReceivingRecords \cup ReportRecords
    \/ Table[r] = "users" /\ r \in w
    \/ Table[r] \in {"user_roles", "sessions", "push_tokens"} /\ Parent[r] \cap w # {}

Executed(t) == \E i \in 1 .. line - 1 : Statements(script)[i] = t
Emptied == PgAudited \ {"receiving_cartons"}

DatabaseWhole ==
    /\ db \subseteq Row /\ gone \subseteq db /\ workers \subseteq Users
    /\ \A r \in db : Parent[r] \subseteq db
    /\ \A r \in Visible : Parent[r] \subseteq Visible
    /\ "RECEIVING_WORKER" \in db
ScriptAt ==
    /\ line \in Nat \ {0}
    /\ pc \in {"idle", "planned", "deleting", "refused", "committed", "verified",
               "created", "employed", "done"}
    /\ pc # "deleting" => gone = {}
    /\ pc \in {"created", "employed", "done"} => "TEST_WORKER" \in db
OwnRowsGo == \A r \in gone : MineIn(r, workers)

AsAudited == pc \in {"planned", "deleting"} => workers = TestWorkers(db) /\ planned = PlanOf(script, workers)
TablesEmptied ==
    pc = "deleting" =>
        /\ \A t \in Emptied : Executed(t) => \A r \in Visible : Table[r] # t
        /\ Executed("users") => workers \cap Visible = {}
PlanDone ==
    pc \in {"committed", "verified", "created", "employed", "done"} =>
        planned \subseteq removed /\ removed \subseteq Branch(planned, removed)
HandsLeft ==
    /\ pc \in {"committed", "verified", "created"} => TestWorkers(db) = {}
    /\ pc \in {"employed", "done"} => TestWorkers(db) = {"TEST_WORKER"}

ResetInv ==
    /\ DatabaseWhole /\ ScriptAt /\ OwnRowsGo
    /\ fresh = {} => pc # "refused" /\ AsAudited /\ TablesEmptied /\ PlanDone /\ HandsLeft

-----------------------------------------------------------------------------
(* The reset                                                               *)

(* Foreign keys cascade over at most three references.                     *)
LEMMA ShortChains ==
    ASSUME NEW r, NEW p, NEW q, NEW s, NEW t, Hangs(r, p), Hangs(p, q), Hangs(q, s)
    PROVE  ~Hangs(s, t)
  BY DEF Hangs, Cascades, ReceivingRecords, ReportRecords

LEMMA BranchClosed ==
    ASSUME NEW Z, NEW in, NEW p \in Branch(Z, in), NEW r \in in, Hangs(r, p)
    PROVE  r \in Branch(Z, in)
<1> DEFINE W1 == With(Z, in)
           W2 == With(W1, in)
<1>1. Branch(Z, in) = With(W2, in)
  BY DEF Branch
<1>2. CASE p \in W2
  BY <1>1, <1>2 DEF With
<1>3. CASE p \notin W2
  <2>1. PICK q \in W2 : Hangs(p, q)
    BY <1>1, <1>3 DEF With
  <2>2. p \in in
    BY <1>1, <1>3 DEF With
  <2>3. q \notin W1
    BY <1>3, <2>1, <2>2 DEF With
  <2>4. PICK s \in W1 : Hangs(q, s)
    BY <2>1, <2>3 DEF With
  <2>5. q \in in
    BY <2>1, <2>3 DEF With
  <2>6. s \notin Z
    BY <2>3, <2>4, <2>5 DEF With
  <2>7. \E t \in Z : Hangs(s, t)
    BY <2>4, <2>6 DEF With
  <2> QED
    BY <2>1, <2>4, <2>7, ShortChains
<1> QED
  BY <1>2, <1>3

LEMMA BranchWithin ==
    ASSUME NEW Z, NEW in, Z \subseteq in
    PROVE  Z \subseteq Branch(Z, in) /\ Branch(Z, in) \subseteq in
  BY DEF Branch, With

LEMMA BranchStep ==
    ASSUME NEW Z, NEW in, NEW p \in Z, NEW r \in in, Hangs(r, p)
    PROVE  r \in Branch(Z, in)
  BY DEF Branch, With

LEMMA MineHangs ==
    ASSUME NEW w, NEW r, NEW p, MineIn(p, w), Hangs(r, p)
    PROVE  MineIn(r, w)
  BY DEF MineIn, Hangs, Cascades, ReceivingRecords, ReportRecords, PgAudited, AuditedInbound,
         AuditedReceiving, AuditedOutbound, AuditedTasks, AuditedOrders

LEMMA MineBranch ==
    ASSUME NEW w, NEW Z, NEW in, \A p \in Z : MineIn(p, w)
    PROVE  \A r \in Branch(Z, in) : MineIn(r, w)
<1>1. ASSUME NEW T, \A p \in T : MineIn(p, w)
      PROVE  \A r \in With(T, in) : MineIn(r, w)
  BY <1>1, MineHangs DEF With
<1> QED
  BY <1>1 DEF Branch

(* The statements                                                          *)
LEMMA StatementTables ==
    ASSUME NEW s
    PROVE  /\ Len(Statements(s)) \in Nat \ {0}
           /\ \A i \in 1 .. Len(Statements(s)) :
                 Statements(s)[i] \in Furniture \cup Emptied \cup {"sessions", "user_roles", "users"}
  BY SMTT(60) DEF Statements, PrismaFloor, PrismaLedgers, PrismaInbound, PrismaOrders, PrismaWorkers,
     PgFloor, PgLedgers, PgInbound, PgOrders, PgWorkers, Furniture, Emptied, PgAudited,
     AuditedInbound, AuditedReceiving, AuditedOutbound, AuditedTasks, AuditedOrders
LEMMA EmptiedAreStatements ==
    ASSUME NEW s, NEW t \in Emptied
    PROVE  \E i \in 1 .. Len(Statements(s)) : Statements(s)[i] = t
  BY SMTT(60) DEF Statements, PrismaFloor, PrismaLedgers, PrismaInbound, PrismaOrders, PrismaWorkers,
     PgFloor, PgLedgers, PgInbound, PgOrders, PgWorkers, Furniture, Emptied, PgAudited,
     AuditedInbound, AuditedReceiving, AuditedOutbound, AuditedTasks, AuditedOrders
LEMMA LastStatement ==
    ASSUME NEW s
    PROVE  Statements(s)[Len(Statements(s))] = "users"
  BY SMTT(60) DEF Statements, PrismaFloor, PrismaLedgers, PrismaInbound, PrismaOrders, PrismaWorkers,
     PgFloor, PgLedgers, PgInbound, PgOrders, PgWorkers
LEMMA ReferencesFirst ==
    ASSUME NEW s, NEW k \in Restricts, NEW i \in 1 .. Len(Statements(s)), Statements(s)[i] = k[2]
    PROVE  \E j \in 1 .. i - 1 : Statements(s)[j] = k[1]
  BY SMTT(60) DEF Statements, PrismaFloor, PrismaLedgers, PrismaInbound, PrismaOrders, PrismaWorkers,
     PgFloor, PgLedgers, PgInbound, PgOrders, PgWorkers, Restricts

(* The statement's own rows are the scripts', and so is what hangs on them. *)
LEMMA AimIsMine ==
    ASSUME NEW t \in Emptied \cup {"sessions", "user_roles", "users"}, NEW in \in SUBSET Row
    PROVE  /\ Aim(t, in) \subseteq in
           /\ \A r \in Aim(t, in) : Table[r] = t /\ MineIn(r, workers)
           /\ t \in Emptied => \A r \in in : Table[r] = t => r \in Aim(t, in)
           /\ t = "users" => workers \cap in \subseteq Aim(t, in) \/ ~(workers \subseteq Users)
<1>0. /\ Emptied \subseteq PgAudited
      /\ \A e \in Emptied : e \notin {"sessions", "user_roles", "users"}
  BY DEF Emptied, PgAudited, AuditedInbound, AuditedReceiving, AuditedOutbound, AuditedTasks, AuditedOrders
<1>1. CASE t \in Emptied
  <2>1. Aim(t, in) = {r \in in : Table[r] = t}
    BY <1>0, <1>1 DEF Aim
  <2> QED
    BY <2>1, <1>0, <1>1 DEF MineIn
<1>2. CASE t = "users"
  <2>1. Aim(t, in) = {r \in in : Table[r] = t} \cap workers
    BY <1>2 DEF Aim
  <2> QED
    BY <2>1, <1>0, <1>2 DEF MineIn, Users, Rows
<1>3. CASE t \in {"sessions", "user_roles"}
  <2>1. Aim(t, in) = {r \in in : Table[r] = t /\ Parent[r] \cap workers # {}}
    BY <1>3 DEF Aim
  <2> QED
    BY <2>1, <1>0, <1>3 DEF MineIn
<1> QED
  BY <1>1, <1>2, <1>3

(* A row the scripts may delete is of a table that the schema's references *)
(* name.                                                                   *)
LEMMA MineCanGo ==
    ASSUME NEW w, NEW r, MineIn(r, w)
    PROVE  Table[r] \in CanGo /\ r # "RECEIVING_WORKER"
<1>1. ASSUME NEW a, NEW b, <<a, b>> \in Cascades
      PROVE  a \in CanGo
  <2>1. PICK c \in Cascades : c = <<a, b>>
    BY <1>1
  <2>2. c[1] = a
    BY <2>1
  <2> QED
    BY <2>2 DEF CanGo
<1>2. /\ \A k \in ReceivingRecords : <<k, "receiving_sessions">> \in Cascades
      /\ \A k \in ReportRecords : <<k, "receiving_reports">> \in Cascades
      /\ \A k \in {"user_roles", "sessions", "push_tokens"} : <<k, "users">> \in Cascades
  BY DEF Cascades
<1>3. Table[r] \in CanGo
  <2>1. PgAudited \cup {"users"} \subseteq CanGo
    BY DEF CanGo
  <2> QED
    BY <1>1, <1>2, <2>1 DEF MineIn
<1>4. Table["RECEIVING_WORKER"] = "roles"
  BY DEF Rows
<1>5. Table[r] # "roles"
  BY DEF MineIn, ReceivingRecords, ReportRecords, PgAudited, AuditedInbound, AuditedReceiving,
     AuditedOutbound, AuditedTasks, AuditedOrders
<1> QED
  BY <1>3, <1>4, <1>5

(* While nobody writes, no row that is left refuses: what refers to the    *)
(* rows of a statement without going along has been emptied before.        *)
LEMMA NothingRefuses ==
    ASSUME ResetInv, fresh = {}, pc = "deleting", line <= Len(Statements(script)), Refused
    PROVE  FALSE
<1> DEFINE t == Statements(script)[line]
           hit == Branch(Aim(t, Visible), Visible)
<1>1. /\ line \in 1 .. Len(Statements(script)) /\ Visible \subseteq Row
      /\ t \in Furniture \cup Emptied \cup {"sessions", "user_roles", "users"}
  BY StatementTables DEF ResetInv, DatabaseWhole, ScriptAt, Visible
<1>2. PICK r \in Visible, p \in hit : Refuses(r, p) /\ r \notin hit /\ t \notin Furniture
  BY DEF Refused
<1>3. /\ Aim(t, Visible) \subseteq Visible
      /\ \A q \in Aim(t, Visible) : Table[q] = t /\ MineIn(q, workers)
  BY <1>1, <1>2, AimIsMine
<1>4. MineIn(p, workers) /\ p \in Visible
  BY <1>3, MineBranch, BranchWithin
<1>5. <<Table[r], Table[p]>> \in Restricts
  BY <1>1, <1>2, <1>4, MineCanGo DEF Refuses
<1>6. \A q : ~Hangs(p, q)
  BY <1>5 DEF Hangs, Cascades, Restricts, ReceivingRecords, ReportRecords
<1>7. p \in Aim(t, Visible)
  BY <1>6 DEF Branch, With
<1>8. PICK j \in 1 .. line - 1 : Statements(script)[j] = Table[r]
  <2>1. Table[p] = t
    BY <1>3, <1>7
  <2>2. PICK k \in Restricts : k = <<Table[r], Table[p]>>
    BY <1>5
  <2> HIDE DEF t
  <2>3. k[2] = t /\ k[1] = Table[r]
    BY <2>1, <2>2
  <2> QED
    BY <1>1, <2>3, ReferencesFirst DEF t
<1>9. Table[r] \in Emptied
  BY <1>5 DEF Restricts, Emptied, PgAudited, AuditedInbound, AuditedReceiving, AuditedOutbound,
     AuditedTasks, AuditedOrders
<1> QED
  BY <1>2, <1>8, <1>9 DEF ResetInv, TablesEmptied, Executed

LEMMA DeleteKeeps ==
    ASSUME ResetInv, pc = "deleting", line <= Len(Statements(script)),
           NEW t, t = Statements(script)[line], t \notin Furniture, Delete(t), line' = line + 1,
           UNCHANGED <<db, works, script, pc, workers, planned, removed, fresh, runs>>
    PROVE  ResetInv'
<1> DEFINE hit == Branch(Aim(t, Visible), Visible)
<1>1. /\ line \in 1 .. Len(Statements(script)) /\ Visible \subseteq Row /\ workers \subseteq Users
      /\ t \in Emptied \cup {"sessions", "user_roles", "users"}
  BY StatementTables DEF ResetInv, DatabaseWhole, ScriptAt, Visible
<1>2. /\ Aim(t, Visible) \subseteq Visible
      /\ \A q \in Aim(t, Visible) : Table[q] = t /\ MineIn(q, workers)
      /\ t \in Emptied => \A r \in Visible : Table[r] = t => r \in Aim(t, Visible)
      /\ t = "users" => workers \cap Visible \subseteq Aim(t, Visible)
  BY <1>1, AimIsMine
<1>3. Aim(t, Visible) \subseteq hit /\ hit \subseteq Visible /\ \A r \in hit : MineIn(r, workers)
  BY <1>2, MineBranch, BranchWithin
<1>4. \A r \in Visible, p \in hit : Hangs(r, p) => r \in hit
  BY BranchClosed
<1>5. gone' = gone \cup hit /\ \A r \in Visible \ hit, p \in hit : ~Refuses(r, p)
  BY DEF Delete
<1> HIDE DEF hit
<1>6. Visible' = Visible \ hit
  BY <1>3, <1>5 DEF Visible
<1>7. DatabaseWhole'
  <2>1. \A r \in Visible \ hit : Parent[r] \subseteq Visible \ hit
    BY <1>4, <1>5 DEF ResetInv, DatabaseWhole, Hangs, Refuses
  <2> QED
    BY <1>3, <1>5, <1>6, <2>1 DEF ResetInv, DatabaseWhole, Visible
<1>8. ScriptAt' /\ OwnRowsGo'
  BY <1>3, <1>5 DEF ResetInv, ScriptAt, OwnRowsGo
<1>9. \A u : Executed(u)' => Executed(u) \/ u = t
  BY <1>1 DEF Executed, ResetInv, ScriptAt
<1>10. ASSUME fresh = {}
       PROVE  TablesEmptied'
  BY <1>2, <1>3, <1>6, <1>9, <1>10 DEF ResetInv, TablesEmptied
<1>11. AsAudited => AsAudited'
  BY DEF AsAudited, PlanOf, TestWorkers
<1> QED
  BY <1>7, <1>8, <1>10, <1>11 DEF ResetInv, PlanDone, HandsLeft

LEMMA AuditKeeps ==
    ASSUME ResetInv, Audit
    PROVE  ResetInv'
<1>1. workers' \subseteq Users /\ Visible' = Visible /\ gone = {}
  BY DEF Audit, TestWorkers, ResetInv, ScriptAt, Visible
<1>2. AsAudited'
  <2>1. TestWorkers(db)' = TestWorkers(db') /\ db' = db
    BY DEF Audit
  <2>2. PlanOf(script', workers') = PlanOf(script, workers)'
    BY DEF Audit, PlanOf
  <2> QED
    BY <2>1, <2>2 DEF Audit, AsAudited, TestWorkers
<1> QED
  BY <1>1, <1>2 DEF Audit, ResetInv, DatabaseWhole, ScriptAt, OwnRowsGo, TablesEmptied, PlanDone, HandsLeft

LEMMA OverKeeps ==
    ASSUME ResetInv, Over
    PROVE  ResetInv'
<1>1. Visible' = db /\ db' = db
  BY DEF Over, Visible
<1> QED
  BY <1>1 DEF Over, ResetInv, DatabaseWhole, ScriptAt, OwnRowsGo, AsAudited, TablesEmptied, PlanDone,
     HandsLeft, Visible

LEMMA BeginKeeps ==
    ASSUME ResetInv, Begin
    PROVE  ResetInv'
<1>1. Visible' = db /\ db' = db /\ gone' = {} /\ line' = 1
  BY DEF Begin, Visible
<1>2. \A t : ~Executed(t)'
  BY <1>1 DEF Executed
<1>3. AsAudited => AsAudited'
  BY DEF AsAudited, PlanOf, TestWorkers, Begin
<1> QED
  BY <1>1, <1>2, <1>3 DEF Begin, ResetInv, DatabaseWhole, ScriptAt, OwnRowsGo, TablesEmptied, PlanDone,
     HandsLeft

LEMMA StatementKeeps ==
    ASSUME ResetInv, Statement
    PROVE  ResetInv'
<1> DEFINE t == Statements(script)[line]
<1>0. PICK u : u = t
  OBVIOUS
<1>1. CASE u \in Furniture
  <2>1. /\ UNCHANGED <<db, works, script, pc, workers, planned, removed, fresh, runs, gone>>
        /\ line' = line + 1 /\ pc = "deleting"
    BY <1>0, <1>1 DEF Statement, Unbind
  <2>2. \A v : Executed(v)' => Executed(v) \/ v = u
    BY <1>0, <2>1 DEF Executed, ResetInv, ScriptAt
  <2>3. \A e \in Emptied \cup {"users"} : e \notin Furniture
    BY DEF Emptied, Furniture, PgAudited, AuditedInbound, AuditedReceiving, AuditedOutbound,
       AuditedTasks, AuditedOrders
  <2>4. (AsAudited => AsAudited') /\ Visible' = Visible
    BY <2>1 DEF AsAudited, PlanOf, TestWorkers, Visible
  <2>5. TablesEmptied => TablesEmptied'
    BY <1>1, <2>1, <2>2, <2>3, <2>4 DEF TablesEmptied
  <2> QED
    BY <2>1, <2>4, <2>5 DEF ResetInv, DatabaseWhole, ScriptAt, OwnRowsGo, PlanDone, HandsLeft, TestWorkers
<1>2. CASE u \notin Furniture
  BY <1>0, <1>2, DeleteKeeps DEF Statement
<1> QED
  BY <1>1, <1>2

LEMMA FailureKeeps ==
    ASSUME ResetInv, StatementFails
    PROVE  ResetInv'
<1>1. fresh # {} /\ fresh' = fresh
  BY NothingRefuses DEF StatementFails
<1>2. Visible' = db /\ db' = db
  BY DEF StatementFails, Visible
<1> QED
  BY <1>1, <1>2 DEF StatementFails, ResetInv, DatabaseWhole, ScriptAt, OwnRowsGo

(* What a quiet transaction has deleted at its end.                        *)
LEMMA TransactionWhole ==
    ASSUME ResetInv, fresh = {}, pc = "deleting", line > Len(Statements(script))
    PROVE  /\ planned \subseteq gone /\ gone \subseteq Branch(planned, gone)
           /\ TestWorkers(Visible) = {}
<1>1. /\ \A t \in Emptied : \A r \in Visible : Table[r] # t
      /\ workers \cap Visible = {}
  <2>1. line \in Nat /\ Len(Statements(script)) \in Nat \ {0}
    BY StatementTables DEF ResetInv, ScriptAt
  <2>2. \A t \in Emptied : Executed(t)
    BY <2>1, EmptiedAreStatements DEF Executed
  <2>3. Executed("users")
    BY <2>1, LastStatement DEF Executed
  <2> QED
    BY <2>2, <2>3 DEF ResetInv, TablesEmptied
<1>2. /\ workers = TestWorkers(db) /\ planned = PlanOf(script, workers)
      /\ \A r \in Visible : r \in Row /\ Parent[r] \subseteq Visible
      /\ \A r \in db : r \in Row /\ Parent[r] \subseteq db
      /\ gone \subseteq db /\ workers \subseteq Users
      /\ \A r \in gone : MineIn(r, workers)
  BY DEF ResetInv, AsAudited, DatabaseWhole, OwnRowsGo, Visible
<1>3. TestWorkers(Visible) = {}
  BY <1>1, <1>2 DEF TestWorkers, Visible
<1>4. \A r \in Visible : Table[r] # "receiving_cartons"
  <2>1. <<"receiving_cartons", "receiving_sessions">> \in Cascades /\ "receiving_sessions" \in Emptied
    BY DEF Cascades, ReceivingRecords, Emptied, PgAudited, AuditedReceiving
  <2>2. ASSUME NEW r \in Visible, Table[r] = "receiving_cartons"
        PROVE  FALSE
    <3>1. r \in Rows("receiving_cartons")
      BY <1>2, <2>2 DEF Rows
    <3>2. PICK c \in Cascades : c = <<"receiving_cartons", "receiving_sessions">>
      BY <2>1
    <3>3. \E p \in Parent[r] : Table[p] = "receiving_sessions"
      BY <3>1, <3>2
    <3> QED
      BY <1>1, <1>2, <2>1, <3>3
  <2> QED
    BY <2>2
<1>5. planned \subseteq gone
  <2>1. ASSUME NEW r \in planned, r \in Visible
        PROVE  FALSE
    <3>1. \/ Table[r] \in Emptied
          \/ Table[r] = "receiving_cartons"
          \/ r \in workers
          \/ Parent[r] \cap workers # {}
      BY <1>2 DEF PlanOf, Emptied
    <3> QED
      BY <1>1, <1>2, <1>4, <2>1, <3>1
  <2>2. planned \subseteq db
    BY <1>2 DEF PlanOf
  <2> QED
    BY <2>1, <2>2 DEF Visible
<1>6. \A r \in db : Table[r] \in PgAudited \ {"expected_arrival_items"} => r \in planned
  BY <1>2 DEF PlanOf
<1>7. workers \subseteq planned
  <2>1. workers \subseteq db
    BY <1>2 DEF TestWorkers
  <2> QED
    BY <1>2, <2>1 DEF PlanOf
<1>8. ASSUME NEW a, NEW b, <<a, b>> \in Cascades, NEW r \in db, Table[r] = a
      PROVE  \E p \in Parent[r] : Table[p] = b /\ p \in db /\ Hangs(r, p)
  <2>1. PICK c \in Cascades : c = <<a, b>>
    BY <1>8
  <2>2. \E p \in Parent[r] : Table[p] = b
    BY <1>2, <1>8, <2>1 DEF Rows
  <2> QED
    BY <1>2, <1>8, <2>2 DEF Hangs
<1>9. ASSUME NEW r \in gone
      PROVE  r \in Branch(planned, gone)
  <2>0. r \in db /\ r \in gone
    BY <1>2
  <2>1. CASE r \in planned
    BY <2>1 DEF Branch, With
  <2>2. ASSUME NEW p \in planned, Hangs(r, p)
        PROVE  r \in Branch(planned, gone)
    BY <2>0, <2>2 DEF Branch, With
  <2>3. CASE Table[r] = "expected_arrival_items"
    <3>1. <<"expected_arrival_items", "expected_arrivals">> \in Cascades
      BY DEF Cascades
    <3>2. PICK p \in Parent[r] : Table[p] = "expected_arrivals" /\ p \in db /\ Hangs(r, p)
      BY <1>8, <2>0, <2>3, <3>1
    <3>3. "expected_arrivals" \in PgAudited \ {"expected_arrival_items"}
      BY DEF PgAudited, AuditedInbound
    <3> QED
      BY <1>6, <2>2, <3>2, <3>3
  <2>4. ASSUME NEW q \in db, Table[q] \in ReceivingRecords
        PROVE  \E p \in planned : Hangs(q, p)
    <3>1. <<Table[q], "receiving_sessions">> \in Cascades
      BY <2>4 DEF Cascades
    <3>2. PICK p \in Parent[q] : Table[p] = "receiving_sessions" /\ p \in db /\ Hangs(q, p)
      BY <1>8, <3>1
    <3>3. "receiving_sessions" \in PgAudited \ {"expected_arrival_items"}
      BY DEF PgAudited, AuditedReceiving
    <3> QED
      BY <1>6, <3>2, <3>3
  <2>5. CASE Table[r] \in ReceivingRecords
    BY <2>0, <2>2, <2>4, <2>5
  <2>6. CASE Table[r] \in ReportRecords
    <3>1. <<Table[r], "receiving_reports">> \in Cascades /\ "receiving_reports" \in ReceivingRecords
      BY <2>6 DEF Cascades, ReceivingRecords
    <3>2. PICK q \in Parent[r] : Table[q] = "receiving_reports" /\ q \in db /\ Hangs(r, q)
      BY <1>8, <2>0, <3>1
    <3>3. PICK p \in planned : Hangs(q, p)
      BY <2>4, <3>1, <3>2
    <3>4. q \in gone
      BY <1>2, <1>5, <3>2, <3>3 DEF Visible, Hangs
    <3> QED
      BY <2>0, <3>2, <3>3, <3>4 DEF Branch, With
  <2>7. CASE r \in workers
    BY <1>7, <2>1, <2>7
  <2>8. CASE Table[r] \in {"user_roles", "sessions", "push_tokens"} /\ Parent[r] \cap workers # {}
    <3>1. <<Table[r], "users">> \in Cascades
      BY <2>8 DEF Cascades
    <3>2. PICK p \in Parent[r] \cap workers : TRUE
      BY <2>8
    <3>3. Table[p] = "users"
      BY <1>2, <3>2 DEF Users, Rows
    <3> QED
      BY <1>7, <2>2, <3>1, <3>2, <3>3 DEF Hangs
  <2>9. MineIn(r, workers)
    BY <1>2
  <2> QED
    BY <1>6, <2>0, <2>1, <2>3, <2>5, <2>6, <2>7, <2>8, <2>9 DEF MineIn
<1> QED
  BY <1>3, <1>5, <1>9

LEMMA CommitKeeps ==
    ASSUME ResetInv, Commit
    PROVE  ResetInv'
<1>1. db' = Visible /\ gone' = {} /\ removed' = gone /\ UNCHANGED <<workers, planned, fresh, line>>
      /\ pc' = "committed" /\ pc = "deleting" /\ line > Len(Statements(script))
  BY DEF Commit
<1>2. Visible' = Visible
  BY <1>1 DEF Visible
<1>3. "RECEIVING_WORKER" \in Visible
  BY MineCanGo DEF ResetInv, DatabaseWhole, OwnRowsGo, Visible
<1>4. DatabaseWhole'
  BY <1>1, <1>2, <1>3 DEF ResetInv, DatabaseWhole, Visible
<1>5. ASSUME fresh = {}
      PROVE  PlanDone' /\ HandsLeft'
  <2>1. planned \subseteq gone /\ gone \subseteq Branch(planned, gone) /\ TestWorkers(Visible) = {}
    BY <1>1, <1>5, TransactionWhole
  <2>2. Branch(planned, gone) = Branch(planned, removed)' /\ TestWorkers(Visible) = TestWorkers(db)'
    BY <1>1 DEF Branch, With, TestWorkers
  <2> QED
    BY <1>1, <2>1, <2>2 DEF PlanDone, HandsLeft
<1> QED
  BY <1>1, <1>4, <1>5 DEF ResetInv, ScriptAt, OwnRowsGo, AsAudited, TablesEmptied

(* After the commit only CreateWorker and GiveRole touch the rows.         *)
LEMMA CreateKeeps ==
    ASSUME ResetInv, CreateWorker
    PROVE  ResetInv'
<1>1. db' = db \cup {"TEST_WORKER"} /\ gone = {} /\ gone' = {} /\ pc = "verified" /\ pc' = "created"
      /\ UNCHANGED <<workers, planned, removed, fresh, line>>
  BY DEF CreateWorker, ResetInv, ScriptAt
<1>2. "TEST_WORKER" \in Row /\ Parent["TEST_WORKER"] = {} /\ Table["TEST_WORKER"] = "users"
  BY DEF Users, Rows
<1>3. TestWorkers(db)' = TestWorkers(db)
  BY <1>1, <1>2 DEF TestWorkers
<1>4. DatabaseWhole'
  BY <1>1, <1>2 DEF ResetInv, DatabaseWhole, Visible
<1> QED
  BY <1>1, <1>3, <1>4 DEF ResetInv, ScriptAt, OwnRowsGo, AsAudited, TablesEmptied, PlanDone, HandsLeft

LEMMA RoleRowKeeps ==
    ASSUME ResetInv, GiveRole
    PROVE  ResetInv'
<1> DEFINE given == {g \in Rows("user_roles") : Parent[g] = {"TEST_WORKER", "RECEIVING_WORKER"}}
<1>1. db' = db \cup given /\ gone = {} /\ gone' = {} /\ pc = "created" /\ pc' = "employed"
      /\ UNCHANGED <<workers, planned, removed, fresh, line>>
  BY DEF GiveRole, ResetInv, ScriptAt
<1>2. given # {} /\ given \subseteq Row /\ \A g \in given : Table[g] = "user_roles"
  BY DEF Rows
<1>3. "RECEIVING_WORKER" \notin Users /\ "TEST_WORKER" \in Users /\ "RECEIVING_WORKER" \in OPERATIONAL_ROLES
  BY DEF Users, Rows, OPERATIONAL_ROLES
<1>4. TestWorkers(db)' = TestWorkers(db) \cup {"TEST_WORKER"}
  <2>1. TestWorkers(db)' = {u \in Users : \E g \in db \cup given :
            Table[g] = "user_roles" /\ u \in Parent[g] /\ Parent[g] \cap OPERATIONAL_ROLES # {}}
    BY <1>1 DEF TestWorkers
  <2>2. \A g \in given : /\ Parent[g] \cap Users = {"TEST_WORKER"}
                         /\ Parent[g] \cap OPERATIONAL_ROLES # {}
    BY <1>3
  <2>3. \A u \in Users : (\E g \in given : u \in Parent[g]) <=> u = "TEST_WORKER"
    BY <1>2, <1>3, <2>2
  <2>4. ASSUME NEW u \in Users
        PROVE  u \in TestWorkers(db)' <=> u \in TestWorkers(db) \cup {"TEST_WORKER"}
    <3>1. u \in TestWorkers(db)' <=> \/ u \in TestWorkers(db)
                                     \/ \E g \in given : u \in Parent[g]
      BY <1>2, <2>1, <2>2 DEF TestWorkers
    <3> QED
      BY <2>3, <3>1
  <2>5. TestWorkers(db) \subseteq Users /\ TestWorkers(db)' \subseteq Users
    BY DEF TestWorkers, Users, Rows
  <2> QED
    BY <1>3, <2>4, <2>5
<1>5. DatabaseWhole'
  <2>1. \A g \in given : Parent[g] \subseteq db
    BY <1>1 DEF ResetInv, DatabaseWhole, ScriptAt
  <2> QED
    BY <1>1, <1>2, <2>1 DEF ResetInv, DatabaseWhole, Visible
<1> QED
  BY <1>1, <1>4, <1>5 DEF ResetInv, ScriptAt, OwnRowsGo, AsAudited, TablesEmptied, PlanDone, HandsLeft

LEMMA FloorKeeps ==
    ASSUME ResetInv, NEW r \in Row, FloorInserts(r)
    PROVE  ResetInv'
<1>1. db' = db \cup {r} /\ gone' = gone /\ r \notin db /\ Parent[r] \subseteq Visible /\ fresh' # {}
      /\ UNCHANGED <<workers, line, pc, script>>
  BY DEF FloorInserts
<1>2. Visible' = Visible \cup {r}
  BY <1>1 DEF Visible, ResetInv, DatabaseWhole
<1>3. DatabaseWhole'
  BY <1>1, <1>2 DEF ResetInv, DatabaseWhole, Visible
<1> QED
  BY <1>1, <1>3 DEF ResetInv, ScriptAt, OwnRowsGo

LEMMA QuietStepKeeps ==
    ASSUME ResetInv, Verify \/ GiveStation \/ (\E f \in Furniture, u \in Users : AdminAssigns(f, u))
                     \/ UNCHANGED resetVars
    PROVE  ResetInv'
<1>1. UNCHANGED <<db, gone, workers, line, planned, removed, script>> /\ TestWorkers(db)' = TestWorkers(db)
      /\ Visible' = Visible
  BY DEF Verify, GiveStation, AdminAssigns, resetVars, TestWorkers, Visible
<1>2. DatabaseWhole' /\ OwnRowsGo'
  BY <1>1 DEF ResetInv, DatabaseWhole, OwnRowsGo
<1>3. CASE Verify
  BY <1>1, <1>2, <1>3 DEF Verify, ResetInv, ScriptAt, AsAudited, TablesEmptied, PlanDone, HandsLeft
<1>4. CASE GiveStation
  BY <1>1, <1>2, <1>4 DEF GiveStation, ResetInv, ScriptAt, AsAudited, TablesEmptied, PlanDone, HandsLeft
<1>5. CASE \E f \in Furniture, u \in Users : AdminAssigns(f, u)
  <2>1. fresh' # {} /\ pc' = pc
    BY <1>5 DEF AdminAssigns
  <2> QED
    BY <1>1, <1>2, <2>1 DEF ResetInv, ScriptAt
<1>6. CASE UNCHANGED resetVars
  <2>1. PlanOf(script, workers)' = PlanOf(script, workers) /\ (\A t : Executed(t)' <=> Executed(t))
    BY <1>6 DEF resetVars, PlanOf, Executed
  <2> QED
    BY <1>1, <1>2, <1>6, <2>1 DEF resetVars, ResetInv, ScriptAt, AsAudited, TablesEmptied, PlanDone, HandsLeft
<1> QED
  BY <1>3, <1>4, <1>5, <1>6

LEMMA ResetNextKeeps ==
    ASSUME ResetInv, ResetNext \/ UNCHANGED resetVars
    PROVE  ResetInv'
<1>1. CASE DryRun \/ Stop \/ Again
  BY <1>1, OverKeeps DEF DryRun, Stop, Again
<1> QED
  BY <1>1, AuditKeeps, BeginKeeps, StatementKeeps, FailureKeeps, CommitKeeps, CreateKeeps, RoleRowKeeps, FloorKeeps,
     QuietStepKeeps DEF ResetNext

LEMMA ResetInitInv ==
    ASSUME NEW floor \in SUBSET Row, "RECEIVING_WORKER" \in floor, \A r \in floor : Parent[r] \subseteq floor,
           NEW who, ResetFrom(floor, who)
    PROVE  ResetInv
  BY DEF ResetFrom, ResetInv, DatabaseWhole, ScriptAt, OwnRowsGo, AsAudited, TablesEmptied, PlanDone, HandsLeft,
     Visible

LEMMA ResetInvSuffices ==
    ASSUME ResetInv
    PROVE  QuietRunDoesItsPlan /\ OneTestWorker
  BY DEF ResetInv, PlanDone, HandsLeft, QuietRunDoesItsPlan, OneTestWorker

LEMMA ResetStepSpares ==
    ASSUME ResetInv, ResetNext
    PROVE  \A r \in db \ db' :
              \/ Table[r] \in PgAudited \cup ReceivingRecords \cup ReportRecords
              \/ (workers \cap ({r} \cup Parent[r])) # {}
<1>1. ASSUME ~Commit
      PROVE  db \ db' = {}
  BY <1>1 DEF ResetNext, Audit, DryRun, Over, Begin, Statement, StatementFails, Verify, CreateWorker, GiveRole,
     GiveStation, Stop, Again, FloorInserts, AdminAssigns
<1>2. CASE Commit
  <2>1. db \ db' \subseteq gone
    BY <1>2 DEF Commit, Visible
  <2> QED
    BY <2>1 DEF ResetInv, OwnRowsGo, MineIn
<1> QED
  BY <1>1, <1>2

-----------------------------------------------------------------------------
(* The scenes together                                                     *)

(* A scene changes its own variables only: the page and the deployment     *)
(* keep their invariants in every scene, the reset in its own; elsewhere   *)
(* no script runs.                                                         *)
MaintenanceInv ==
    /\ StaffInv /\ DeployInv
    /\ IF scene = "reset" THEN ResetInv ELSE pc = "idle"

LEMMA MaintenanceStarts == Init => MaintenanceInv
<1> SUFFICES ASSUME Init
             PROVE  MaintenanceInv
  OBVIOUS
<1>1. NoForms => StaffInv
  BY StaffInitInv, MaintenanceAssumption DEF NoForms
<1>2. S!StaffInit => StaffInv
  BY StaffInitInv, MaintenanceAssumption DEF S!StaffInit
<1>3. NoDeploy => DeployInv
  BY DeployInitInv, DeploymentAssumption DEF NoDeploy
<1>4. NoReset => pc = "idle"
  BY DEF NoReset, ResetFrom
<1>5. CASE scene = "reset"
  <2>1. PICK f \in Floors : \E who \in [Furniture -> {Free} \cup TestWorkers(f)] : ResetFrom(f, who)
    BY <1>5 DEF Init
  <2>2. PICK who \in [Furniture -> {Free} \cup TestWorkers(f)] : ResetFrom(f, who)
    BY <2>1
  <2>3. ResetInv
    BY <2>2, ResetInitInv, MaintenanceAssumption
  <2> QED
    BY <1>1, <1>3, <1>5, <2>3 DEF Init, MaintenanceInv
<1>6. CASE scene = "deploy"
  BY <1>1, <1>4, <1>6, DeployInitInv DEF Init, MaintenanceInv
<1>7. CASE scene = "staff"
  BY <1>2, <1>3, <1>4, <1>7 DEF Init, MaintenanceInv
<1> QED
  BY <1>5, <1>6, <1>7, MaintenanceAssumption DEF Init

LEMMA StaffStands ==
    ASSUME StaffInv, UNCHANGED staffVars
    PROVE  StaffInv'
  BY DEF staffVars, StaffInv, StaffTypeOK, FormKept, KindKept, HirerMade, HireGoesOn, MadeBy, HasRow, OnItsWay,
     LateKept, IsRowOf, RowKept, S!Exists, S!RequestOf, S!TaskOf

LEMMA MaintenanceKeeps == MaintenanceInv /\ [Next]_vars => MaintenanceInv'
<1> SUFFICES ASSUME MaintenanceInv, [Next]_vars
             PROVE  MaintenanceInv'
  OBVIOUS
<1>1. CASE scene = "reset" /\ ResetNext /\ UNCHANGED <<deployVars, staffVars, scene>>
  BY <1>1, ResetNextKeeps, DeployNextKeeps, StaffStands DEF MaintenanceInv
<1>2. CASE scene = "deploy" /\ DeployNext /\ UNCHANGED <<resetVars, staffVars, scene>>
  BY <1>2, DeployNextKeeps, StaffStands DEF MaintenanceInv, resetVars
<1>3. CASE scene = "staff" /\ S!StaffNext /\ UNCHANGED <<resetVars, deployVars, scene>>
  BY <1>3, StaffNextKeeps, DeployNextKeeps, MaintenanceAssumption DEF MaintenanceInv, resetVars
<1>4. CASE UNCHANGED vars
  <2>1. UNCHANGED resetVars /\ UNCHANGED deployVars /\ UNCHANGED staffVars /\ scene' = scene
    BY <1>4 DEF vars
  <2>2. pc' = pc
    BY <2>1 DEF resetVars
  <2> QED
    BY <2>1, <2>2, ResetNextKeeps, DeployNextKeeps, StaffStands DEF MaintenanceInv
<1> QED
  BY <1>1, <1>2, <1>3, <1>4 DEF Next

LEMMA MaintenanceInvariant == Spec => []MaintenanceInv
  BY MaintenanceStarts, MaintenanceKeeps, PTL DEF Spec

(* A worker who is added gets the tasks of one form, each once, and an     *)
(* assignment twice only after a failure whose outcome the form does not   *)
(* know (Workers.tsx, the hire form and its retries).                      *)
THEOREM TasksAreAsAsked == Spec => []TasksAsAsked
<1>1. MaintenanceInv => TasksAsAsked
  BY StaffInvSuffices DEF MaintenanceInv, TasksAsAsked
<1> QED
  BY <1>1, MaintenanceInvariant, PTL

(* A reset that nobody writes beside is never refused and deletes exactly  *)
(* what it announced and what hangs on it (reset-operational-data.ts, the  *)
(* order of its transaction against the references of schema.prisma).      *)
THEOREM QuietRunsDoTheirPlan == Spec => []QuietRunDoesItsPlan
<1>1. MaintenanceInv => QuietRunDoesItsPlan
  BY ResetInvSuffices DEF MaintenanceInv, QuietRunDoesItsPlan
<1> QED
  BY <1>1, MaintenanceInvariant, PTL

(* A reset that reaches its report leaves TEST_WORKER as the only user     *)
(* with a role of the script's list, unless others have added one          *)
(* meanwhile; roles that are not on the list stay with their users.        *)
THEOREM TestWorkerAlone == Spec => []OneTestWorker
<1>1. MaintenanceInv => OneTestWorker
  BY ResetInvSuffices DEF MaintenanceInv, OneTestWorker
<1> QED
  BY <1>1, MaintenanceInvariant, PTL

(* Whatever is written beside a reset, it spares the users it did not      *)
(* read, what is theirs, and the configuration.                            *)
THEOREM OthersAreSpared == Spec => OthersStay
<1> DEFINE Spared == \A r \in db \ db' :
                        \/ Table[r] \in PgAudited \cup ReceivingRecords \cup ReportRecords
                        \/ (workers \cap ({r} \cup Parent[r])) # {}
<1>1. MaintenanceInv /\ [Next]_vars => [Spared]_resetVars
  <2> SUFFICES ASSUME MaintenanceInv, [Next]_vars, ~UNCHANGED resetVars
               PROVE  Spared
    OBVIOUS
  <2>1. scene = "reset" /\ ResetNext
    BY DEF Next, vars
  <2> QED
    BY <2>1, ResetStepSpares DEF MaintenanceInv
<1> QED
  BY <1>1, MaintenanceInvariant, PTL DEF Spec, OthersStay

(* However the seeds of several containers interleave, roles, grants and   *)
(* the first administrator are whole when all are up, and the demo worker  *)
(* has the role even after kills (seed.ts).                                *)
THEOREM SeedsEndWhole == Spec => []SeedIsWhole
<1>1. MaintenanceInv => SeedIsWhole
  BY SeedsAreWhole DEF MaintenanceInv
<1> QED
  BY <1>1, MaintenanceInvariant, PTL

(* Whatever a database lacks, a container that came up by repair has what  *)
(* the probe names and all that is made before what it missed, also after  *)
(* kills: each statement finds what it needs, but for the table of the     *)
(* tasks where its labels are new already (bootstrap-schema-repair.ts).    *)
THEOREM RepairsEndWhole == Spec => []RepairLeavesNoHole
<1>1. MaintenanceInv => RepairLeavesNoHole
  BY RepairsLeaveNoHole DEF MaintenanceInv
<1> QED
  BY <1>1, MaintenanceInvariant, PTL
================================================================================
