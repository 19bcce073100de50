------------------------------ MODULE LabelLedger ------------------------------
(***************************************************************************)
(* What a printer with a memory promises, whatever stands behind it: an    *)
(* entry is printed only if it is not held, it is held before it is        *)
(* printed, and nothing is printed twice without having been forgotten.    *)
(***************************************************************************)
EXTENDS Naturals

CONSTANT Entries

VARIABLES
    held,   \* the entries that are remembered
    due,    \* how many writers of each entry are about to print it
    count   \* how often each entry was printed

vars == <<held, due, count>>

Init ==
    /\ held = [e \in Entries |-> FALSE]
    /\ due = [e \in Entries |-> 0]
    /\ count = [e \in Entries |-> 0]

Except(e, f, g) == \A d \in Entries \ {e} : g[d] = f[d]

Drops(e) == held[e] /\ ~held'[e]

(* One older entry may have to go for the new one.                         *)
Hold(e) ==
    /\ ~held[e] /\ held'[e]
    /\ \A d \in Entries \ {e} : held'[d] => held[d]
    /\ \A d, g \in Entries : Drops(d) /\ Drops(g) => d = g
    /\ due'[e] = due[e] + 1 /\ Except(e, due, due')
    /\ UNCHANGED count

Leave(e) == due[e] > 0 /\ due'[e] = due[e] - 1 /\ Except(e, due, due') /\ UNCHANGED held

Emit(e) ==
    /\ count'[e] = count[e] + 1 /\ Except(e, count, count')
    /\ Leave(e)

GiveUp(e) == Leave(e) /\ UNCHANGED count

(* Writers are gone, and what is remembered is what is found again.        *)
Restart ==
    /\ UNCHANGED count
    /\ \A e \in Entries : due'[e] \in {0, due[e]} /\ held'[e] \in BOOLEAN

Next ==
    \/ \E e \in Entries : Hold(e) \/ Emit(e) \/ GiveUp(e)
    \/ Restart

Spec == Init /\ [][Next]_vars

=============================================================================
