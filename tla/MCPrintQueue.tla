---------------------------- MODULE MCPrintQueue ----------------------------
(* One station, one display, and the handhelds of two workers.             *)
EXTENDS PrintQueue, TLC

CONSTANTS s1, d1, w1, w2, h1, h2, t1, t2, x, r1

HolderOf == (h1 :> w1) @@ (h2 :> w2)
DeviceOf == [t \in {t1, t2} |-> h1]

CrewAtFirst == [s \in {s1} |-> w1]

(* What may occur besides the ordinary course.                             *)
Days == {
    {"page", "admin"},
    {"page", "bridge"},
    {"copies", "crash", "loss"},
    {"copies", "web", "loss"},
    {"copies", "admin"},
    {"queue", "bridge"},
    {"queue", "faults", "operator", "loss"}}

=============================================================================
