----------------------------- MODULE MCWorkerLanes -----------------------------
(* Values of the constants of WorkerLanes for the model checker.           *)
EXTENDS WorkerLanes, TLC

CONSTANTS a, b, i1, i2, j1, j2, l1, l2, b1, b2, u1, u2

Days == {{"screen", "logout"}, {"screen", "admin"}, {"complete", "device", "kill"},
         {"home"}, {"storage"}, {"build"}, {"intake"}, {"report"}}

Same == Permutations({a, b}) \cup Permutations({i1, i2}) \cup Permutations({j1, j2})
        \cup Permutations({l1, l2}) \cup Permutations({b1, b2})
===============================================================================
