------------------------------- MODULE MCAccess -------------------------------
(* Values of the constants of Access for the model checker.                *)
EXTENDS Access, TLC

CONSTANTS u1, u2, d1, s1, i1, i2, i3, c1, c2

(* The check of the roles in a request reads what AssignRoles writes and   *)
(* touches nothing else, so that requests are left out of its workload.    *)
Days == {{"login", "guess", "restart"},
         {"login", "refresh", "request", "user"},
         {"login", "refresh", "logout"},
         {"login", "refresh", "expiry"},
         {"login", "refresh", "device"},
         {"login", "request", "device", "restart"},
         {"login", "request", "assign"},
         {"login", "request", "station"},
         {"login", "roles"},
         {"control"}}

Same == Permutations({u1, u2}) \cup Permutations({i1, i2, i3}) \cup Permutations({c1, c2})
===============================================================================
