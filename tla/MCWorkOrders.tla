---------------------------- MODULE MCWorkOrders ----------------------------
EXTENDS WorkOrders

CONSTANTS x, y, a, b, i1, i2, w1, w2, r1, r2

OneHost == (w1 :> i1) @@ (r1 :> i1)
TwoHosts == (w1 :> i1) @@ (r1 :> i1) @@ (r2 :> i2)
\* Two workers of one process ("Further results" in the README).
TwoWorkers == (w1 :> i1) @@ (w2 :> i1) @@ (r1 :> i1)
Orders == Permutations(Order)

Request(m, k) == [mode |-> m, keep |-> k]
Execute == {Request("execute", FALSE)}
Bounded == {Request("bounded", k) : k \in BOOLEAN}
AnyRequest == {Request(m, k) : m \in {"execute", "bounded", "plan"}, k \in BOOLEAN}
=============================================================================
