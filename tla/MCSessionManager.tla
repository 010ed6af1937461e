--------------------------- MODULE MCSessionManager ---------------------------
(* Instances of SessionManager for TLC.                                     *)
EXTENDS SessionManager, TLC

CONSTANTS p1, p2, d1, d2, w1, w2

Products    == {p1, p2}
WithSandbox == {p1, d1, d2}
AllProducts == {p1, p2, d1, d2}
OneProduct  == {p1}
Sandbox     == {d1, d2}
TwoWorkers  == {w1, w2}
OneWorker   == {w1}
OneStage    == {"tool_execution"}
TwoStages   == {"extraction", "tool_execution"}

(* Worker threads are interchangeable, and so are the products of the       *)
(* backend, and those of the sandbox.                                       *)
Symmetry == Permutations(Worker) \cup Permutations(Product \ DevProducts)
            \cup Permutations(DevProducts)

=============================================================================
