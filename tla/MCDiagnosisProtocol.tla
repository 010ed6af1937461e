------------------------ MODULE MCDiagnosisProtocol ------------------------
(* p1 asks a round of questions and may be diagnosed again; p2 is only     *)
(* there to share the requests and the overall status.                     *)
EXTENDS DiagnosisProtocol

CONSTANTS p1, p2, a1

Products == {p1, p2}
First    == {p1}
Threads  == {a1}

OnlyFirst(n) == [p \in Product |-> IF p = p1 THEN n ELSE 0]
Rounds   == OnlyFirst(1)
Progress == OnlyFirst(2)
Retries  == OnlyFirst(1)
Silent   == OnlyFirst(0)
OnceEach == [p \in Product |-> 1]
=============================================================================
