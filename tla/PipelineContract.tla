--------------------------- MODULE PipelineContract ---------------------------
(* What the job may rely on in a run of the pipeline: it ends once, with a  *)
(* reason that fits what verification came to (ExecutionEndReason in        *)
(* app/schemas/schemas.py).  Pipeline implements it; DiagnosisJob uses it.  *)
VARIABLE outcome

Reason == {"completed", "user_input_required", "revision_required",
           "retry_limit_exceeded", "no_progress"}

Status == {"verified", "verified_with_warnings", "incomplete"}

(* asks: the result holds a question that has to be answered.               *)
Ending(reason, status, asks) == [reason |-> reason, status |-> status, asks |-> asks]

(* A result is verified exactly if the run completed.  A question that has  *)
(* to be answered is left only by a run that stops for it, or for something *)
(* no answer would change.                                                  *)
Fits(e) ==
  /\ (e.reason = "completed") = (e.status # "incomplete")
  /\ e.reason = "user_input_required" => e.asks
  /\ e.asks => e.reason \in {"user_input_required", "revision_required"}

Endings == {e \in {Ending(r, s, a) : r \in Reason, s \in Status, a \in BOOLEAN}: Fits(e)}

(* No result: it has none yet, or a stage failed.                           *)
Without(reason) == Ending(reason, "none", FALSE)

Init == outcome = Without("running")

Next == outcome = Without("running") /\ outcome' \in Endings \cup {Without("failed")}

Spec == Init /\ [][Next]_outcome
=============================================================================
