-------------------------- MODULE ProductLifecycle --------------------------
(***************************************************************************)
(* What the owner of a product is promised: it is worked on, may ask in    *)
(* rounds that go up, and ends; an ended product is final unless it may be *)
(* diagnosed again, which starts over from the first round.                *)
(***************************************************************************)
EXTENDS Naturals

CONSTANT Product

VARIABLES life,    \* product -> "none", "working", "asking", "done", "failed", "dead" or "removed"
          round    \* product -> the last round asked, 0 before the first

vars == <<life, round>>

Init == life = [p \in Product |-> "none"] /\ round = [p \in Product |-> 0]

Start(p) == life[p] = "none" /\ life'[p] = "working" /\ round'[p] = round[p]
Ask(p)   == life[p] = "working" /\ life'[p] = "asking" /\ round'[p] > round[p]
Go(p)    == life[p] = "asking" /\ life'[p] = "working" /\ round'[p] = round[p]
End(p)   == life[p] = "working" /\ life'[p] \in {"done", "failed", "dead"} /\ round'[p] = round[p]
Again(p) == life[p] = "failed" /\ life'[p] = "working" /\ round'[p] = 0
Leave(p) == life[p] # "none" /\ life'[p] = "removed" /\ round'[p] = 0
Stay(p)  == life'[p] = life[p] /\ round'[p] = round[p]

(* One transaction may move several products.                              *)
Next == /\ DOMAIN life' = Product /\ DOMAIN round' = Product
        /\ \A p \in Product :
             Start(p) \/ Ask(p) \/ Go(p) \/ End(p) \/ Again(p) \/ Leave(p) \/ Stay(p)

Spec == Init /\ [][Next]_vars
=============================================================================
