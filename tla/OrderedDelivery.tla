---------------------------- MODULE OrderedDelivery ----------------------------
(***************************************************************************)
(* What the outbox promises for each product: its events are handed to the *)
(* backend in the order they were accepted, possibly several times, but    *)
(* never more often than the retry limit allows and never again once they  *)
(* are settled, i.e. delivered or given up.                                *)
(***************************************************************************)
EXTENDS Naturals

CONSTANTS Product, Limit        \* Limit: how often one event may be handed over

VARIABLES accepted,     \* number of events accepted
          current,      \* the event handed over last, 0 if none
          tries,        \* how often it has been handed over
          settled       \* the events that are over

vars == <<accepted, current, tries, settled>>

Init == /\ accepted = [p \in Product |-> 0]
        /\ current = [p \in Product |-> 0]
        /\ tries = [p \in Product |-> 0]
        /\ settled = [p \in Product |-> {}]

(* Events accepted after the end are settled at once.                      *)
Accept(p) ==
    /\ accepted'[p] > accepted[p]
    /\ \E over \in {{}, accepted[p] + 1 .. accepted'[p]} :
         settled' = [settled EXCEPT ![p] = @ \cup over]
    /\ accepted' = [accepted EXCEPT ![p] = accepted'[p]]
    /\ UNCHANGED <<current, tries>>

Hand(p) ==
    \E n \in (1 .. accepted[p]) \ settled[p] :
       /\ n >= current[p]
       /\ current' = [current EXCEPT ![p] = n]
       /\ tries' = [tries EXCEPT ![p] = IF n = current[p] THEN @ + 1 ELSE 1]
       /\ tries'[p] <= Limit
       /\ \E over \in {{}, {n}} : settled' = [settled EXCEPT ![p] = @ \cup over]
       /\ UNCHANGED accepted

(* Events are given up, each of them once.                                 *)
GiveUp ==
    /\ \A p \in Product : settled[p] \subseteq settled'[p] /\ settled'[p] \subseteq 1 .. accepted[p]
    /\ DOMAIN settled' = Product
    /\ UNCHANGED <<accepted, current, tries>>

Next == GiveUp \/ \E p \in Product : Accept(p) \/ Hand(p)

Spec == Init /\ [][Next]_vars

=============================================================================
