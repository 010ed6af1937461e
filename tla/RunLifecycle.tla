---------------------------- MODULE RunLifecycle ----------------------------
(***************************************************************************)
(* What the session manager promises about runs, whatever its threads do:  *)
(* runs are admitted in batches up to a limit, every run ends once, and    *)
(* the backend is told of an end at most once, and not before it.          *)
(***************************************************************************)
EXTENDS Naturals, FiniteSets

CONSTANTS Run, Limit

VARIABLES state,   \* run -> "unused", "live" or "ended"
          told     \* run -> has its last callback been handed over?

live == {r \in Run : state[r] = "live"}

Init == state = [r \in Run |-> "unused"] /\ told = [r \in Run |-> FALSE]

Accept(S) ==
    /\ \A r \in S : state[r] = "unused"
    /\ Cardinality(live \cup S) <= Limit
    /\ state' = [r \in Run |-> IF r \in S THEN "live" ELSE state[r]]
    /\ UNCHANGED told

(* Several runs end together only when the process goes down.              *)
End(S) ==
    /\ S \subseteq live
    /\ state' = [r \in Run |-> IF r \in S THEN "ended" ELSE state[r]]
    /\ UNCHANGED told

Announce(r) ==
    /\ state[r] = "ended" /\ ~told[r]
    /\ told' = [told EXCEPT ![r] = TRUE]
    /\ UNCHANGED state

Next == \/ \E S \in (SUBSET Run) \ {{}} : Accept(S) \/ End(S)
        \/ \E r \in Run : Announce(r)

Spec == Init /\ [][Next]_<<state, told>>

=============================================================================
