---------------------------- MODULE CallbackOutbox ----------------------------
(***************************************************************************)
(* The outbox of the AI server (ai/app/callbacks/outbox.py): one lane of   *)
(* events per product, a queue of the products whose turn it is, and a few *)
(* threads.  A thread takes a product and sends its events one after the   *)
(* other until its lane is empty.  A product has a lane, possibly an empty *)
(* one, as long as a thread has it or it waits in the queue.               *)
(*                                                                         *)
(* The lanes have a lock: a step is what a thread does under it, or one    *)
(* request.  The n-th event put for a product is the number n.             *)
(***************************************************************************)
EXTENDS Integers, FiniteSets, SequencesExt

CONSTANTS Product,
          Thread,          \* transmission threads
          MaxRetries,      \* MAX_RETRIES
          Stop,            \* the sentinel that ends a thread
          MaxEvents,       \* bound: events of one product
          MaxPut           \* bound: events of one call of put

ASSUME OutboxAssumption ==
    /\ MaxRetries \in Nat /\ MaxEvents \in Nat /\ MaxPut \in Nat \ {0}
    /\ Stop \notin Product
    /\ IsFiniteSet(Product) /\ IsFiniteSet(Thread)

VARIABLES
  lanes,      \* _lanes: the waiting events of each product
  keys,       \* the products that have a lane
  ready,      \* _ready: products whose turn it is, and sentinels
  threads,    \* what each thread is doing
  closed,     \* _closed
  stopping,   \* _stopping: retries are not waited for any more
  closer,     \* where close() is: "open", "waiting", "cleared" or "returned"
  dropped,    \* what close() will return
  count,      \* events put so far, per product
  outcome,    \* the record made of each event
  sent        \* the requests sent so far, per product; a history

vars == <<lanes, keys, ready, threads, closed, stopping, closer, dropped, count, outcome, sent>>

Event == 1 .. MaxEvents

(* CallbackOutcome: delivered, or the reason why it was dropped.  "late"   *)
(* is a shutdown too, of an event put after the outbox was closed.         *)
Outcomes == {"none", "delivered", "shutdown", "late", "not_retryable", "retry_exhausted", "error"}

Resting == [pc |-> "idle", product |-> Stop, event |-> 0, attempt |-> 0]

Init ==
    /\ lanes = [p \in Product |-> << >>] /\ keys = {} /\ ready = << >>
    /\ threads = [t \in Thread |-> Resting]
    /\ closed = FALSE /\ stopping = FALSE /\ closer = "open" /\ dropped = 0
    /\ count = [p \in Product |-> 0]
    /\ outcome = [p \in Product |-> [n \in Event |-> "none"]]
    /\ sent = [p \in Product |-> << >>]

Recorded(p, events, what) ==
    outcome' = [outcome EXCEPT ![p] = [n \in Event |-> IF n \in events THEN what ELSE @[n]]]

(* put: the callbacks of one session event, all of one product.            *)
NoneWaiting(p) == lanes[p] = << >>                 \* mutant: an empty lane counts as none
LaneMissing(p) == p \notin keys

Put(p, k) ==
    LET new == [i \in 1 .. k |-> count[p] + i] IN
    /\ count[p] + k <= MaxEvents
    /\ count' = [count EXCEPT ![p] = @ + k]
    /\ IF closed
       THEN /\ Recorded(p, ToSet(new), "late")
            /\ UNCHANGED <<lanes, keys, ready>>
       ELSE /\ lanes' = [lanes EXCEPT ![p] = @ \o new]
            /\ keys' = keys \cup {p}
            /\ ready' = IF LaneMissing(p) THEN Append(ready, p) ELSE ready
            /\ UNCHANGED outcome
    /\ UNCHANGED <<threads, closed, stopping, closer, dropped, sent>>

(* _work: the next product, or the sentinel.                               *)
Get(t) ==
    /\ threads[t].pc = "idle" /\ ready # << >>
    /\ ready' = Tail(ready)
    /\ threads' = [threads EXCEPT ![t] =
                     IF Head(ready) = Stop THEN [Resting EXCEPT !.pc = "exit"]
                     ELSE [Resting EXCEPT !.pc = "lane", !.product = Head(ready)]]
    /\ UNCHANGED <<lanes, keys, closed, stopping, closer, dropped, count, outcome, sent>>

(* _work: the lane is empty, and gone.                                     *)
LaneKept(p) == keys                                \* mutant: the empty lane is left behind
WithoutLane(p) == keys \ {p}

Leave(t) ==
    /\ threads[t].pc = "lane" /\ lanes[threads[t].product] = << >>
    /\ keys' = WithoutLane(threads[t].product)
    /\ threads' = [threads EXCEPT ![t] = Resting]
    /\ UNCHANGED <<lanes, ready, closed, stopping, closer, dropped, count, outcome, sent>>

(* _work: the next event of the lane.                                      *)
Take(t) ==
    LET p == threads[t].product IN
    /\ threads[t].pc = "lane" /\ lanes[p] # << >>
    /\ lanes' = [lanes EXCEPT ![p] = Tail(@)]
    /\ threads' = [threads EXCEPT ![t].pc = "send", ![t].event = Head(lanes[p])]
    /\ UNCHANGED <<keys, ready, closed, stopping, closer, dropped, count, outcome, sent>>

(* The event of the thread is over; on to the next one of the lane.        *)
Settle(t, what) ==
    /\ Recorded(threads[t].product, {threads[t].event}, what)
    /\ threads' = [threads EXCEPT ![t].pc = "lane", ![t].event = 0, ![t].attempt = 0]

(* _deliver: one request.  A failed one (no answer, 5xx, or the 409 the    *)
(* backend asks to repeat) may have reached the backend all the same.      *)
MayRetry(attempt) == attempt < MaxRetries

Send(t) ==
    LET p == threads[t].product IN
    /\ threads[t].pc = "send"
    /\ sent' = [sent EXCEPT ![p] = Append(@, threads[t].event)]
    /\ \/ \E what \in {"delivered", "not_retryable", "error"} : Settle(t, what)
       \/ /\ MayRetry(threads[t].attempt)
          /\ threads' = [threads EXCEPT ![t].pc = "wait", ![t].attempt = @ + 1]
          /\ UNCHANGED outcome
       \/ ~MayRetry(threads[t].attempt) /\ Settle(t, "retry_exhausted")
    /\ UNCHANGED <<lanes, keys, ready, closed, stopping, closer, dropped, count>>

(* _deliver: the delay before a retry, cut short by the end.               *)
Wait(t) ==
    /\ threads[t].pc = "wait"
    /\ IF stopping THEN Settle(t, "shutdown")
       ELSE threads' = [threads EXCEPT ![t].pc = "send"] /\ UNCHANGED outcome
    /\ UNCHANGED <<lanes, keys, ready, closed, stopping, closer, dropped, count, sent>>

(* close: no new events, then wait until the lanes are gone or time is up. *)
Close ==
    /\ closer = "open"
    /\ closed' = TRUE /\ closer' = "waiting"
    /\ UNCHANGED <<lanes, keys, ready, threads, stopping, dropped, count, outcome, sent>>

(* close: retries stop, and what still waits is dropped and counted.       *)
LanesKept == lanes                                 \* mutant: dropped events stay in their lanes
LanesCleared == [p \in Product |-> << >>]

CloseClears ==
    /\ closer = "waiting"
    /\ stopping' = TRUE
    /\ dropped' = FoldSet(LAMBDA p, n : n + Len(lanes[p]), 0, Product)
    /\ outcome' = [p \in Product |-> [n \in Event |->
                     IF n \in ToSet(lanes[p]) THEN "shutdown" ELSE outcome[p][n]]]
    /\ lanes' = LanesCleared
    /\ closer' = "cleared"
    /\ UNCHANGED <<keys, ready, threads, closed, count, sent>>

(* close: one sentinel for each thread, a second of patience for each.     *)
OneSentinel == 1                                   \* mutant: one sentinel for all threads
Sentinels == Cardinality(Thread)

CloseStops ==
    /\ closer = "cleared"
    /\ ready' = ready \o [i \in 1 .. Sentinels |-> Stop]
    /\ closer' = "returned"
    /\ UNCHANGED <<lanes, keys, threads, closed, stopping, dropped, count, outcome, sent>>

Producer == \E p \in Product, k \in 1 .. MaxPut : Put(p, k)
Work(t)  == Get(t) \/ Leave(t) \/ Take(t) \/ Send(t) \/ Wait(t)
Closer   == Close \/ CloseClears \/ CloseStops

Next == Producer \/ Closer \/ \E t \in Thread : Work(t)

Spec == Init /\ [][Next]_vars

(* The threads run until they are told to stop; a request times out after  *)
(* five seconds and every delay ends.  Nobody has to close the outbox, but *)
(* close() comes to its end.                                               *)
FairSpec == Spec /\ \A t \in Thread : WF_vars(Work(t))
                 /\ WF_vars(CloseClears) /\ WF_vars(CloseStops)

-----------------------------------------------------------------------------
(* Properties.                                                             *)

Busy == {"lane", "send", "wait"}

(* Types, and which steps of a thread concern a product and an event.      *)
TypeOK ==
    /\ lanes \in [Product -> Seq(Event)] /\ keys \subseteq Product
    /\ ready \in Seq(Product \cup {Stop})
    /\ threads \in [Thread -> [pc : Busy \cup {"idle", "exit"}, product : Product \cup {Stop},
                               event : 0 .. MaxEvents, attempt : 0 .. MaxRetries]]
    /\ closed \in BOOLEAN /\ stopping \in BOOLEAN
    /\ closer \in {"open", "waiting", "cleared", "returned"} /\ dropped \in Nat
    /\ count \in [Product -> 0 .. MaxEvents] /\ outcome \in [Product -> [Event -> Outcomes]]
    /\ sent \in [Product -> Seq(Event)]

Handlers(p) == {t \in Thread : threads[t].pc \in Busy /\ threads[t].product = p}
Turns(p)    == {i \in DOMAIN ready : ready[i] = p}

(* A product that has a lane is in the hands of exactly one thread, or has *)
(* exactly one turn in the queue; one that has none is nowhere.  Hence no  *)
(* two threads send events of one product, and no waiting event is left    *)
(* behind (outbox.py, put and _work).                                      *)
OneHandlerPerLane ==
    \A p \in Product :
      Cardinality(Handlers(p)) + Cardinality(Turns(p)) = IF p \in keys THEN 1 ELSE 0

(* Every event put is waiting, being sent, or on record, and only one of   *)
(* these, also while the outbox is being closed.                           *)
EveryEventAccounted ==
    \A p \in Product : \A n \in 1 .. count[p] :
      LET waiting == n \in ToSet(lanes[p])
          sending == \E t \in Thread : threads[t].product = p /\ threads[t].event = n
          over    == outcome[p][n] # "none"
      IN  \/ waiting /\ ~sending /\ ~over
          \/ ~waiting /\ sending /\ ~over
          \/ ~waiting /\ ~sending /\ over

LastSent(p) == IF sent[p] = << >> THEN 0 ELSE sent[p][Len(sent[p])]

(* The outbox hands over the events of a product in the order they were    *)
(* put, each at most MaxRetries + 1 times and never after it is on record. *)
Delivery == INSTANCE OrderedDelivery
    WITH Limit    <- MaxRetries + 1,
         accepted <- count,
         current  <- [p \in Product |-> LastSent(p)],
         tries    <- [p \in Product |->
                        Cardinality({i \in DOMAIN sent[p] : sent[p][i] = LastSent(p)})],
         settled  <- [p \in Product |-> {n \in Event : outcome[p][n] # "none"}]
DeliverySpec == Delivery!Spec

(* Every event is delivered or given up some day, whatever the backend     *)
(* answers and whenever the outbox is closed.                              *)
EveryEventSettled ==
    \A p \in Product, n \in Event : count[p] >= n ~> outcome[p][n] # "none"

(* close() returns, and its threads end (outbox.py:138).                   *)
ThreadsEnd == closed ~> \A t \in Thread : threads[t].pc = "exit"

=============================================================================
