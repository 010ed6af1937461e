----------------------------- MODULE OutboxProofs -----------------------------
(***************************************************************************)
(* The outbox keeps its promises for any number of products, threads,      *)
(* retries and events: one thread at a time has a lane, no event is lost   *)
(* or told twice, and a lane is handed over in order.                      *)
(*                                                                         *)
(* The invariant has three parts: who has a lane (Hands), where each event *)
(* is (Events), and what has been sent of a lane (History).                *)
(***************************************************************************)
EXTENDS CallbackOutbox, SequenceTheorems, FiniteSetTheorems, TLAPS

USE OutboxAssumption DEF OutboxAssumption

ThreadState == [pc : Busy \cup {"idle", "exit"}, product : Product \cup {Stop},
                event : 0 .. MaxEvents, attempt : 0 .. MaxRetries]

(* What dropped counts is left out: its sum is a fold over the products.   *)
Types ==
    /\ lanes \in [Product -> Seq(Event)] /\ keys \subseteq Product
    /\ ready \in Seq(Product \cup {Stop})
    /\ threads \in [Thread -> ThreadState]
    /\ count \in [Product -> 0 .. MaxEvents] /\ outcome \in [Product -> [Event -> Outcomes]]
    /\ sent \in [Product -> Seq(Event)]

Has(t, p)     == threads[t].pc \in Busy /\ threads[t].product = p
Sending(t)    == threads[t].pc \in {"send", "wait"}
Waiting(p, n) == \E i \in 1 .. Len(lanes[p]) : lanes[p][i] = n
Held(p, n)    == \E t \in Thread : Sending(t) /\ threads[t].product = p /\ threads[t].event = n

(* What a thread remembers fits what it is doing.                          *)
Resolved ==
    \A t \in Thread :
      /\ threads[t].pc \in Busy <=> threads[t].product \in Product
      /\ Sending(t) <=> threads[t].event # 0
      /\ ~Sending(t) => threads[t].attempt = 0

(* A lane has one thread or one turn, never two of them.                   *)
Hands ==
    /\ \A p \in Product : \A t, u \in Thread : Has(t, p) /\ Has(u, p) => t = u
    /\ \A i, j \in 1 .. Len(ready) : ready[i] = ready[j] /\ ready[i] \in Product => i = j
    /\ \A p \in Product : \A t \in Thread : \A i \in 1 .. Len(ready) : Has(t, p) => ready[i] # p
    /\ \A p \in Product : p \in keys <=> \/ \E t \in Thread : Has(t, p)
                                         \/ \E i \in 1 .. Len(ready) : ready[i] = p
    /\ \A p \in Product : lanes[p] # << >> => p \in keys

(* A lane is in the order of put, and what is sent of it comes before it.  *)
Ordered ==
    \A p \in Product :
      /\ \A i, j \in 1 .. Len(lanes[p]) : i < j => lanes[p][i] < lanes[p][j]
      /\ \A t \in Thread, i \in 1 .. Len(lanes[p]) : Has(t, p) => threads[t].event < lanes[p][i]

(* Nothing is on record that waits or is being sent, and what was put does *)
(* one of the three.                                                       *)
Events ==
    \A p \in Product, n \in Event :
      /\ Waiting(p, n) \/ Held(p, n) => n <= count[p] /\ outcome[p][n] = "none"
      /\ n <= count[p] => Waiting(p, n) \/ Held(p, n) \/ outcome[p][n] # "none"
      /\ n > count[p] => outcome[p][n] = "none"

Tries(p, n) == {i \in 1 .. Len(sent[p]) : sent[p][i] = n}

(* What was sent comes before what waits, and before what is sent now,     *)
(* which was sent once for each attempt that failed.                       *)
History ==
    \A p \in Product :
      /\ \A i, j \in 1 .. Len(sent[p]) : i <= j => sent[p][i] <= sent[p][j]
      /\ \A i \in 1 .. Len(sent[p]) : sent[p][i] <= count[p]
      /\ \A i \in 1 .. Len(sent[p]), j \in 1 .. Len(lanes[p]) : sent[p][i] < lanes[p][j]
      /\ \A t \in Thread, n \in Event : Sending(t) /\ threads[t].product = p /\ threads[t].event = n =>
           /\ \A i \in 1 .. Len(sent[p]) : sent[p][i] <= n
           /\ Cardinality(Tries(p, n)) = threads[t].attempt

Inv == Types /\ Resolved /\ Hands /\ Ordered /\ Events /\ History

-----------------------------------------------------------------------------
(* The numbers a call of put gives to its events.                          *)
Fresh(p, k) == [i \in 1 .. k |-> count[p] + i]

LEMMA FreshNumbers ==
    ASSUME Types, NEW p \in Product, NEW k \in 1 .. MaxPut, count[p] + k <= MaxEvents
    PROVE  /\ Fresh(p, k) \in Seq(Event) /\ Len(Fresh(p, k)) = k
           /\ \A i \in 1 .. k : Fresh(p, k)[i] = count[p] + i
           /\ ToSet(Fresh(p, k)) = count[p] + 1 .. count[p] + k
<1>1. count[p] \in Nat /\ k \in Nat /\ MaxEvents \in Nat
  BY DEF Types
<1>2. Fresh(p, k) \in [1 .. k -> Event]
  BY <1>1 DEF Fresh, Event
<1>3. Fresh(p, k) \in Seq(Event)
  BY <1>1, <1>2, SeqDef
<1>4. Len(Fresh(p, k)) = k
  BY <1>1, <1>2, <1>3, LenProperties
<1>5. \A i \in 1 .. k : Fresh(p, k)[i] = count[p] + i
  BY DEF Fresh
<1>6. DOMAIN Fresh(p, k) = 1 .. k
  BY DEF Fresh
<1>7. ToSet(Fresh(p, k)) = count[p] + 1 .. count[p] + k
  <2>1. ASSUME NEW n \in ToSet(Fresh(p, k)) PROVE n \in count[p] + 1 .. count[p] + k
    BY <1>1, <1>5, <1>6 DEF ToSet
  <2>2. ASSUME NEW n \in count[p] + 1 .. count[p] + k PROVE n \in ToSet(Fresh(p, k))
    <3>1. n - count[p] \in 1 .. k /\ Fresh(p, k)[n - count[p]] = n
      BY <1>1, <1>5
    <3> QED BY <3>1, <1>6 DEF ToSet
  <2> QED BY <2>1, <2>2
<1> QED BY <1>3, <1>4, <1>5, <1>7

(* A lane with k more events.                                              *)
LEMMA LongerLane ==
    ASSUME Types, NEW p \in Product, NEW k \in 1 .. MaxPut, count[p] + k <= MaxEvents
    PROVE  /\ lanes[p] \o Fresh(p, k) \in Seq(Event)
           /\ Len(lanes[p]) \in Nat /\ Len(lanes[p] \o Fresh(p, k)) = Len(lanes[p]) + k
           /\ \A i \in 1 .. Len(lanes[p]) : (lanes[p] \o Fresh(p, k))[i] = lanes[p][i]
           /\ \A i \in 1 .. k : (lanes[p] \o Fresh(p, k))[Len(lanes[p]) + i] = count[p] + i
<1>1. lanes[p] \in Seq(Event)
  BY DEF Types
<1>2. Len(lanes[p]) \in Nat /\ k \in Nat
  BY <1>1, LenProperties
<1>3. /\ Fresh(p, k) \in Seq(Event) /\ Len(Fresh(p, k)) = k
      /\ \A i \in 1 .. k : Fresh(p, k)[i] = count[p] + i
  BY FreshNumbers
<1>4. /\ lanes[p] \o Fresh(p, k) \in Seq(Event)
      /\ Len(lanes[p] \o Fresh(p, k)) = Len(lanes[p]) + Len(Fresh(p, k))
      /\ \A i \in 1 .. Len(lanes[p]) + Len(Fresh(p, k)) : (lanes[p] \o Fresh(p, k))[i] =
           IF i <= Len(lanes[p]) THEN lanes[p][i] ELSE Fresh(p, k)[i - Len(lanes[p])]
  BY <1>1, <1>3, ConcatProperties
<1> QED BY <1>2, <1>3, <1>4

(* The queue with one more turn, one turn less, or the sentinels.          *)
Queue == Seq(Product \cup {Stop})

LEMMA QueueGrows ==
    ASSUME NEW q \in Queue, NEW x \in Product \cup {Stop}
    PROVE  /\ Append(q, x) \in Queue /\ Len(q) \in Nat /\ Len(Append(q, x)) = Len(q) + 1
           /\ \A i \in 1 .. Len(q) : Append(q, x)[i] = q[i]
           /\ Append(q, x)[Len(q) + 1] = x
<1>1. Len(q) \in Nat
  BY LenProperties DEF Queue
<1> QED BY <1>1, AppendProperties DEF Queue

LEMMA QueueShrinks ==
    ASSUME NEW S, NEW q \in Seq(S), q # << >>
    PROVE  /\ Tail(q) \in Seq(S) /\ Len(q) \in Nat \ {0} /\ Len(Tail(q)) = Len(q) - 1
           /\ Head(q) = q[1] /\ q[1] \in S
           /\ \A i \in 1 .. Len(Tail(q)) : Tail(q)[i] = q[i + 1]
<1>1. Len(q) \in Nat \ {0}
  BY EmptySeq
<1>2. Head(q) = q[1]
  BY <1>1
<1> QED BY <1>1, <1>2, HeadTailProperties

SentinelSeq == [i \in 1 .. Sentinels |-> Stop]

LEMMA QueueStops ==
    ASSUME NEW q \in Queue
    PROVE  /\ q \o SentinelSeq \in Queue /\ Len(q) \in Nat /\ Sentinels \in Nat
           /\ Len(q \o SentinelSeq) = Len(q) + Sentinels
           /\ \A i \in 1 .. Len(q) : (q \o SentinelSeq)[i] = q[i]
           /\ \A i \in Len(q) + 1 .. Len(q) + Sentinels : (q \o SentinelSeq)[i] = Stop
<1>1. Sentinels \in Nat
  BY FS_CardinalityType DEF Sentinels
<1>2. SentinelSeq \in [1 .. Sentinels -> Product \cup {Stop}]
  BY DEF SentinelSeq
<1>3. SentinelSeq \in Queue
  BY <1>1, <1>2, SeqDef DEF Queue
<1>4. Len(SentinelSeq) = Sentinels
  BY <1>1, <1>2, <1>3, LenProperties DEF Queue
<1>5. \A i \in 1 .. Sentinels : SentinelSeq[i] = Stop
  BY DEF SentinelSeq
<1>6. Len(q) \in Nat
  BY LenProperties DEF Queue
<1>7. /\ q \o SentinelSeq \in Queue
      /\ Len(q \o SentinelSeq) = Len(q) + Len(SentinelSeq)
      /\ \A i \in 1 .. Len(q) + Len(SentinelSeq) : (q \o SentinelSeq)[i] =
           IF i <= Len(q) THEN q[i] ELSE SentinelSeq[i - Len(q)]
  BY <1>3, ConcatProperties DEF Queue
<1> QED BY <1>1, <1>4, <1>5, <1>6, <1>7

-----------------------------------------------------------------------------
(* A step changes fields of a thread's state, each to a value it may have. *)
LEMMA ThreadFields ==
    ASSUME NEW s \in ThreadState, NEW pc \in Busy, NEW n \in 0 .. MaxEvents, NEW m \in 0 .. MaxRetries
    PROVE  [s EXCEPT !.pc = pc, !.event = n, !.attempt = m] \in ThreadState
<1>1. PICK a \in ThreadState : a = [s EXCEPT !.pc = pc]
  BY DEF ThreadState
<1>2. PICK b \in ThreadState : b = [a EXCEPT !.event = n]
  BY DEF ThreadState
<1>3. [b EXCEPT !.attempt = m] \in ThreadState
  BY DEF ThreadState
<1> QED BY <1>1, <1>2, <1>3 DEF ThreadState

LEMMA ThreadStates ==
    ASSUME NEW s \in ThreadState
    PROVE  /\ s.pc \in Busy \cup {"idle", "exit"} /\ s.product \in Product \cup {Stop}
           /\ s.event \in 0 .. MaxEvents /\ s.attempt \in 0 .. MaxRetries
           /\ [s EXCEPT !.pc = "lane", !.event = 0, !.attempt = 0] \in ThreadState
           /\ \A n \in Event : [s EXCEPT !.pc = "send", !.event = n] \in ThreadState
           /\ s.attempt < MaxRetries => [s EXCEPT !.pc = "wait", !.attempt = @ + 1] \in ThreadState
<1>1. /\ s.pc \in Busy \cup {"idle", "exit"} /\ s.product \in Product \cup {Stop}
      /\ s.event \in 0 .. MaxEvents /\ s.attempt \in 0 .. MaxRetries
  BY DEF ThreadState
<1>2. [s EXCEPT !.pc = "lane", !.event = 0, !.attempt = 0] \in ThreadState
  <2>1. "lane" \in Busy /\ 0 \in 0 .. MaxEvents /\ 0 \in 0 .. MaxRetries
    BY DEF Busy
  <2> QED BY <2>1, ThreadFields, Zenon
<1>3. ASSUME NEW n \in Event PROVE [s EXCEPT !.pc = "send", !.event = n] \in ThreadState
  <2>1. [s EXCEPT !.pc = "send", !.event = n, !.attempt = s.attempt] \in ThreadState
    <3>1. "send" \in Busy /\ n \in 0 .. MaxEvents
      BY DEF Busy, Event
    <3> QED BY <1>1, <3>1, ThreadFields, Zenon
  <2> QED BY <2>1 DEF ThreadState
<1>4. ASSUME s.attempt < MaxRetries
      PROVE  [s EXCEPT !.pc = "wait", !.attempt = @ + 1] \in ThreadState
  <2>1. s.attempt + 1 \in 0 .. MaxRetries
    BY <1>1, <1>4
  <2>2. [s EXCEPT !.pc = "wait", !.event = s.event, !.attempt = s.attempt + 1] \in ThreadState
    <3>1. "wait" \in Busy
      BY DEF Busy
    <3> QED BY <1>1, <2>1, <3>1, ThreadFields, Zenon
  <2> QED BY <2>2 DEF ThreadState
<1> QED BY <1>1, <1>2, <1>3, <1>4

(* What Settle does to the records of events.                              *)
LEMMA SettleTypes ==
    ASSUME Types, NEW t \in Thread, threads[t].product \in Product, NEW what \in Outcomes,
           Settle(t, what)
    PROVE  /\ outcome' \in [Product -> [Event -> Outcomes]]
           /\ threads' \in [Thread -> ThreadState]
           /\ threads'[t] = [threads[t] EXCEPT !.pc = "lane", !.event = 0, !.attempt = 0]
           /\ \A u \in Thread : u # t => threads'[u] = threads[u]
<1>1. outcome' \in [Product -> [Event -> Outcomes]]
  BY DEF Types, Settle, Recorded
<1>2. threads[t] \in ThreadState
  BY DEF Types
<1>3. [threads[t] EXCEPT !.pc = "lane", !.event = 0, !.attempt = 0] \in ThreadState
  BY <1>2, ThreadStates
<1>4. threads' = [threads EXCEPT ![t] = [threads[t] EXCEPT !.pc = "lane", !.event = 0, !.attempt = 0]]
  BY DEF Types, Settle
<1> QED BY <1>1, <1>3, <1>4 DEF Types

LEMMA TypesInductive == Types /\ Resolved /\ [Next]_vars => Types'
<1> SUFFICES ASSUME Types, Resolved, [Next]_vars PROVE Types'
  OBVIOUS
<1>1. ASSUME NEW p \in Product, NEW k \in 1 .. MaxPut, Put(p, k) PROVE Types'
  <2>1. /\ count[p] + k <= MaxEvents /\ count' = [count EXCEPT ![p] = @ + k]
        /\ UNCHANGED <<threads, sent>>
    BY <1>1 DEF Put
  <2>2. count' \in [Product -> 0 .. MaxEvents]
    BY <2>1 DEF Types
  <2>3. CASE closed
    <3>1. Recorded(p, ToSet(Fresh(p, k)), "late") /\ UNCHANGED <<lanes, keys, ready>>
      BY <1>1, <2>3 DEF Put, Fresh
    <3>2. outcome' \in [Product -> [Event -> Outcomes]]
      BY <3>1 DEF Types, Recorded, Outcomes
    <3> QED BY <2>1, <2>2, <3>1, <3>2 DEF Types
  <2>4. CASE ~closed
    <3>1. /\ lanes' = [lanes EXCEPT ![p] = @ \o Fresh(p, k)] /\ keys' = keys \cup {p}
          /\ ready' = IF LaneMissing(p) THEN Append(ready, p) ELSE ready
          /\ UNCHANGED outcome
      BY <1>1, <2>4 DEF Put, Fresh
    <3>2. lanes' \in [Product -> Seq(Event)]
      BY <2>1, <3>1, LongerLane DEF Types
    <3>3. ready' \in Seq(Product \cup {Stop})
      BY <3>1, QueueGrows DEF Types, Queue
    <3> QED BY <2>1, <2>2, <3>1, <3>2, <3>3 DEF Types
  <2> QED BY <2>3, <2>4
<1>2. ASSUME NEW t \in Thread, Get(t) PROVE Types'
  <2>1. Tail(ready) \in Seq(Product \cup {Stop}) /\ Head(ready) \in Product \cup {Stop}
    BY <1>2, QueueShrinks DEF Get, Types
  <2>2. [Resting EXCEPT !.pc = "exit"] \in ThreadState
    BY DEF Resting, ThreadState, Busy
  <2>3. [Resting EXCEPT !.pc = "lane", !.product = Head(ready)] \in ThreadState
    <3>1. [Resting EXCEPT !.pc = "lane"] \in ThreadState
      BY DEF Resting, ThreadState, Busy
    <3>2. [[Resting EXCEPT !.pc = "lane"] EXCEPT !.product = Head(ready)] \in ThreadState
      BY <2>1, <3>1 DEF ThreadState
    <3>3. [Resting EXCEPT !.pc = "lane", !.product = Head(ready)]
            = [[Resting EXCEPT !.pc = "lane"] EXCEPT !.product = Head(ready)]
      OBVIOUS
    <3> QED BY <3>2, <3>3
  <2> QED BY <1>2, <2>1, <2>2, <2>3 DEF Get, Types
<1>3. ASSUME NEW t \in Thread, Leave(t) PROVE Types'
  BY <1>3 DEF Leave, WithoutLane, Types, ThreadState, Resting, Busy
<1>4. ASSUME NEW t \in Thread, Take(t) PROVE Types'
  <2> DEFINE p == threads[t].product
  <2>1. p \in Product
    BY <1>4 DEF Take, Resolved, Busy
  <2>2. lanes[p] \in Seq(Event) /\ lanes[p] # << >>
    BY <1>4, <2>1 DEF Take, Types
  <2>3. Tail(lanes[p]) \in Seq(Event) /\ Head(lanes[p]) \in Event
    BY <2>2, QueueShrinks
  <2>4. threads' = [threads EXCEPT ![t] = [threads[t] EXCEPT !.pc = "send", !.event = Head(lanes[p])]]
    BY <1>4 DEF Take, Types
  <2>5. [threads[t] EXCEPT !.pc = "send", !.event = Head(lanes[p])] \in ThreadState
    BY <2>3, ThreadStates DEF Types
  <2>6. lanes' \in [Product -> Seq(Event)]
    BY <1>4, <2>1, <2>3 DEF Take, Types
  <2> QED BY <1>4, <2>4, <2>5, <2>6 DEF Take, Types
<1>5. ASSUME NEW t \in Thread, Send(t) PROVE Types'
  <2>1. threads[t].product \in Product /\ threads[t].event \in Event
    BY <1>5 DEF Send, Resolved, Types, ThreadState, Busy, Sending, Event
  <2>2. sent' \in [Product -> Seq(Event)]
    BY <1>5, <2>1, AppendProperties DEF Send, Types
  <2>3. CASE \E what \in Outcomes : Settle(t, what)
    BY <1>5, <2>1, <2>2, <2>3, SettleTypes DEF Send, Types
  <2>4. CASE /\ MayRetry(threads[t].attempt) /\ UNCHANGED outcome
             /\ threads' = [threads EXCEPT ![t].pc = "wait", ![t].attempt = @ + 1]
    <3>1. threads' = [threads EXCEPT ![t] = [threads[t] EXCEPT !.pc = "wait", !.attempt = @ + 1]]
      BY <2>4 DEF Types
    <3>2. [threads[t] EXCEPT !.pc = "wait", !.attempt = @ + 1] \in ThreadState
      BY <2>4, ThreadStates DEF Types, MayRetry
    <3> QED BY <1>5, <2>2, <2>4, <3>1, <3>2 DEF Send, Types
  <2> QED BY <1>5, <2>3, <2>4 DEF Send, Outcomes
<1>6. ASSUME NEW t \in Thread, Wait(t) PROVE Types'
  <2>1. threads[t].product \in Product
    BY <1>6 DEF Wait, Resolved, Busy
  <2>2. CASE Settle(t, "shutdown")
    BY <1>6, <2>1, <2>2, SettleTypes DEF Wait, Types, Outcomes
  <2>3. CASE threads' = [threads EXCEPT ![t].pc = "send"] /\ UNCHANGED outcome
    BY <1>6, <2>3 DEF Wait, Types, ThreadState, Busy
  <2> QED BY <1>6, <2>2, <2>3 DEF Wait
<1>7. ASSUME Close PROVE Types'
  BY <1>7 DEF Close, Types
<1>8. ASSUME CloseClears PROVE Types'
  BY <1>8, EmptySeq DEF CloseClears, LanesCleared, Types, Outcomes
<1>9. ASSUME CloseStops PROVE Types'
  BY <1>9, QueueStops DEF CloseStops, SentinelSeq, Types, Queue
<1>10. CASE UNCHANGED vars
  BY <1>10 DEF vars, Types
<1> QED BY <1>1, <1>2, <1>3, <1>4, <1>5, <1>6, <1>7, <1>8, <1>9, <1>10
        DEF Next, Producer, Work, Closer

-----------------------------------------------------------------------------
(* What the step of a thread does, field by field.                         *)
Now(t, pc, product, event, attempt) ==
    /\ threads'[t].pc = pc /\ threads'[t].product = product
    /\ threads'[t].event = event /\ threads'[t].attempt = attempt
    /\ \A u \in Thread : u # t => threads'[u] = threads[u]

Told(p, events, what) ==
    \A q \in Product, n \in Event :
      outcome'[q][n] = IF q = p /\ n \in events THEN what ELSE outcome[q][n]

LEMMA NowResting ==
    ASSUME Types, NEW t \in Thread, NEW s \in ThreadState, threads' = [threads EXCEPT ![t] = s]
    PROVE  Now(t, s.pc, s.product, s.event, s.attempt)
  BY DEF Types, Now

LEMMA RecordedEvents ==
    ASSUME Types, NEW p \in Product, NEW events, NEW what, Recorded(p, events, what)
    PROVE  Told(p, events, what)
  BY DEF Types, Recorded, Told

LEMMA GetStep ==
    ASSUME Types, Resolved, NEW t \in Thread, Get(t)
    PROVE  /\ threads[t].pc = "idle" /\ threads[t].product = Stop
           /\ threads[t].event = 0 /\ threads[t].attempt = 0
           /\ Len(ready) \in Nat \ {0} /\ Len(ready') = Len(ready) - 1
           /\ \A i \in 1 .. Len(ready) - 1 : ready'[i] = ready[i + 1]
           /\ ready[1] \in Product \cup {Stop}
           /\ ready[1] = Stop => Now(t, "exit", Stop, 0, 0)
           /\ ready[1] # Stop => Now(t, "lane", ready[1], 0, 0)
           /\ UNCHANGED <<lanes, keys, count, outcome, sent>>
<1>1. /\ threads[t].pc = "idle" /\ ready # << >> /\ ready' = Tail(ready)
      /\ ready \in Seq(Product \cup {Stop}) /\ threads[t] \in ThreadState
      /\ UNCHANGED <<lanes, keys, count, outcome, sent>>
  BY DEF Get, Types
<1>2. /\ Len(ready) \in Nat \ {0} /\ Len(ready') = Len(ready) - 1
      /\ \A i \in 1 .. Len(ready) - 1 : ready'[i] = ready[i + 1]
      /\ ready[1] \in Product \cup {Stop} /\ Head(ready) = ready[1]
  BY <1>1, QueueShrinks
<1>3. threads[t].product = Stop /\ threads[t].event = 0 /\ threads[t].attempt = 0
  BY <1>1, ThreadStates DEF Resolved, Busy, Sending
<1>4. ASSUME ready[1] = Stop PROVE Now(t, "exit", Stop, 0, 0)
  BY <1>1, <1>2, <1>4 DEF Get, Types, Now, Resting
<1>5. ASSUME ready[1] # Stop PROVE Now(t, "lane", ready[1], 0, 0)
  <2>1. threads' = [threads EXCEPT ![t] = [Resting EXCEPT !.pc = "lane", !.product = ready[1]]]
    BY <1>2, <1>5 DEF Get
  <2> QED BY <2>1 DEF Types, Now, Resting
<1> QED BY <1>1, <1>2, <1>3, <1>4, <1>5

LEMMA LeaveStep ==
    ASSUME Types, Resolved, NEW t \in Thread, Leave(t)
    PROVE  /\ threads[t].pc = "lane" /\ threads[t].product \in Product
           /\ threads[t].event = 0 /\ lanes[threads[t].product] = << >>
           /\ Now(t, "idle", Stop, 0, 0) /\ keys' = keys \ {threads[t].product}
           /\ UNCHANGED <<lanes, ready, count, outcome, sent>>
  BY DEF Leave, WithoutLane, Types, Resolved, Busy, Sending, Now, Resting

LEMMA TakeStep ==
    ASSUME Types, Resolved, NEW t \in Thread, Take(t), NEW p, p = threads[t].product
    PROVE  /\ threads[t].pc = "lane" /\ p \in Product
           /\ threads[t].event = 0 /\ lanes[p] # << >>
           /\ Len(lanes[p]) \in Nat \ {0} /\ Len(lanes'[p]) = Len(lanes[p]) - 1
           /\ \A i \in 1 .. Len(lanes[p]) - 1 : lanes'[p][i] = lanes[p][i + 1]
           /\ \A q \in Product : q # p => lanes'[q] = lanes[q]
           /\ lanes[p][1] \in Event /\ Now(t, "send", p, lanes[p][1], 0)
           /\ UNCHANGED <<keys, ready, count, outcome, sent>>
<1>1. /\ threads[t].pc = "lane" /\ p \in Product /\ threads[t].event = 0 /\ threads[t].attempt = 0
      /\ lanes[p] \in Seq(Event) /\ lanes[p] # << >> /\ lanes' = [lanes EXCEPT ![p] = Tail(lanes[p])]
      /\ threads[t] \in ThreadState /\ UNCHANGED <<keys, ready, count, outcome, sent>>
  BY DEF Take, Types, Resolved, Busy, Sending
<1>2. /\ Len(lanes[p]) \in Nat \ {0} /\ Len(Tail(lanes[p])) = Len(lanes[p]) - 1
      /\ \A i \in 1 .. Len(lanes[p]) - 1 : Tail(lanes[p])[i] = lanes[p][i + 1]
      /\ lanes[p][1] \in Event /\ Head(lanes[p]) = lanes[p][1]
  BY <1>1, QueueShrinks
<1>3. lanes'[p] = Tail(lanes[p]) /\ \A q \in Product : q # p => lanes'[q] = lanes[q]
  BY <1>1 DEF Types
<1>4. threads' = [threads EXCEPT ![t] = [threads[t] EXCEPT !.pc = "send", !.event = lanes[p][1]]]
  BY <1>2 DEF Take, Types
<1>5. Now(t, "send", p, lanes[p][1], 0)
  BY <1>1, <1>4 DEF Types, Now, ThreadState
<1> QED BY <1>1, <1>2, <1>3, <1>5

LEMMA SettleStep ==
    ASSUME Types, NEW t \in Thread, threads[t].product \in Product, NEW what \in Outcomes,
           Settle(t, what)
    PROVE  /\ Now(t, "lane", threads[t].product, 0, 0)
           /\ Told(threads[t].product, {threads[t].event}, what)
<1>1. threads[t] \in ThreadState
  BY DEF Types
<1>2. Now(t, "lane", threads[t].product, 0, 0)
  <2>1. /\ threads'[t] = [threads[t] EXCEPT !.pc = "lane", !.event = 0, !.attempt = 0]
        /\ \A u \in Thread : u # t => threads'[u] = threads[u]
    BY SettleTypes
  <2> QED BY <1>1, <2>1 DEF Now, ThreadState
<1> QED BY <1>2, RecordedEvents DEF Settle

(* A request is the last one of its event, or the event waits for another. *)
LEMMA SendStep ==
    ASSUME Types, Resolved, NEW t \in Thread, Send(t), NEW p, p = threads[t].product
    PROVE  /\ threads[t].pc = "send" /\ p \in Product /\ threads[t].event \in Event
           /\ threads[t].attempt \in 0 .. MaxRetries
           /\ sent'[p] = Append(sent[p], threads[t].event)
           /\ \A q \in Product : q # p => sent'[q] = sent[q]
           /\ \/ /\ Now(t, "lane", p, 0, 0)
                 /\ \E what \in Outcomes \ {"none"} : Told(p, {threads[t].event}, what)
              \/ /\ Now(t, "wait", p, threads[t].event, threads[t].attempt + 1) /\ outcome' = outcome
                 /\ threads[t].attempt < MaxRetries
           /\ UNCHANGED <<lanes, keys, ready, count>>
<1>1. /\ threads[t].pc = "send" /\ p \in Product /\ threads[t].event \in Event
      /\ threads[t] \in ThreadState /\ UNCHANGED <<lanes, keys, ready, count>>
      /\ threads[t].attempt \in 0 .. MaxRetries
  <2>1. threads[t] \in ThreadState
    BY DEF Types
  <2>2. threads[t].event \in 0 .. MaxEvents /\ threads[t].attempt \in 0 .. MaxRetries
    BY <2>1, ThreadStates
  <2> QED BY <2>1, <2>2 DEF Send, Resolved, Busy, Sending, Event
<1>2. sent'[p] = Append(sent[p], threads[t].event) /\ \A q \in Product : q # p => sent'[q] = sent[q]
  BY <1>1 DEF Send, Types
<1>3. CASE \E what \in Outcomes \ {"none"} : Settle(t, what)
  BY <1>1, <1>2, <1>3, SettleStep
<1>4. CASE /\ MayRetry(threads[t].attempt) /\ UNCHANGED outcome
           /\ threads' = [threads EXCEPT ![t].pc = "wait", ![t].attempt = @ + 1]
  <2>1. threads' = [threads EXCEPT ![t] = [threads[t] EXCEPT !.pc = "wait", !.attempt = @ + 1]]
    BY <1>4 DEF Types
  <2>2. Now(t, "wait", p, threads[t].event, threads[t].attempt + 1)
    BY <1>1, <2>1 DEF Types, Now, ThreadState
  <2> QED BY <1>1, <1>2, <1>4, <2>2 DEF MayRetry
<1> QED BY <1>3, <1>4 DEF Send, Outcomes

LEMMA WaitStep ==
    ASSUME Types, Resolved, NEW t \in Thread, Wait(t), NEW p, p = threads[t].product
    PROVE  /\ threads[t].pc = "wait" /\ p \in Product /\ threads[t].event \in Event
           /\ \/ Now(t, "lane", p, 0, 0) /\ Told(p, {threads[t].event}, "shutdown")
              \/ Now(t, "send", p, threads[t].event, threads[t].attempt) /\ outcome' = outcome
           /\ UNCHANGED <<lanes, keys, ready, count, sent>>
<1>1. /\ threads[t].pc = "wait" /\ p \in Product /\ threads[t].event \in Event
      /\ threads[t] \in ThreadState /\ UNCHANGED <<lanes, keys, ready, count, sent>>
  <2>1. threads[t] \in ThreadState
    BY DEF Types
  <2>2. threads[t].event \in 0 .. MaxEvents /\ threads[t].attempt \in 0 .. MaxRetries
    BY <2>1, ThreadStates
  <2> QED BY <2>1, <2>2 DEF Wait, Resolved, Busy, Sending, Event
<1>2. CASE Settle(t, "shutdown")
  BY <1>1, <1>2, SettleStep DEF Outcomes
<1>3. CASE threads' = [threads EXCEPT ![t].pc = "send"] /\ UNCHANGED outcome
  BY <1>1, <1>3 DEF Types, Now, ThreadState
<1> QED BY <1>1, <1>2, <1>3 DEF Wait

LEMMA PutStep ==
    ASSUME Types, NEW p \in Product, NEW k \in 1 .. MaxPut, Put(p, k)
    PROVE  /\ count[p] \in Nat /\ k \in Nat \ {0} /\ count[p] + k <= MaxEvents
           /\ count'[p] = count[p] + k /\ \A q \in Product : q # p => count'[q] = count[q]
           /\ UNCHANGED <<threads, sent>>
           /\ \/ /\ Told(p, count[p] + 1 .. count[p] + k, "late")
                 /\ UNCHANGED <<lanes, keys, ready>>
              \/ /\ Len(lanes[p]) \in Nat /\ Len(lanes'[p]) = Len(lanes[p]) + k
                 /\ \A i \in 1 .. Len(lanes[p]) : lanes'[p][i] = lanes[p][i]
                 /\ \A i \in 1 .. k : lanes'[p][Len(lanes[p]) + i] = count[p] + i
                 /\ \A q \in Product : q # p => lanes'[q] = lanes[q]
                 /\ keys' = keys \cup {p} /\ UNCHANGED outcome
                 /\ p \in keys => ready' = ready
                 /\ p \notin keys =>
                      /\ Len(ready) \in Nat /\ Len(ready') = Len(ready) + 1
                      /\ \A i \in 1 .. Len(ready) : ready'[i] = ready[i]
                      /\ ready'[Len(ready) + 1] = p
<1>1. /\ count[p] \in Nat /\ k \in Nat \ {0} /\ count[p] + k <= MaxEvents
      /\ count' = [count EXCEPT ![p] = @ + k] /\ UNCHANGED <<threads, sent>>
  BY DEF Put, Types
<1>2. count'[p] = count[p] + k /\ \A q \in Product : q # p => count'[q] = count[q]
  BY <1>1 DEF Types
<1>3. CASE closed
  <2>1. Recorded(p, ToSet(Fresh(p, k)), "late") /\ UNCHANGED <<lanes, keys, ready>>
    BY <1>3 DEF Put, Fresh
  <2>2. ToSet(Fresh(p, k)) = count[p] + 1 .. count[p] + k
    BY <1>1, FreshNumbers
  <2>3. Told(p, count[p] + 1 .. count[p] + k, "late")
    BY <2>1, <2>2, RecordedEvents
  <2> QED BY <1>1, <1>2, <2>1, <2>3
<1>4. CASE ~closed
  <2>1. /\ lanes' = [lanes EXCEPT ![p] = @ \o Fresh(p, k)]
        /\ keys' = keys \cup {p}
        /\ ready' = IF LaneMissing(p) THEN Append(ready, p) ELSE ready
        /\ UNCHANGED outcome
    BY <1>4 DEF Put, Fresh
  <2>2. lanes'[p] = lanes[p] \o Fresh(p, k) /\ \A q \in Product : q # p => lanes'[q] = lanes[q]
    BY <2>1 DEF Types
  <2>3. /\ Len(lanes[p]) \in Nat /\ Len(lanes'[p]) = Len(lanes[p]) + k
        /\ \A i \in 1 .. Len(lanes[p]) : lanes'[p][i] = lanes[p][i]
        /\ \A i \in 1 .. k : lanes'[p][Len(lanes[p]) + i] = count[p] + i
    <3>1. /\ Len(lanes[p]) \in Nat /\ Len(lanes[p] \o Fresh(p, k)) = Len(lanes[p]) + k
          /\ \A i \in 1 .. Len(lanes[p]) : (lanes[p] \o Fresh(p, k))[i] = lanes[p][i]
          /\ \A i \in 1 .. k : (lanes[p] \o Fresh(p, k))[Len(lanes[p]) + i] = count[p] + i
      BY <1>1, LongerLane
    <3> QED BY <2>2, <3>1
  <2>4. p \notin keys =>
          /\ Len(ready) \in Nat /\ Len(ready') = Len(ready) + 1
          /\ \A i \in 1 .. Len(ready) : ready'[i] = ready[i]
          /\ ready'[Len(ready) + 1] = p
    BY <2>1, QueueGrows DEF LaneMissing, Types, Queue
  <2>5. p \in keys => ready' = ready
    BY <2>1 DEF LaneMissing
  <2> QED BY <1>1, <1>2, <2>1, <2>2, <2>3, <2>4, <2>5
<1> QED BY <1>3, <1>4

LEMMA WaitingIsInLane ==
    ASSUME Types, NEW p \in Product, NEW n \in Event PROVE n \in ToSet(lanes[p]) <=> Waiting(p, n)
<1>1. DOMAIN lanes[p] = 1 .. Len(lanes[p])
  BY LenProperties DEF Types
<1> QED BY <1>1 DEF ToSet, Waiting

LEMMA ClearStep ==
    ASSUME Types, CloseClears
    PROVE  /\ \A p \in Product : lanes'[p] = << >> /\ Len(lanes'[p]) = 0
           /\ \A p \in Product, n \in Event :
                outcome'[p][n] = IF Waiting(p, n) THEN "shutdown" ELSE outcome[p][n]
           /\ UNCHANGED <<keys, ready, threads, count, sent>>
<1>1. \A p \in Product, n \in Event : n \in ToSet(lanes[p]) <=> Waiting(p, n)
  BY WaitingIsInLane
<1>2. \A p \in Product, n \in Event :
        outcome'[p][n] = IF n \in ToSet(lanes[p]) THEN "shutdown" ELSE outcome[p][n]
  BY DEF CloseClears
<1>3. Len(<< >>) = 0
  BY EmptySeq
<1>4. /\ \A p \in Product : lanes'[p] = << >>
      /\ UNCHANGED <<keys, ready, threads, count, sent>>
  BY DEF CloseClears, LanesCleared
<1>5. \A p \in Product, n \in Event :
        outcome'[p][n] = IF Waiting(p, n) THEN "shutdown" ELSE outcome[p][n]
  BY <1>1, <1>2, Zenon
<1> QED BY <1>3, <1>4, <1>5

-----------------------------------------------------------------------------
LEMMA ResolvedInductive == Types /\ Resolved /\ [Next]_vars => Resolved'
<1> SUFFICES ASSUME Types, Resolved, [Next]_vars PROVE Resolved'
  OBVIOUS
<1> USE DEF Resolved, Sending, Busy
<1>1. ASSUME NEW t \in Thread, Get(t) PROVE Resolved'
  BY <1>1, GetStep DEF Now
<1>2. ASSUME NEW t \in Thread, Leave(t) PROVE Resolved'
  BY <1>2, LeaveStep DEF Now
<1>3. ASSUME NEW t \in Thread, Take(t) PROVE Resolved'
  BY <1>3, TakeStep DEF Now, Event
<1>4. ASSUME NEW t \in Thread, Send(t) PROVE Resolved'
  <2>1. /\ threads[t].pc = "send" /\ threads[t].product \in Product /\ threads[t].event \in Event
        /\ \/ Now(t, "lane", threads[t].product, 0, 0)
           \/ Now(t, "wait", threads[t].product, threads[t].event, threads[t].attempt + 1)
    BY <1>4, SendStep
  <2> QED BY <2>1 DEF Now, Event
<1>5. ASSUME NEW t \in Thread, Wait(t) PROVE Resolved'
  <2>1. /\ threads[t].pc = "wait" /\ threads[t].product \in Product /\ threads[t].event \in Event
        /\ \/ Now(t, "lane", threads[t].product, 0, 0)
           \/ Now(t, "send", threads[t].product, threads[t].event, threads[t].attempt)
    BY <1>5, WaitStep
  <2> QED BY <2>1 DEF Now, Event
<1>6. CASE Producer \/ Closer \/ UNCHANGED vars
  <2>1. UNCHANGED threads
    BY <1>6 DEF Producer, Put, Closer, Close, CloseClears, CloseStops, vars
  <2> QED BY <2>1
<1> QED BY <1>1, <1>2, <1>3, <1>4, <1>5, <1>6 DEF Next, Work

(* Threads that keep their lanes, and a queue that keeps its turns.        *)
LEMMA HandsKept ==
    ASSUME Hands, \A t \in Thread, p \in Product : Has(t, p)' <=> Has(t, p),
           UNCHANGED <<keys, ready>>, \A p \in Product : lanes'[p] # << >> => lanes[p] # << >>
    PROVE  Hands'
  BY DEF Hands, Has

LEMMA HandsInductive == Types /\ Resolved /\ Hands /\ [Next]_vars => Hands'
<1> SUFFICES ASSUME Types, Resolved, Hands, [Next]_vars PROVE Hands'
  OBVIOUS
<1>1. ASSUME NEW p \in Product, NEW k \in 1 .. MaxPut, Put(p, k) PROVE Hands'
  <2>1. CASE UNCHANGED <<lanes, keys, ready, threads>>
    BY <2>1 DEF Hands, Has
  <2>2. CASE /\ keys' = keys \cup {p} /\ UNCHANGED threads
             /\ \A q \in Product : q # p => lanes'[q] = lanes[q]
             /\ p \in keys => ready' = ready
             /\ p \notin keys =>
                  /\ Len(ready) \in Nat /\ Len(ready') = Len(ready) + 1
                  /\ \A i \in 1 .. Len(ready) : ready'[i] = ready[i]
                  /\ ready'[Len(ready) + 1] = p
    <3>1. CASE p \in keys
      BY <2>2, <3>1 DEF Hands, Has
    <3>2. CASE p \notin keys
      BY <2>2, <3>2 DEF Hands, Has
    <3> QED BY <3>1, <3>2
  <2> QED BY <1>1, <2>1, <2>2, PutStep
<1>2. ASSUME NEW t \in Thread, Get(t) PROVE Hands'
  <2>1. /\ Len(ready) \in Nat \ {0} /\ Len(ready') = Len(ready) - 1
        /\ \A i \in 1 .. Len(ready') : ready'[i] = ready[i + 1] /\ i + 1 \in 1 .. Len(ready)
        /\ 1 \in 1 .. Len(ready) /\ keys' = keys /\ lanes' = lanes
    BY <1>2, GetStep
  <2>2. ASSUME NEW p \in Product
        PROVE  (\E i \in 1 .. Len(ready) : ready[i] = p)
                 <=> ready[1] = p \/ \E i \in 1 .. Len(ready') : ready'[i] = p
    <3>1. ASSUME NEW i \in 1 .. Len(ready), ready[i] = p, ready[1] # p
          PROVE  \E j \in 1 .. Len(ready') : ready'[j] = p
      <4>1. i - 1 \in 1 .. Len(ready') /\ ready'[i - 1] = ready[i]
        BY <2>1, <3>1
      <4> QED BY <3>1, <4>1
    <3> QED BY <2>1, <3>1
  <2>3. \A i, j \in 1 .. Len(ready') : ready'[i] = ready'[j] /\ ready'[i] \in Product => i = j
    <3> SUFFICES ASSUME NEW i \in 1 .. Len(ready'), NEW j \in 1 .. Len(ready'),
                        ready'[i] = ready'[j], ready'[i] \in Product
                 PROVE  i = j
      OBVIOUS
    <3>1. i + 1 = j + 1
      BY <2>1 DEF Hands
    <3> QED BY <3>1, <2>1
  <2>4. \A i \in 1 .. Len(ready') : ready[1] \in Product => ready'[i] # ready[1]
    <3> SUFFICES ASSUME NEW i \in 1 .. Len(ready'), ready[1] \in Product, ready'[i] = ready[1]
                 PROVE  FALSE
      OBVIOUS
    <3>1. i + 1 = 1
      BY <2>1 DEF Hands
    <3> QED BY <3>1, <2>1
  <2>5. /\ threads[t].pc = "idle" /\ \A u \in Thread : u # t => threads'[u] = threads[u]
        /\ ready[1] \in Product \cup {Stop}
        /\ ready[1] = Stop => threads'[t].pc = "exit"
        /\ ready[1] # Stop => threads'[t].pc = "lane" /\ threads'[t].product = ready[1]
    BY <1>2, GetStep DEF Now
  <2>6. \A u \in Thread, p \in Product : Has(u, p)' <=> Has(u, p) \/ (u = t /\ p = ready[1])
    BY <2>5 DEF Has, Busy
  <2>7. \A u, v \in Thread, p \in Product : Has(u, p)' /\ Has(v, p)' => u = v
    BY <2>1, <2>6 DEF Hands
  <2>8. \A p \in Product : \A u \in Thread : \A i \in 1 .. Len(ready') : Has(u, p)' => ready'[i] # p
    BY <2>1, <2>4, <2>6 DEF Hands
  <2>9. \A p \in Product : p \in keys' <=> \/ \E u \in Thread : Has(u, p)'
                                           \/ \E i \in 1 .. Len(ready') : ready'[i] = p
    BY <2>1, <2>2, <2>6 DEF Hands
  <2> QED BY <2>1, <2>3, <2>7, <2>8, <2>9 DEF Hands
<1>3. ASSUME NEW t \in Thread, Leave(t) PROVE Hands'
  BY <1>3, LeaveStep DEF Hands, Has, Now, Busy
<1>4. ASSUME NEW t \in Thread, Take(t) PROVE Hands'
  <2>1. \A u \in Thread, p \in Product : Has(u, p)' <=> Has(u, p)
    BY <1>4, TakeStep DEF Has, Now, Busy
  <2>2. UNCHANGED <<keys, ready>> /\ \A p \in Product : lanes'[p] # << >> => lanes[p] # << >>
    BY <1>4, TakeStep
  <2> QED BY <2>1, <2>2, HandsKept
<1>5. ASSUME NEW t \in Thread, Send(t) PROVE Hands'
  <2>1. /\ threads[t].pc = "send" /\ threads'[t].pc \in Busy
        /\ threads'[t].product = threads[t].product
        /\ \A u \in Thread : u # t => threads'[u] = threads[u]
    BY <1>5, SendStep DEF Now, Busy
  <2>2. \A u \in Thread, p \in Product : Has(u, p)' <=> Has(u, p)
    BY <2>1 DEF Has, Busy
  <2>3. UNCHANGED <<lanes, keys, ready>>
    BY <1>5, SendStep
  <2> QED BY <2>2, <2>3, HandsKept
<1>6. ASSUME NEW t \in Thread, Wait(t) PROVE Hands'
  <2>1. /\ threads[t].pc = "wait" /\ threads'[t].pc \in Busy
        /\ threads'[t].product = threads[t].product
        /\ \A u \in Thread : u # t => threads'[u] = threads[u]
        /\ UNCHANGED <<lanes, keys, ready>>
    BY <1>6, WaitStep DEF Now, Busy
  <2>2. \A u \in Thread, p \in Product : Has(u, p)' <=> Has(u, p)
    BY <2>1 DEF Has, Busy
  <2> QED BY <2>1, <2>2, HandsKept
<1>7. ASSUME Close \/ UNCHANGED vars PROVE Hands'
  BY <1>7, HandsKept DEF Close, vars, Has
<1>8. ASSUME CloseClears PROVE Hands'
  BY <1>8, ClearStep, HandsKept DEF Has
<1>9. ASSUME CloseStops PROVE Hands'
  <2>1. /\ Len(ready) \in Nat /\ Sentinels \in Nat /\ Len(ready') = Len(ready) + Sentinels
        /\ \A i \in 1 .. Len(ready) : ready'[i] = ready[i]
        /\ \A i \in Len(ready) + 1 .. Len(ready) + Sentinels : ready'[i] = Stop
        /\ UNCHANGED <<lanes, keys, threads>>
    BY <1>9, QueueStops DEF CloseStops, SentinelSeq, Types, Queue
  <2> QED BY <2>1 DEF Hands, Has
<1> QED BY <1>1, <1>2, <1>3, <1>4, <1>5, <1>6, <1>7, <1>8, <1>9
        DEF Next, Producer, Work, Closer

-----------------------------------------------------------------------------
LEMMA EventRange ==
    ASSUME Types, NEW t \in Thread
    PROVE  threads[t].event \in 0 .. MaxEvents /\ threads[t].attempt \in 0 .. MaxRetries
  BY DEF Types, ThreadState

LEMMA Numbers ==
    ASSUME Types, NEW p \in Product
    PROVE  /\ Len(lanes[p]) \in Nat /\ Len(sent[p]) \in Nat /\ count[p] \in Nat
           /\ \A i \in 1 .. Len(lanes[p]) : lanes[p][i] \in Event
           /\ \A i \in 1 .. Len(sent[p]) : sent[p][i] \in Event
           /\ \A t \in Thread : threads[t].event \in Nat
<1>1. lanes[p] \in Seq(Event) /\ sent[p] \in Seq(Event) /\ count[p] \in Nat
  BY DEF Types
<1>2. \A t \in Thread : threads[t].event \in Nat
  BY EventRange
<1> QED BY <1>1, <1>2, LenProperties, ElementOfSeq

(* The lanes and the events of the threads stay, for each product.         *)
LEMMA OrderedKept ==
    ASSUME Ordered, UNCHANGED lanes,
           \A t \in Thread, p \in Product : Has(t, p)' => Has(t, p),
           \A t \in Thread : threads'[t].event \in {0, threads[t].event},
           Types
    PROVE  Ordered'
<1>1. ASSUME NEW p \in Product, NEW t \in Thread, NEW i \in 1 .. Len(lanes[p]), Has(t, p)'
      PROVE  threads'[t].event < lanes[p][i]
  <2>1. threads'[t].event \in {0, threads[t].event} /\ threads[t].event < lanes[p][i]
    BY <1>1 DEF Ordered
  <2>2. threads[t].event \in Nat /\ lanes[p][i] \in Nat
    BY Numbers DEF Event
  <2> QED BY <2>1, <2>2
<1> QED BY <1>1 DEF Ordered

LEMMA OrderedInductive == Types /\ Resolved /\ Hands /\ Ordered /\ Events /\ [Next]_vars => Ordered'
<1> SUFFICES ASSUME Types, Resolved, Hands, Ordered, Events, [Next]_vars PROVE Ordered'
  OBVIOUS
<1>1. ASSUME NEW p \in Product, NEW k \in 1 .. MaxPut, Put(p, k) PROVE Ordered'
  <2>1. CASE UNCHANGED <<lanes, threads>>
    BY <2>1 DEF Ordered, Has
  <2>2. CASE /\ Len(lanes'[p]) = Len(lanes[p]) + k /\ UNCHANGED threads
             /\ \A i \in 1 .. Len(lanes[p]) : lanes'[p][i] = lanes[p][i]
             /\ \A i \in 1 .. k : lanes'[p][Len(lanes[p]) + i] = count[p] + i
             /\ \A q \in Product : q # p => lanes'[q] = lanes[q]
    <3>1. ASSUME NEW i \in 1 .. Len(lanes'[p])
          PROVE  \/ i \in 1 .. Len(lanes[p]) /\ lanes'[p][i] = lanes[p][i] /\ lanes[p][i] <= count[p]
                                             /\ lanes[p][i] \in Nat
                 \/ /\ i - Len(lanes[p]) \in 1 .. k
                    /\ lanes'[p][i] = count[p] + (i - Len(lanes[p]))
      <4>1. CASE i \in 1 .. Len(lanes[p])
        <5>1. lanes[p][i] \in Event /\ Waiting(p, lanes[p][i])
          BY <4>1, Numbers DEF Waiting
        <5> QED BY <2>2, <4>1, <5>1 DEF Events, Event
      <4>2. CASE i \notin 1 .. Len(lanes[p])
        <5>1. Len(lanes[p]) \in Nat /\ i \in Nat /\ k \in Nat /\ i > Len(lanes[p]) /\ i <= Len(lanes[p]) + k
          BY <2>2, <4>2, Numbers
        <5>2. i - Len(lanes[p]) \in 1 .. k /\ Len(lanes[p]) + (i - Len(lanes[p])) = i
          BY <5>1
        <5> QED BY <2>2, <5>2
      <4> QED BY <4>1, <4>2
    <3>2. Len(lanes[p]) \in Nat /\ count[p] \in Nat
      BY Numbers
    <3>3. ASSUME NEW i \in 1 .. Len(lanes'[p]), NEW j \in 1 .. Len(lanes'[p]), i < j
          PROVE  lanes'[p][i] < lanes'[p][j]
      <4>1. CASE i \in 1 .. Len(lanes[p]) /\ j \in 1 .. Len(lanes[p])
        BY <2>2, <3>3, <4>1 DEF Ordered
      <4>2. CASE j \notin 1 .. Len(lanes[p])
        <5>1. j - Len(lanes[p]) \in 1 .. k /\ lanes'[p][j] = count[p] + (j - Len(lanes[p]))
          BY <3>1, <4>2
        <5>2. \/ lanes'[p][i] <= count[p] /\ lanes'[p][i] \in Nat
              \/ lanes'[p][i] = count[p] + (i - Len(lanes[p]))
          BY <3>1
        <5> QED BY <3>2, <3>3, <5>1, <5>2
      <4> QED BY <3>2, <3>3, <4>1, <4>2
    <3>4. ASSUME NEW t \in Thread, Has(t, p), NEW i \in 1 .. Len(lanes'[p])
          PROVE  threads[t].event < lanes'[p][i]
      <4>1. threads[t].event <= count[p]
        <5>1. CASE threads[t].event = 0
          BY <3>2, <5>1
        <5>2. CASE threads[t].event # 0
          <6>1. Sending(t) /\ threads[t].event \in Event
            BY <5>2, EventRange DEF Resolved, Event
          <6> QED BY <3>4, <6>1 DEF Events, Held, Has
        <5> QED BY <5>1, <5>2
      <4>2. threads[t].event \in Nat
        BY Numbers
      <4> QED BY <3>1, <3>2, <3>4, <4>1, <4>2 DEF Ordered
    <3>5. \A q \in Product \ {p} : lanes'[q] = lanes[q]
      BY <2>2
    <3>6. \A t \in Thread, q \in Product : Has(t, q)' <=> Has(t, q)
      BY <2>2 DEF Has
    <3> SUFFICES ASSUME NEW q \in Product
                 PROVE  /\ \A i, j \in 1 .. Len(lanes'[q]) : i < j => lanes'[q][i] < lanes'[q][j]
                        /\ \A t \in Thread, i \in 1 .. Len(lanes'[q]) :
                             Has(t, q) => threads[t].event < lanes'[q][i]
      BY <2>2, <3>6 DEF Ordered
    <3>7. CASE q = p
      BY <3>3, <3>4, <3>7
    <3>8. CASE q # p
      BY <3>5, <3>8 DEF Ordered
    <3> QED BY <3>7, <3>8
  <2> QED BY <1>1, <2>1, <2>2, PutStep
<1>2. ASSUME NEW t \in Thread, Get(t) PROVE Ordered'
  <2>1. /\ \A u \in Thread : u # t => threads'[u] = threads[u]
        /\ threads'[t].event = 0 /\ lanes' = lanes
        /\ threads'[t].product # Stop => threads'[t].product = ready[1]
    BY <1>2, GetStep DEF Now
  <2>2. ASSUME NEW p \in Product, NEW u \in Thread, NEW i \in 1 .. Len(lanes[p]), Has(u, p)'
        PROVE  threads'[u].event < lanes[p][i]
    <3>1. lanes[p][i] \in Event
      BY Numbers
    <3>2. CASE u = t
      BY <2>1, <3>1, <3>2 DEF Event
    <3>3. CASE u # t
      BY <2>1, <2>2, <3>3 DEF Ordered, Has
    <3> QED BY <3>2, <3>3
  <2> QED BY <2>1, <2>2 DEF Ordered
<1>3. ASSUME NEW t \in Thread, Leave(t) PROVE Ordered'
  <2>1. /\ \A u \in Thread : u # t => threads'[u] = threads[u]
        /\ threads'[t].pc = "idle" /\ lanes' = lanes
    BY <1>3, LeaveStep DEF Now
  <2> QED BY <2>1 DEF Ordered, Has, Busy
<1>4. ASSUME NEW t \in Thread, Take(t) PROVE Ordered'
  <2>0. PICK p \in Product : p = threads[t].product
    BY <1>4, TakeStep
  <2>1. /\ threads[t].pc = "lane"
        /\ Len(lanes[p]) \in Nat \ {0} /\ Len(lanes'[p]) = Len(lanes[p]) - 1
        /\ \A i \in 1 .. Len(lanes[p]) - 1 : lanes'[p][i] = lanes[p][i + 1]
        /\ \A q \in Product : q # p => lanes'[q] = lanes[q]
        /\ threads'[t].event = lanes[p][1] /\ threads'[t].product = p
        /\ \A u \in Thread : u # t => threads'[u] = threads[u]
    BY <1>4, <2>0, TakeStep DEF Now
  <2>2. \A i \in 1 .. Len(lanes'[p]) : i + 1 \in 1 .. Len(lanes[p]) /\ lanes'[p][i] = lanes[p][i + 1]
    BY <2>1
  <2>3. \A i, j \in 1 .. Len(lanes'[p]) : i < j => lanes'[p][i] < lanes'[p][j]
    BY <2>1, <2>2 DEF Ordered
  <2>4. ASSUME NEW i \in 1 .. Len(lanes'[p]) PROVE lanes[p][1] < lanes'[p][i]
    BY <2>1, <2>2 DEF Ordered
  <2>5. \A u \in Thread : Has(u, p)' => u = t
    BY <2>0, <2>1 DEF Hands, Has, Busy
  <2>6. ASSUME NEW u \in Thread, NEW q \in Product, q # p, Has(u, q)' PROVE Has(u, q) /\ u # t
    BY <2>1, <2>6 DEF Has
  <2> SUFFICES ASSUME NEW q \in Product
               PROVE  /\ \A i, j \in 1 .. Len(lanes'[q]) : i < j => lanes'[q][i] < lanes'[q][j]
                      /\ \A u \in Thread, i \in 1 .. Len(lanes'[q]) :
                           Has(u, q)' => threads'[u].event < lanes'[q][i]
    BY DEF Ordered
  <2>7. CASE q = p
    BY <2>1, <2>3, <2>4, <2>5, <2>7
  <2>8. CASE q # p
    BY <2>1, <2>6, <2>8 DEF Ordered
  <2> QED BY <2>7, <2>8
<1>5. ASSUME NEW t \in Thread, Send(t) \/ Wait(t) PROVE Ordered'
  <2>1. /\ \A u \in Thread : u # t => threads'[u] = threads[u]
        /\ threads'[t].event \in {0, threads[t].event} /\ lanes' = lanes
        /\ threads'[t].product = threads[t].product /\ threads[t].pc \in Busy
    BY <1>5, SendStep, WaitStep DEF Now, Busy
  <2>2. \A u \in Thread : threads[u].event \in Nat
    BY EventRange
  <2> QED BY <2>1, <2>2, OrderedKept DEF Has
<1>6. CASE Close \/ CloseStops \/ UNCHANGED vars
  BY <1>6 DEF Close, CloseStops, vars, Ordered, Has
<1>7. ASSUME CloseClears PROVE Ordered'
  BY <1>7, ClearStep DEF Ordered
<1> QED BY <1>1, <1>2, <1>3, <1>4, <1>5, <1>6, <1>7 DEF Next, Producer, Work, Closer

-----------------------------------------------------------------------------
(* Where an event is does not change, nor what is on record of it.         *)
LEMMA EventsKept ==
    ASSUME Events, UNCHANGED count,
           \A p \in Product, n \in Event : /\ Waiting(p, n)' \/ Held(p, n)' <=> Waiting(p, n) \/ Held(p, n)
                                           /\ outcome'[p][n] = outcome[p][n]
    PROVE  Events'
  BY DEF Events

(* The event of a thread is over: it is on record, and with no thread.     *)
LEMMA EventsSettled ==
    ASSUME Events, Types, Hands, Ordered, UNCHANGED <<lanes, count>>, NEW t \in Thread, NEW p \in Product,
           NEW what \in Outcomes \ {"none"}, threads[t].pc \in {"send", "wait"}, threads[t].product = p,
           threads[t].event \in Event, Now(t, "lane", p, 0, 0), Told(p, {threads[t].event}, what)
    PROVE  Events'
<1> DEFINE e == threads[t].event
<1>1. \A u \in Thread : u # t => threads'[u] = threads[u]
  BY DEF Now
<1>2. threads'[t].pc = "lane"
  BY DEF Now
<1>3. Has(t, p)
  BY DEF Has, Busy
<1>4. ASSUME NEW u \in Thread, Has(u, p) PROVE u = t
  BY <1>3, <1>4 DEF Hands
<1>5. ASSUME NEW q \in Product, NEW n \in Event
      PROVE  /\ Waiting(q, n)' <=> Waiting(q, n)
             /\ Held(q, n)' <=> Held(q, n) /\ ~(q = p /\ n = e)
             /\ q = p /\ n = e => Held(q, n) /\ ~Waiting(q, n)
  <2>1. Waiting(q, n)' <=> Waiting(q, n)
    BY DEF Waiting
  <2>2. ASSUME Held(q, n)' PROVE Held(q, n) /\ ~(q = p /\ n = e)
    <3>1. PICK u \in Thread : Sending(u)' /\ threads'[u].product = q /\ threads'[u].event = n
      BY <2>2 DEF Held
    <3>2. u # t
      BY <1>2, <3>1 DEF Sending
    <3>3. Sending(u) /\ threads[u].product = q /\ threads[u].event = n
      BY <1>1, <3>1, <3>2 DEF Sending
    <3>4. q # p
      BY <1>4, <3>2, <3>3 DEF Has, Busy, Sending
    <3> QED BY <3>3, <3>4 DEF Held
  <2>3. ASSUME Held(q, n), ~(q = p /\ n = e) PROVE Held(q, n)'
    <3>1. PICK u \in Thread : Sending(u) /\ threads[u].product = q /\ threads[u].event = n
      BY <2>3 DEF Held
    <3>2. u # t
      BY <2>3, <3>1
    <3> QED BY <1>1, <3>1, <3>2 DEF Held, Sending
  <2>4. ASSUME q = p, n = e PROVE Held(q, n) /\ ~Waiting(q, n)
    <3>1. Held(q, n)
      BY <2>4 DEF Held, Sending
    <3>2. ASSUME NEW i \in 1 .. Len(lanes[p]), lanes[p][i] = e PROVE FALSE
      <4>1. e < lanes[p][i] /\ e \in Nat
        BY <1>3, Numbers DEF Ordered
      <4> QED BY <3>2, <4>1
    <3> QED BY <2>4, <3>1, <3>2 DEF Waiting
  <2> QED BY <2>1, <2>2, <2>3, <2>4
<1>6. ASSUME NEW q \in Product, NEW n \in Event
      PROVE  outcome'[q][n] = IF q = p /\ n = e THEN what ELSE outcome[q][n]
  BY DEF Told
<1> HIDE DEF e
<1> SUFFICES ASSUME NEW q \in Product, NEW n \in Event
             PROVE  /\ Waiting(q, n)' \/ Held(q, n)' => n <= count[q] /\ outcome'[q][n] = "none"
                    /\ n <= count[q] => Waiting(q, n)' \/ Held(q, n)' \/ outcome'[q][n] # "none"
                    /\ n > count[q] => outcome'[q][n] = "none"
  BY DEF Events
<1>7. CASE q = p /\ n = e
  <2>1. n <= count[q] /\ count[q] \in Nat /\ n \in Nat
    BY <1>5, <1>7, Numbers DEF Events, Event
  <2> QED BY <1>5, <1>6, <1>7, <2>1
<1>8. CASE ~(q = p /\ n = e)
  BY <1>5, <1>6, <1>8 DEF Events
<1> QED BY <1>7, <1>8

LEMMA WaitingNotHeld ==
    ASSUME Types, Ordered, NEW p \in Product, NEW n \in Event, Waiting(p, n) PROVE ~Held(p, n)
<1>1. ASSUME Held(p, n) PROVE FALSE
  <2>1. PICK t \in Thread : Sending(t) /\ threads[t].product = p /\ threads[t].event = n
    BY <1>1 DEF Held
  <2>2. PICK i \in 1 .. Len(lanes[p]) : lanes[p][i] = n
    BY DEF Waiting
  <2>3. n < lanes[p][i] /\ n \in Nat
    BY <2>1 DEF Ordered, Has, Busy, Sending, Event
  <2> QED BY <2>2, <2>3
<1> QED BY <1>1

LEMMA EventsInductive ==
    Types /\ Resolved /\ Hands /\ Ordered /\ Events /\ [Next]_vars => Events'
<1> SUFFICES ASSUME Types, Resolved, Hands, Ordered, Events, [Next]_vars PROVE Events'
  OBVIOUS
<1>1. ASSUME NEW p \in Product, NEW k \in 1 .. MaxPut, Put(p, k) PROVE Events'
  <2>1. /\ count[p] \in Nat /\ k \in Nat \ {0} /\ count[p] + k <= MaxEvents
        /\ count'[p] = count[p] + k /\ \A q \in Product : q # p => count'[q] = count[q]
        /\ \A q \in Product, n \in Event : Held(q, n)' <=> Held(q, n)
    BY <1>1, PutStep DEF Held, Sending
  <2>2. CASE Told(p, count[p] + 1 .. count[p] + k, "late") /\ UNCHANGED lanes
    <3>1. \A q \in Product, n \in Event : Waiting(q, n)' <=> Waiting(q, n)
      BY <2>2 DEF Waiting
    <3>2. \A q \in Product, n \in Event :
            outcome'[q][n] = IF q = p /\ n \in count[p] + 1 .. count[p] + k THEN "late" ELSE outcome[q][n]
      BY <2>2 DEF Told
    <3> SUFFICES ASSUME NEW q \in Product, NEW n \in Event
                 PROVE  /\ Waiting(q, n)' \/ Held(q, n)' => n <= count'[q] /\ outcome'[q][n] = "none"
                        /\ n <= count'[q] => Waiting(q, n)' \/ Held(q, n)' \/ outcome'[q][n] # "none"
                        /\ n > count'[q] => outcome'[q][n] = "none"
      BY DEF Events
    <3>3. CASE q # p
      BY <2>1, <3>1, <3>2, <3>3 DEF Events
    <3>4. CASE q = p
      BY <2>1, <3>1, <3>2, <3>4 DEF Events, Event
    <3> QED BY <3>3, <3>4
  <2>3. CASE /\ Len(lanes[p]) \in Nat /\ Len(lanes'[p]) = Len(lanes[p]) + k
             /\ \A i \in 1 .. Len(lanes[p]) : lanes'[p][i] = lanes[p][i]
             /\ \A i \in 1 .. k : lanes'[p][Len(lanes[p]) + i] = count[p] + i
             /\ \A q \in Product : q # p => lanes'[q] = lanes[q]
             /\ UNCHANGED outcome
    <3>1. ASSUME NEW n \in Event
          PROVE  Waiting(p, n)' <=> Waiting(p, n) \/ n \in count[p] + 1 .. count[p] + k
      <4>1. ASSUME Waiting(p, n)' PROVE Waiting(p, n) \/ n \in count[p] + 1 .. count[p] + k
        <5>1. PICK i \in 1 .. Len(lanes'[p]) : lanes'[p][i] = n
          BY <4>1 DEF Waiting
        <5>2. CASE i \in 1 .. Len(lanes[p])
          BY <2>3, <5>1, <5>2 DEF Waiting
        <5>3. CASE i \notin 1 .. Len(lanes[p])
          <6>1. i - Len(lanes[p]) \in 1 .. k /\ i = Len(lanes[p]) + (i - Len(lanes[p]))
            BY <2>1, <2>3, <5>1, <5>3
          <6>2. PICK j \in 1 .. k : i = Len(lanes[p]) + j
            BY <6>1
          <6>3. n = count[p] + j
            BY <2>3, <5>1, <6>2
          <6>4. count[p] \in Nat /\ k \in Nat
            BY <2>1
          <6>5. n \in count[p] + 1 .. count[p] + k
            BY <6>2, <6>3, <6>4
          <6> QED BY <6>5
        <5> QED BY <5>2, <5>3
      <4>2. ASSUME Waiting(p, n) PROVE Waiting(p, n)'
        <5>1. PICK i \in 1 .. Len(lanes[p]) : lanes[p][i] = n
          BY <4>2 DEF Waiting
        <5>2. i \in 1 .. Len(lanes'[p]) /\ lanes'[p][i] = n
          BY <2>1, <2>3, <5>1
        <5> QED BY <5>2 DEF Waiting
      <4>3. ASSUME n \in count[p] + 1 .. count[p] + k PROVE Waiting(p, n)'
        <5>1. n - count[p] \in 1 .. k /\ count[p] + (n - count[p]) = n
          BY <2>1, <4>3
        <5>2. lanes'[p][Len(lanes[p]) + (n - count[p])] = n
          BY <2>3, <5>1
        <5>3. Len(lanes[p]) + (n - count[p]) \in 1 .. Len(lanes'[p])
          BY <2>1, <2>3, <5>1
        <5> QED BY <5>2, <5>3 DEF Waiting
      <4> QED BY <4>1, <4>2, <4>3
    <3>2. \A q \in Product, n \in Event : q # p => (Waiting(q, n)' <=> Waiting(q, n))
      BY <2>3 DEF Waiting
    <3> SUFFICES ASSUME NEW q \in Product, NEW n \in Event
                 PROVE  /\ Waiting(q, n)' \/ Held(q, n)' => n <= count'[q] /\ outcome'[q][n] = "none"
                        /\ n <= count'[q] => Waiting(q, n)' \/ Held(q, n)' \/ outcome'[q][n] # "none"
                        /\ n > count'[q] => outcome'[q][n] = "none"
      BY DEF Events
    <3>3. CASE q # p
      BY <2>1, <2>3, <3>2, <3>3 DEF Events
    <3>4. CASE q = p
      BY <2>1, <2>3, <3>1, <3>4 DEF Events, Event
    <3> QED BY <3>3, <3>4
  <2> QED BY <1>1, <2>2, <2>3, PutStep
<1>2. ASSUME NEW t \in Thread, Get(t) \/ Leave(t) PROVE Events'
  <2>1. /\ ~Sending(t) /\ ~Sending(t)' /\ \A u \in Thread : u # t => threads'[u] = threads[u]
        /\ UNCHANGED <<lanes, count, outcome>>
    BY <1>2, GetStep, LeaveStep DEF Now, Sending
  <2>2. \A p \in Product, n \in Event : (Held(p, n)' <=> Held(p, n)) /\ (Waiting(p, n)' <=> Waiting(p, n))
    BY <2>1 DEF Held, Sending, Waiting
  <2> QED BY <2>1, <2>2, EventsKept
<1>3. ASSUME NEW t \in Thread, Take(t) PROVE Events'
  <2>0. PICK p \in Product : p = threads[t].product
    BY <1>3, TakeStep
  <2>1. /\ threads[t].pc = "lane"
        /\ Len(lanes[p]) \in Nat \ {0} /\ Len(lanes'[p]) = Len(lanes[p]) - 1
        /\ \A i \in 1 .. Len(lanes[p]) - 1 : lanes'[p][i] = lanes[p][i + 1]
        /\ \A q \in Product : q # p => lanes'[q] = lanes[q]
        /\ threads'[t].pc = "send" /\ threads'[t].event = lanes[p][1] /\ threads'[t].product = p
        /\ \A u \in Thread : u # t => threads'[u] = threads[u]
        /\ UNCHANGED <<count, outcome>>
    BY <1>3, <2>0, TakeStep DEF Now
  <2>2. ASSUME NEW q \in Product, NEW n \in Event
        PROVE  Held(q, n)' <=> Held(q, n) \/ (q = p /\ n = lanes[p][1])
    BY <2>1 DEF Held, Sending
  <2>3. ASSUME NEW n \in Event
        PROVE  Waiting(p, n)' \/ n = lanes[p][1] <=> Waiting(p, n)
    <3>1. ASSUME Waiting(p, n), n # lanes[p][1] PROVE Waiting(p, n)'
      <4>1. PICK i \in 1 .. Len(lanes[p]) : lanes[p][i] = n
        BY <3>1 DEF Waiting
      <4>2. i - 1 \in 1 .. Len(lanes[p]) - 1 /\ (i - 1) + 1 = i
        BY <2>1, <3>1, <4>1
      <4>3. lanes'[p][i - 1] = n
        BY <2>1, <4>1, <4>2
      <4> QED BY <2>1, <4>2, <4>3 DEF Waiting
    <3>2. ASSUME Waiting(p, n)' PROVE Waiting(p, n)
      <4>1. PICK i \in 1 .. Len(lanes'[p]) : lanes'[p][i] = n
        BY <3>2 DEF Waiting
      <4>2. i + 1 \in 1 .. Len(lanes[p]) /\ lanes[p][i + 1] = n
        BY <2>1, <4>1
      <4> QED BY <4>2 DEF Waiting
    <3>3. ASSUME n = lanes[p][1] PROVE Waiting(p, n)
      <4>1. 1 \in 1 .. Len(lanes[p])
        BY <2>1
      <4> QED BY <3>3, <4>1 DEF Waiting
    <3> QED BY <3>1, <3>2, <3>3
  <2>4. \A q \in Product, n \in Event : q # p => (Waiting(q, n)' <=> Waiting(q, n))
    BY <2>1 DEF Waiting
  <2>5. ASSUME NEW q \in Product, NEW n \in Event
        PROVE  Waiting(q, n)' \/ Held(q, n)' <=> Waiting(q, n) \/ Held(q, n)
    BY <2>2, <2>3, <2>4
  <2> QED BY <2>1, <2>5, EventsKept
<1>4. ASSUME NEW t \in Thread, Send(t) \/ Wait(t) PROVE Events'
  <2>0. PICK p \in Product : p = threads[t].product
    <3>1. CASE Send(t)
      BY <3>1, SendStep
    <3>2. CASE Wait(t)
      BY <3>2, WaitStep
    <3> QED BY <1>4, <3>1, <3>2
  <2>1. /\ threads[t].pc \in {"send", "wait"} /\ threads[t].event \in Event /\ UNCHANGED <<lanes, count>>
        /\ \/ /\ Now(t, "lane", p, 0, 0)
              /\ \E what \in Outcomes \ {"none"} : Told(p, {threads[t].event}, what)
           \/ /\ \E pc \in {"send", "wait"}, m \in Nat : Now(t, pc, p, threads[t].event, m)
              /\ outcome' = outcome
    <3>1. threads[t].attempt \in 0 .. MaxRetries
      BY EventRange
    <3>2. "shutdown" \in Outcomes \ {"none"} /\ threads[t].attempt + 1 \in Nat
      BY <3>1 DEF Outcomes
    <3>3. CASE Send(t)
      <4>1. /\ threads[t].pc = "send" /\ threads[t].event \in Event /\ UNCHANGED <<lanes, count>>
            /\ \/ /\ Now(t, "lane", p, 0, 0)
                  /\ \E what \in Outcomes \ {"none"} : Told(p, {threads[t].event}, what)
               \/ Now(t, "wait", p, threads[t].event, threads[t].attempt + 1) /\ outcome' = outcome
        BY <2>0, <3>3, SendStep
      <4> QED BY <3>2, <4>1
    <3>4. CASE Wait(t)
      <4>1. /\ threads[t].pc = "wait" /\ threads[t].event \in Event /\ UNCHANGED <<lanes, count>>
            /\ \/ Now(t, "lane", p, 0, 0) /\ Told(p, {threads[t].event}, "shutdown")
               \/ Now(t, "send", p, threads[t].event, threads[t].attempt) /\ outcome' = outcome
        BY <2>0, <3>4, WaitStep
      <4> QED BY <3>1, <3>2, <4>1
    <3> QED BY <1>4, <3>3, <3>4
  <2>2. CASE /\ Now(t, "lane", p, 0, 0)
             /\ \E what \in Outcomes \ {"none"} : Told(p, {threads[t].event}, what)
    BY <2>0, <2>1, <2>2, EventsSettled
  <2>3. CASE /\ \E pc \in {"send", "wait"}, m \in Nat : Now(t, pc, p, threads[t].event, m)
             /\ outcome' = outcome
    <3>1. /\ Sending(t) /\ Sending(t)' /\ threads'[t].event = threads[t].event
          /\ threads'[t].product = threads[t].product
          /\ \A u \in Thread : u # t => threads'[u] = threads[u]
      BY <2>0, <2>1, <2>3 DEF Now, Sending
    <3>2. \A q \in Product, n \in Event : (Held(q, n)' <=> Held(q, n)) /\ (Waiting(q, n)' <=> Waiting(q, n))
      BY <2>1, <3>1 DEF Held, Sending, Waiting
    <3> QED BY <2>1, <2>3, <3>2, EventsKept
  <2> QED BY <2>1, <2>2, <2>3
<1>5. CASE Close \/ CloseStops \/ UNCHANGED vars
  BY <1>5 DEF Close, CloseStops, vars, Events, Waiting, Held, Sending
<1>6. ASSUME CloseClears PROVE Events'
  <2>1. /\ \A p \in Product, n \in Event : ~Waiting(p, n)' /\ (Held(p, n)' <=> Held(p, n))
        /\ \A p \in Product, n \in Event :
             outcome'[p][n] = IF Waiting(p, n) THEN "shutdown" ELSE outcome[p][n]
        /\ count' = count
    BY <1>6, ClearStep DEF Waiting, Held, Sending
  <2>2. ASSUME NEW p \in Product, NEW n \in Event, Waiting(p, n) PROVE ~Held(p, n)
    BY <2>2, WaitingNotHeld
  <2>3. ASSUME NEW p \in Product PROVE count[p] \in Nat
    BY Numbers
  <2> QED BY <2>1, <2>2, <2>3 DEF Events, Event
<1> QED BY <1>1, <1>2, <1>3, <1>4, <1>5, <1>6 DEF Next, Producer, Work, Closer

-----------------------------------------------------------------------------
LEMMA FiniteTries ==
    ASSUME Types, NEW p \in Product, NEW n
    PROVE  IsFiniteSet(Tries(p, n)) /\ Cardinality(Tries(p, n)) \in Nat
<1>1. IsFiniteSet(1 .. Len(sent[p]))
  <2>1. Len(sent[p]) \in Int /\ 1 \in Int
    BY Numbers
  <2> QED BY <2>1, FS_Interval
<1>2. Tries(p, n) \subseteq 1 .. Len(sent[p])
  BY DEF Tries
<1> QED BY <1>1, <1>2, FS_Subset, FS_CardinalityType

LEMMA OneMoreTry ==
    ASSUME Types, NEW p \in Product, NEW e \in Event, sent'[p] = Append(sent[p], e)
    PROVE  /\ Len(sent[p]) \in Nat /\ Len(sent'[p]) = Len(sent[p]) + 1
           /\ \A i \in 1 .. Len(sent[p]) : sent'[p][i] = sent[p][i]
           /\ sent'[p][Len(sent[p]) + 1] = e
           /\ Cardinality(Tries(p, e)') = Cardinality(Tries(p, e)) + 1
<1>1. /\ Len(sent[p]) \in Nat /\ Len(sent'[p]) = Len(sent[p]) + 1
      /\ \A i \in 1 .. Len(sent[p]) : sent'[p][i] = sent[p][i]
      /\ sent'[p][Len(sent[p]) + 1] = e
  <2>1. sent[p] \in Seq(Event)
    BY DEF Types
  <2>2. Len(sent[p]) \in Nat
    BY Numbers
  <2> QED BY <2>1, <2>2, AppendProperties
<1>2. Tries(p, e)' = Tries(p, e) \cup {Len(sent[p]) + 1}
  BY <1>1 DEF Tries
<1>3. Len(sent[p]) + 1 \notin Tries(p, e)
  BY <1>1 DEF Tries
<1>4. Cardinality(Tries(p, e) \cup {Len(sent[p]) + 1}) = Cardinality(Tries(p, e)) + 1
  BY <1>3, FiniteTries, FS_AddElement
<1> QED BY <1>1, <1>2, <1>4

LEMMA SameTries ==
    ASSUME NEW p, NEW n, sent'[p] = sent[p] PROVE Tries(p, n)' = Tries(p, n)
  BY DEF Tries

(* Nothing is sent, no event comes into a lane but above all that was put, *)
(* and no thread comes to an event.                                        *)
LEMMA HistoryKept ==
    ASSUME History, Types, UNCHANGED sent, \A p \in Product : count'[p] \in Nat /\ count[p] <= count'[p],
           \A p \in Product : \A j \in 1 .. Len(lanes'[p]) :
             \/ \E i \in 1 .. Len(lanes[p]) : lanes'[p][j] = lanes[p][i]
             \/ lanes'[p][j] \in Nat /\ lanes'[p][j] > count[p],
           \A t \in Thread : Sending(t)' =>
             /\ Sending(t) /\ threads'[t].product = threads[t].product
             /\ threads'[t].event = threads[t].event /\ threads'[t].attempt = threads[t].attempt
    PROVE  History'
<1>1. ASSUME NEW p \in Product, NEW i \in 1 .. Len(sent[p])
      PROVE  sent[p][i] <= count[p] /\ sent[p][i] \in Nat /\ count[p] \in Nat
  BY Numbers DEF History, Event
<1>2. ASSUME NEW p \in Product, NEW i \in 1 .. Len(sent[p]) PROVE sent[p][i] <= count'[p]
  BY <1>1
<1>3. ASSUME NEW p \in Product, NEW i \in 1 .. Len(sent[p]), NEW j \in 1 .. Len(lanes'[p])
      PROVE  sent[p][i] < lanes'[p][j]
  <2>1. CASE \E m \in 1 .. Len(lanes[p]) : lanes'[p][j] = lanes[p][m]
    BY <2>1 DEF History
  <2>2. CASE lanes'[p][j] \in Nat /\ lanes'[p][j] > count[p]
    <3>1. sent[p][i] <= count[p] /\ sent[p][i] \in Nat /\ count[p] \in Nat
      BY <1>1
    <3> QED BY <2>2, <3>1
  <2> QED BY <2>1, <2>2
<1>4. ASSUME NEW p \in Product, NEW t \in Thread, NEW n \in Event,
             Sending(t)', threads'[t].product = p, threads'[t].event = n
      PROVE  /\ \A i \in 1 .. Len(sent[p]) : sent[p][i] <= n
             /\ Cardinality(Tries(p, n)') = threads'[t].attempt
  <2>1. Sending(t) /\ threads[t].product = p /\ threads[t].event = n /\ threads'[t].attempt = threads[t].attempt
    BY <1>4
  <2>2. Tries(p, n)' = Tries(p, n)
    BY SameTries
  <2> QED BY <2>1, <2>2 DEF History
<1>5. \A p \in Product : \A i, j \in 1 .. Len(sent'[p]) : i <= j => sent'[p][i] <= sent'[p][j]
  BY DEF History
<1> QED BY <1>2, <1>3, <1>4, <1>5 DEF History

LEMMA HistoryInductive ==
    Types /\ Resolved /\ Hands /\ Ordered /\ Events /\ History /\ [Next]_vars => History'
<1> SUFFICES ASSUME Types, Resolved, Hands, Ordered, Events, History, [Next]_vars PROVE History'
  OBVIOUS
<1>1. ASSUME NEW p \in Product, NEW k \in 1 .. MaxPut, Put(p, k) PROVE History'
  <2>1. /\ count[p] \in Nat /\ k \in Nat \ {0}
        /\ count'[p] = count[p] + k /\ \A q \in Product : q # p => count'[q] = count[q]
        /\ UNCHANGED <<threads, sent>>
        /\ \/ UNCHANGED lanes
           \/ /\ Len(lanes[p]) \in Nat /\ Len(lanes'[p]) = Len(lanes[p]) + k
              /\ \A i \in 1 .. Len(lanes[p]) : lanes'[p][i] = lanes[p][i]
              /\ \A i \in 1 .. k : lanes'[p][Len(lanes[p]) + i] = count[p] + i
              /\ \A q \in Product : q # p => lanes'[q] = lanes[q]
    BY <1>1, PutStep
  <2>2. ASSUME NEW q \in Product PROVE count'[q] \in Nat /\ count[q] <= count'[q]
    <3>1. count[q] \in Nat
      BY Numbers
    <3>2. CASE q = p
      BY <2>1, <3>2
    <3>3. CASE q # p
      BY <2>1, <3>1, <3>3
    <3> QED BY <3>2, <3>3
  <2>3. ASSUME NEW q \in Product, NEW j \in 1 .. Len(lanes'[q])
        PROVE  \/ \E i \in 1 .. Len(lanes[q]) : lanes'[q][j] = lanes[q][i]
               \/ lanes'[q][j] \in Nat /\ lanes'[q][j] > count[q]
    <3>1. CASE q # p \/ UNCHANGED lanes
      BY <2>1, <3>1
    <3>2. CASE q = p /\ ~UNCHANGED lanes
      <4>1. CASE j \in 1 .. Len(lanes[p])
        BY <2>1, <3>2, <4>1
      <4>2. CASE j \notin 1 .. Len(lanes[p])
        <5>1. j - Len(lanes[p]) \in 1 .. k /\ j = Len(lanes[p]) + (j - Len(lanes[p]))
          BY <2>1, <2>3, <3>2, <4>2
        <5>2. PICK m \in 1 .. k : j = Len(lanes[p]) + m
          BY <5>1
        <5>3. lanes'[p][j] = count[p] + m
          BY <2>1, <3>2, <5>2
        <5> QED BY <2>1, <3>2, <5>2, <5>3
      <4> QED BY <4>1, <4>2
    <3> QED BY <3>1, <3>2
  <2>4. \A t \in Thread : Sending(t)' =>
             /\ Sending(t) /\ threads'[t].product = threads[t].product
             /\ threads'[t].event = threads[t].event /\ threads'[t].attempt = threads[t].attempt
    BY <2>1 DEF Sending
  <2> QED BY <2>1, <2>2, <2>3, <2>4, HistoryKept
<1>2. ASSUME NEW t \in Thread, Get(t) \/ Leave(t) PROVE History'
  <2>1. /\ threads'[t].pc \notin {"send", "wait"} /\ \A u \in Thread : u # t => threads'[u] = threads[u]
        /\ UNCHANGED <<lanes, count, sent>>
    BY <1>2, GetStep, LeaveStep DEF Now
  <2>2. ASSUME NEW u \in Thread, Sending(u)'
        PROVE  /\ Sending(u) /\ threads'[u].product = threads[u].product
               /\ threads'[u].event = threads[u].event /\ threads'[u].attempt = threads[u].attempt
    BY <2>1, <2>2 DEF Sending
  <2>3. \A p \in Product : \A j \in 1 .. Len(lanes'[p]) :
          \E i \in 1 .. Len(lanes[p]) : lanes'[p][j] = lanes[p][i]
    BY <2>1
  <2>4. ASSUME NEW p \in Product PROVE count'[p] \in Nat /\ count[p] <= count'[p]
    BY <2>1, Numbers
  <2> QED BY <2>1, <2>2, <2>3, <2>4, HistoryKept
<1>3. ASSUME NEW t \in Thread, Take(t) PROVE History'
  <2>0. PICK p \in Product : p = threads[t].product
    BY <1>3, TakeStep
  <2>1. /\ threads[t].pc = "lane"
        /\ Len(lanes[p]) \in Nat \ {0} /\ Len(lanes'[p]) = Len(lanes[p]) - 1
        /\ \A i \in 1 .. Len(lanes[p]) - 1 : lanes'[p][i] = lanes[p][i + 1]
        /\ \A q \in Product : q # p => lanes'[q] = lanes[q]
        /\ threads'[t].event = lanes[p][1] /\ threads'[t].product = p /\ threads'[t].attempt = 0
        /\ \A u \in Thread : u # t => threads'[u] = threads[u]
        /\ UNCHANGED <<count, sent>>
    BY <1>3, <2>0, TakeStep DEF Now
  <2>2. ASSUME NEW q \in Product, NEW i \in 1 .. Len(sent[q]), NEW j \in 1 .. Len(lanes'[q])
        PROVE  sent[q][i] < lanes'[q][j]
    <3>1. CASE q # p
      BY <2>1, <3>1 DEF History
    <3>2. CASE q = p
      <4>1. j + 1 \in 1 .. Len(lanes[p]) /\ lanes'[p][j] = lanes[p][j + 1]
        BY <2>1, <3>2
      <4> QED BY <3>2, <4>1 DEF History
    <3> QED BY <3>1, <3>2
  <2>3. \A i \in 1 .. Len(sent[p]) : sent[p][i] < lanes[p][1] /\ sent[p][i] \in Nat /\ lanes[p][1] \in Nat
    <3>1. 1 \in 1 .. Len(lanes[p])
      BY <2>1
    <3> QED BY <3>1, Numbers DEF History, Event
  <2>4. Tries(p, lanes[p][1]) = {}
    BY <2>3 DEF Tries
  <2>5. ASSUME NEW q \in Product, NEW u \in Thread, NEW n \in Event,
               Sending(u)', threads'[u].product = q, threads'[u].event = n
        PROVE  /\ \A i \in 1 .. Len(sent[q]) : sent[q][i] <= n
               /\ Cardinality(Tries(q, n)') = threads'[u].attempt
    <3>1. CASE u = t
      <4>1. q = p /\ n = lanes[p][1] /\ threads'[u].attempt = 0
        BY <2>1, <2>5, <3>1
      <4>2. Tries(q, n)' = {}
        BY <2>1, <2>4, <4>1, SameTries
      <4> QED BY <2>3, <4>1, <4>2, FS_EmptySet
    <3>2. CASE u # t
      <4>1. threads'[u] = threads[u] /\ Sending(u) /\ threads[u].product = q /\ threads[u].event = n
        BY <2>1, <2>5, <3>2 DEF Sending
      <4>2. Tries(q, n)' = Tries(q, n)
        BY <2>1, SameTries
      <4> QED BY <4>1, <4>2 DEF History
    <3> QED BY <3>1, <3>2
  <2>6. \A q \in Product :
          /\ \A i, j \in 1 .. Len(sent[q]) : i <= j => sent[q][i] <= sent[q][j]
          /\ \A i \in 1 .. Len(sent[q]) : sent[q][i] <= count[q]
    BY DEF History
  <2> QED BY <2>1, <2>2, <2>5, <2>6 DEF History
<1>4. ASSUME NEW t \in Thread, Send(t) PROVE History'
  <2>0. PICK p \in Product : p = threads[t].product
    BY <1>4, SendStep
  <2>00. PICK e \in Event : e = threads[t].event
    BY <1>4, SendStep
  <2>1. /\ threads[t].pc = "send" /\ sent'[p] = Append(sent[p], e)
        /\ \A q \in Product : q # p => sent'[q] = sent[q]
        /\ \A u \in Thread : u # t => threads'[u] = threads[u]
        /\ \/ threads'[t].pc = "lane"
           \/ /\ threads'[t].event = e /\ threads'[t].product = p
              /\ threads'[t].attempt = threads[t].attempt + 1
        /\ UNCHANGED <<lanes, count>>
    BY <1>4, <2>0, <2>00, SendStep DEF Now
  <2>2. /\ Len(sent[p]) \in Nat /\ Len(sent'[p]) = Len(sent[p]) + 1
        /\ \A i \in 1 .. Len(sent[p]) : sent'[p][i] = sent[p][i]
        /\ sent'[p][Len(sent[p]) + 1] = e
        /\ Cardinality(Tries(p, e)') = Cardinality(Tries(p, e)) + 1
    BY <2>1, OneMoreTry
  <2>3. Sending(t) /\ Has(t, p)
    BY <2>0, <2>1 DEF Sending, Has, Busy
  <2>4. /\ \A i \in 1 .. Len(sent[p]) : sent[p][i] <= e /\ sent[p][i] \in Nat
        /\ Cardinality(Tries(p, e)) = threads[t].attempt
        /\ e <= count[p] /\ \A j \in 1 .. Len(lanes[p]) : e < lanes[p][j]
    <3>1. Held(p, e)
      BY <2>0, <2>00, <2>3 DEF Held
    <3> QED BY <2>0, <2>00, <2>3, <3>1, Numbers DEF History, Events, Ordered, Event
  <2>5. ASSUME NEW i \in 1 .. Len(sent'[p])
        PROVE  i \in 1 .. Len(sent[p]) \/ sent'[p][i] = e
    BY <2>2
  <2>6. \A i \in 1 .. Len(sent'[p]) : sent'[p][i] <= e
    BY <2>2, <2>4, <2>5 DEF Event
  <2>7. ASSUME NEW i \in 1 .. Len(sent'[p]), NEW j \in 1 .. Len(sent'[p]), i <= j
        PROVE  sent'[p][i] <= sent'[p][j]
    <3>1. CASE j \in 1 .. Len(sent[p])
      <4>1. i \in 1 .. Len(sent[p])
        BY <2>2, <2>7, <3>1
      <4> QED BY <2>2, <2>7, <3>1, <4>1 DEF History
    <3>2. CASE j \notin 1 .. Len(sent[p])
      BY <2>5, <2>6, <3>2
    <3> QED BY <3>1, <3>2
  <2>8. ASSUME NEW u \in Thread, u # t PROVE ~Has(u, p)
    BY <2>3, <2>8 DEF Hands
  <2>9. ASSUME NEW u \in Thread, NEW q \in Product, NEW n \in Event,
               Sending(u)', threads'[u].product = q, threads'[u].event = n
        PROVE  /\ \A i \in 1 .. Len(sent'[q]) : sent'[q][i] <= n
               /\ Cardinality(Tries(q, n)') = threads'[u].attempt
    <3>1. CASE u = t
      <4>1. n = e /\ q = p /\ threads'[t].attempt = threads[t].attempt + 1
        BY <2>1, <2>9, <3>1 DEF Sending
      <4> QED BY <2>2, <2>4, <2>6, <3>1, <4>1
    <3>2. CASE u # t
      <4>1. threads'[u] = threads[u] /\ Sending(u) /\ threads[u].product = q /\ threads[u].event = n
        BY <2>1, <2>9, <3>2 DEF Sending
      <4>2. q # p
        BY <2>8, <3>2, <4>1 DEF Has, Busy, Sending
      <4>3. sent'[q] = sent[q]
        BY <2>1, <4>2
      <4>4. Tries(q, n)' = Tries(q, n)
        BY <4>3, SameTries
      <4> QED BY <4>1, <4>3, <4>4 DEF History
    <3> QED BY <3>1, <3>2
  <2>10. ASSUME NEW q \in Product
         PROVE  /\ \A i, j \in 1 .. Len(sent'[q]) : i <= j => sent'[q][i] <= sent'[q][j]
                /\ \A i \in 1 .. Len(sent'[q]) : sent'[q][i] <= count[q]
                /\ \A i \in 1 .. Len(sent'[q]), j \in 1 .. Len(lanes[q]) : sent'[q][i] < lanes[q][j]
    <3>1. CASE q = p
      <4>1. \A i \in 1 .. Len(sent'[p]) : sent'[p][i] <= count[p]
        BY <2>2, <2>4, <2>5 DEF History
      <4>2. ASSUME NEW i \in 1 .. Len(sent'[p]), NEW j \in 1 .. Len(lanes[p])
            PROVE  sent'[p][i] < lanes[p][j]
        BY <2>2, <2>4, <2>5 DEF History
      <4> QED BY <2>7, <3>1, <4>1, <4>2
    <3>2. CASE q # p
      BY <2>1, <3>2 DEF History
    <3> QED BY <3>1, <3>2
  <2> QED BY <2>1, <2>9, <2>10 DEF History
<1>5. ASSUME NEW t \in Thread, Wait(t) PROVE History'
  <2>1. /\ threads[t].pc = "wait" /\ \A u \in Thread : u # t => threads'[u] = threads[u]
        /\ \/ threads'[t].pc = "lane"
           \/ /\ threads'[t].product = threads[t].product
              /\ threads'[t].event = threads[t].event /\ threads'[t].attempt = threads[t].attempt
        /\ UNCHANGED <<lanes, count, sent>>
    BY <1>5, WaitStep DEF Now
  <2>2. ASSUME NEW u \in Thread, Sending(u)'
        PROVE  /\ Sending(u) /\ threads'[u].product = threads[u].product
               /\ threads'[u].event = threads[u].event /\ threads'[u].attempt = threads[u].attempt
    BY <2>1, <2>2 DEF Sending
  <2>3. \A p \in Product : \A j \in 1 .. Len(lanes'[p]) :
          \E i \in 1 .. Len(lanes[p]) : lanes'[p][j] = lanes[p][i]
    BY <2>1
  <2>4. ASSUME NEW p \in Product PROVE count'[p] \in Nat /\ count[p] <= count'[p]
    BY <2>1, Numbers
  <2> QED BY <2>1, <2>2, <2>3, <2>4, HistoryKept
<1>6. ASSUME Close \/ CloseStops \/ CloseClears \/ UNCHANGED vars PROVE History'
  <2>1. UNCHANGED <<threads, count, sent>> /\ \A p \in Product : lanes'[p] = lanes[p] \/ Len(lanes'[p]) = 0
    BY <1>6, ClearStep DEF Close, CloseStops, vars
  <2>2. ASSUME NEW p \in Product PROVE count'[p] \in Nat /\ count[p] <= count'[p]
    BY <2>1, Numbers
  <2>3. ASSUME NEW t \in Thread, Sending(t)'
        PROVE  /\ Sending(t) /\ threads'[t].product = threads[t].product
               /\ threads'[t].event = threads[t].event /\ threads'[t].attempt = threads[t].attempt
    BY <2>1, <2>3 DEF Sending
  <2>4. \A p \in Product : \A j \in 1 .. Len(lanes'[p]) :
          \E i \in 1 .. Len(lanes[p]) : lanes'[p][j] = lanes[p][i]
    BY <2>1
  <2> QED BY <2>1, <2>2, <2>3, <2>4, HistoryKept
<1> QED BY <1>1, <1>2, <1>3, <1>4, <1>5, <1>6 DEF Next, Producer, Work, Closer

-----------------------------------------------------------------------------
LEMMA InvInit == Init => Inv
<1> SUFFICES ASSUME Init PROVE Inv
  OBVIOUS
<1>1. Len(<< >>) = 0 /\ << >> \in Seq(Event) /\ << >> \in Seq(Product \cup {Stop})
  BY EmptySeq
<1>2. Resting \in ThreadState
  BY DEF Resting, ThreadState
<1>3. Types
  BY <1>1, <1>2 DEF Init, Types, Outcomes
<1>4. \A t \in Thread : /\ threads[t].pc = "idle" /\ threads[t].product = Stop
                        /\ threads[t].event = 0 /\ threads[t].attempt = 0
  BY DEF Init, Resting
<1>5. Resolved
  BY <1>4 DEF Resolved, Sending, Busy
<1>6. \A t \in Thread, p \in Product : ~Has(t, p) /\ ~Sending(t)
  BY <1>4 DEF Has, Sending, Busy
<1>7. \A p \in Product : lanes[p] = << >> /\ Len(lanes[p]) = 0 /\ Len(sent[p]) = 0
  BY <1>1 DEF Init
<1>8. ready = << >> /\ Len(ready) = 0 /\ keys = {}
  BY <1>1 DEF Init
<1>9. Hands
  BY <1>6, <1>7, <1>8 DEF Hands
<1>10. Ordered
  BY <1>7 DEF Ordered
<1>11. Events
  BY <1>6, <1>7 DEF Init, Events, Waiting, Held, Event
<1>12. History
  BY <1>6, <1>7 DEF History
<1> QED BY <1>3, <1>5, <1>9, <1>10, <1>11, <1>12 DEF Inv

(* The invariant of the outbox: types, who has a lane, the order of lanes, *)
(* where each event is and what has been sent of it (outbox.py).           *)
THEOREM InvHolds == Spec => []Inv
<1>1. Inv /\ [Next]_vars => Inv'
  BY TypesInductive, ResolvedInductive, HandsInductive, OrderedInductive, EventsInductive,
     HistoryInductive DEF Inv
<1> QED BY InvInit, <1>1, PTL DEF Spec

(* A product that has a lane has one thread or one turn in the queue; one  *)
(* that has none has neither (outbox.py, put and _work).                   *)
THEOREM OneHandler == Spec => []OneHandlerPerLane
<1>1. Inv => OneHandlerPerLane
  <2> SUFFICES ASSUME Inv, NEW p \in Product
               PROVE  Cardinality(Handlers(p)) + Cardinality(Turns(p)) = IF p \in keys THEN 1 ELSE 0
    BY DEF OneHandlerPerLane
  <2>1. DOMAIN ready = 1 .. Len(ready)
    BY LenProperties DEF Inv, Types
  <2>2. /\ \A t \in Thread : t \in Handlers(p) <=> Has(t, p)
        /\ \A i : i \in Turns(p) <=> i \in 1 .. Len(ready) /\ ready[i] = p
        /\ Handlers(p) \subseteq Thread
    BY <2>1 DEF Handlers, Turns, Has
  <2>3. Cardinality({}) = 0 /\ \A x : Cardinality({x}) = 1
    BY FS_EmptySet, FS_Singleton
  <2>4. CASE \E t \in Thread : Has(t, p)
    <3>1. PICK t \in Thread : Has(t, p)
      BY <2>4
    <3>2. Handlers(p) = {t}
      BY <2>2, <3>1 DEF Inv, Hands
    <3>3. Turns(p) = {}
      BY <2>2, <3>1 DEF Inv, Hands
    <3>4. p \in keys
      BY <3>1 DEF Inv, Hands
    <3> QED BY <2>3, <3>2, <3>3, <3>4
  <2>5. CASE ~(\E t \in Thread : Has(t, p)) /\ \E i \in 1 .. Len(ready) : ready[i] = p
    <3>1. PICK i \in 1 .. Len(ready) : ready[i] = p
      BY <2>5
    <3>2. Turns(p) = {i}
      BY <2>2, <3>1 DEF Inv, Hands
    <3>3. Handlers(p) = {}
      BY <2>2, <2>5
    <3>4. p \in keys
      BY <3>1 DEF Inv, Hands
    <3>5. Cardinality(Turns(p)) = 1 /\ Cardinality(Handlers(p)) = 0
      BY <2>3, <3>2, <3>3, Zenon
    <3> QED BY <3>4, <3>5
  <2>6. CASE ~(\E t \in Thread : Has(t, p)) /\ ~(\E i \in 1 .. Len(ready) : ready[i] = p)
    <3>1. Turns(p) = {} /\ Handlers(p) = {}
      BY <2>2, <2>6
    <3>2. p \notin keys
      BY <2>6 DEF Inv, Hands
    <3> QED BY <2>3, <3>1, <3>2
  <2> QED BY <2>4, <2>5, <2>6
<1> QED BY <1>1, InvHolds, PTL

(* Every event put waits, is being sent or is on record, and only one of   *)
(* these, also while the outbox closes (outbox.py, put, _work and close).  *)
THEOREM EventsAreAccounted == Spec => []EveryEventAccounted
<1>1. Inv => EveryEventAccounted
  <2> SUFFICES ASSUME Inv, NEW p \in Product, NEW n \in 1 .. count[p]
               PROVE  LET waiting == n \in ToSet(lanes[p])
                          sending == \E t \in Thread : threads[t].product = p /\ threads[t].event = n
                          over    == outcome[p][n] # "none"
                      IN  \/ waiting /\ ~sending /\ ~over
                          \/ ~waiting /\ sending /\ ~over
                          \/ ~waiting /\ ~sending /\ over
    BY DEF EveryEventAccounted
  <2>1. count[p] \in 0 .. MaxEvents
    BY DEF Inv, Types
  <2>2. n \in Event /\ n <= count[p] /\ n # 0
    BY <2>1 DEF Event
  <2>3. n \in ToSet(lanes[p]) <=> Waiting(p, n)
    BY <2>2, WaitingIsInLane DEF Inv
  <2>4. (\E t \in Thread : threads[t].product = p /\ threads[t].event = n) <=> Held(p, n)
    BY <2>2 DEF Inv, Resolved, Held
  <2>5. ~(Waiting(p, n) /\ Held(p, n))
    BY <2>2, WaitingNotHeld DEF Inv
  <2>6. /\ Waiting(p, n) \/ Held(p, n) => outcome[p][n] = "none"
        /\ Waiting(p, n) \/ Held(p, n) \/ outcome[p][n] # "none"
    BY <2>2 DEF Inv, Events
  <2> QED BY <2>3, <2>4, <2>5, <2>6
<1> QED BY <1>1, InvHolds, PTL

(* What waits is not forgotten: the product has a thread or a turn.        *)
LaneHasHands ==
    \A p \in Product : lanes[p] # << >> =>
      (\E t \in Thread : Has(t, p)) \/ \E i \in 1 .. Len(ready) : ready[i] = p

(* No waiting event is left behind by the threads (outbox.py, _work).      *)
THEOREM NoLaneForgotten == Spec => []LaneHasHands
<1>1. Inv => LaneHasHands
  <2> SUFFICES ASSUME Inv, NEW p \in Product, lanes[p] # << >>
               PROVE  (\E t \in Thread : Has(t, p)) \/ \E i \in 1 .. Len(ready) : ready[i] = p
    BY DEF LaneHasHands
  <2>1. p \in keys
    BY DEF Inv, Hands
  <2> QED BY <2>1 DEF Inv, Hands
<1> QED BY <1>1, InvHolds, PTL

-----------------------------------------------------------------------------
(* The refinement: what the outbox does to a product's events is a step of *)
(* OrderedDelivery, or none of its business.                               *)
Over(p) == {n \in Event : outcome[p][n] # "none"}

LastTries(p) == {i \in DOMAIN sent[p] : sent[p][i] = LastSent(p)}

LEMMA LastTriesAre ==
    ASSUME Inv, Inv'
    PROVE  /\ \A p \in Product : LastTries(p) = Tries(p, LastSent(p))
           /\ \A p \in Product : LastTries(p)' = Tries(p, LastSent(p))'
<1>1. \A p \in Product : DOMAIN sent[p] = 1 .. Len(sent[p])
  BY LenProperties DEF Inv, Types
<1>2. \A p \in Product : DOMAIN sent'[p] = 1 .. Len(sent'[p])
  BY LenProperties DEF Inv, Types
<1> QED BY <1>1, <1>2 DEF LastTries, Tries

LEMMA LastOfSent ==
    ASSUME Types, NEW p \in Product, NEW e \in Event, sent'[p] = Append(sent[p], e)
    PROVE  LastSent(p)' = e
<1>1. /\ Len(sent[p]) \in Nat /\ Len(sent'[p]) = Len(sent[p]) + 1
      /\ sent'[p][Len(sent[p]) + 1] = e
  BY OneMoreTry
<1>2. sent'[p] # << >>
  <2>1. sent[p] \in Seq(Event)
    BY DEF Types
  <2> QED BY <2>1, AppendProperties
<1> QED BY <1>1, <1>2 DEF LastSent

(* The last one sent is the greatest.                                      *)
LEMMA LastIsGreatest ==
    ASSUME Types, History, NEW p \in Product
    PROVE  /\ LastSent(p) \in Nat
           /\ \A i \in 1 .. Len(sent[p]) : sent[p][i] <= LastSent(p)
           /\ LastSent(p) # 0 => \E i \in 1 .. Len(sent[p]) : sent[p][i] = LastSent(p)
<1>1. CASE sent[p] = << >>
  <2>1. Len(sent[p]) = 0
    BY <1>1, EmptySeq
  <2> QED BY <1>1, <2>1 DEF LastSent
<1>2. CASE sent[p] # << >>
  <2>1. sent[p] \in Seq(Event) /\ Len(sent[p]) \in Nat
    BY Numbers DEF Types
  <2>2. Len(sent[p]) # 0
    BY <1>2, <2>1, EmptySeq
  <2>3. Len(sent[p]) \in 1 .. Len(sent[p]) /\ LastSent(p) = sent[p][Len(sent[p])]
    BY <1>2, <2>1, <2>2 DEF LastSent
  <2>4. LastSent(p) \in Nat
    BY <2>3, Numbers DEF Event
  <2> QED BY <2>1, <2>3, <2>4 DEF History
<1> QED BY <1>1, <1>2

(* The request of a thread is the next one the lane may hand over.         *)
LEMMA SendHands ==
    ASSUME Inv, Inv', NEW t \in Thread, Send(t)
    PROVE  \E p \in Product : Delivery!Hand(p)
<1>0. Types /\ Resolved
  BY DEF Inv
<1>1. PICK p \in Product : p = threads[t].product
  BY SendStep DEF Inv
<1>2. PICK e \in Event : e = threads[t].event
  BY SendStep DEF Inv
<1>3. /\ threads[t].pc = "send" /\ threads[t].attempt \in 0 .. MaxRetries
      /\ sent'[p] = Append(sent[p], e)
      /\ \A q \in Product : q # p => sent'[q] = sent[q]
      /\ \/ \E what \in Outcomes \ {"none"} : Told(p, {e}, what)
         \/ outcome' = outcome
      /\ count' = count
  <2>1. threads[t].pc = "send" /\ count' = count
    BY DEF Send
  <2>2. threads[t].attempt \in 0 .. MaxRetries
    BY <1>0, EventRange
  <2>3. /\ sent'[p] = Append(sent[p], threads[t].event)
        /\ \A q \in Product : q # p => sent'[q] = sent[q]
    BY <1>0, <1>1 DEF Send, Types
  <2>4. \/ \E what \in Outcomes \ {"none"} : Told(p, {threads[t].event}, what)
        \/ outcome' = outcome
    BY <1>0, <1>1, SendStep, Zenon
  <2> QED BY <1>2, <2>1, <2>2, <2>3, <2>4
<1>4. Sending(t) /\ Held(p, e)
  BY <1>1, <1>2, <1>3 DEF Sending, Held
<1>5. e \in (1 .. count[p]) \ Over(p)
  <2>1. e <= count[p] /\ outcome[p][e] = "none" /\ count[p] \in Nat
    BY <1>4, Numbers DEF Inv, Events
  <2> QED BY <2>1 DEF Over, Event
<1>6. /\ \A i \in 1 .. Len(sent[p]) : sent[p][i] <= e /\ sent[p][i] \in Nat
      /\ Cardinality(Tries(p, e)) = threads[t].attempt
  BY <1>1, <1>2, <1>4, Numbers DEF Inv, History, Event
<1>7. /\ LastSent(p) \in Nat /\ e >= LastSent(p)
      /\ \A i \in 1 .. Len(sent[p]) : sent[p][i] <= LastSent(p)
  BY <1>6, LastIsGreatest DEF Inv, Event
<1>8. LastSent(p)' = e /\ \A q \in Product : q # p => LastSent(q)' = LastSent(q)
  BY <1>3, LastOfSent DEF Inv, LastSent
<1>9. Cardinality(Tries(p, e)') = threads[t].attempt + 1
  BY <1>3, <1>6, OneMoreTry DEF Inv
<1>10. e # LastSent(p) => threads[t].attempt = 0
  <2>1. ASSUME e # LastSent(p) PROVE Tries(p, e) = {}
    BY <1>6, <1>7, <2>1 DEF Tries, Event
  <2> QED BY <1>6, <2>1, FS_EmptySet
<1>11. \E over \in {{}, {e}} : \A q \in Product : Over(q)' = IF q = p THEN Over(q) \cup over ELSE Over(q)
  <2>1. CASE outcome' = outcome
    <3>1. \A q \in Product : Over(q)' = Over(q)
      BY <2>1 DEF Over
    <3> QED BY <3>1
  <2>2. CASE \E what \in Outcomes \ {"none"} : Told(p, {e}, what)
    <3>1. \A q \in Product, n \in Event :
            outcome'[q][n] # "none" <=> (q = p /\ n = e) \/ outcome[q][n] # "none"
      BY <2>2 DEF Told
    <3>2. Over(p)' = Over(p) \cup {e} /\ \A q \in Product : q # p => Over(q)' = Over(q)
      BY <3>1 DEF Over
    <3> QED BY <3>2
  <2> QED BY <1>3, <2>1, <2>2
<1>12. PICK over \in {{}, {e}} :
         [q \in Product |-> Over(q)]' = [[q \in Product |-> Over(q)] EXCEPT ![p] = @ \cup over]
  BY <1>11
<1>13. [q \in Product |-> LastSent(q)]' = [[q \in Product |-> LastSent(q)] EXCEPT ![p] = e]
  BY <1>8
<1>14. ASSUME NEW q \in Product, q # p PROVE LastTries(q)' = LastTries(q)
  BY <1>3, <1>8, <1>14 DEF LastTries
<1>15. LastTries(p)' = Tries(p, e)' /\ LastTries(p) = Tries(p, LastSent(p))
  BY <1>8, LastTriesAre DEF Tries
<1>16. [q \in Product |-> Cardinality(LastTries(q))]'
         = [[q \in Product |-> Cardinality(LastTries(q))] EXCEPT ![p] =
              IF e = LastSent(p) THEN @ + 1 ELSE 1]
  <2>1. Cardinality(LastTries(p)') = IF e = LastSent(p) THEN Cardinality(LastTries(p)) + 1 ELSE 1
    BY <1>6, <1>9, <1>10, <1>15
  <2> QED BY <1>14, <2>1
<1>17. Cardinality(LastTries(p)') <= MaxRetries + 1
  BY <1>3, <1>9, <1>15
<1>18. Delivery!Hand(p)
  BY <1>3, <1>5, <1>7, <1>12, <1>13, <1>16, <1>17 DEF Delivery!Hand, Over, LastTries
<1> QED BY <1>18

(* put is accepted, and settled at once when the outbox is closed.         *)
LEMMA PutAccepts ==
    ASSUME Inv, Inv', NEW p \in Product, NEW k \in 1 .. MaxPut, Put(p, k)
    PROVE  Delivery!Accept(p)
<1>0. Types /\ Events /\ Types' /\ Events'
  BY DEF Inv
<1>1. /\ count[p] \in Nat /\ k \in Nat \ {0} /\ count[p] + k <= MaxEvents
      /\ count'[p] = count[p] + k /\ \A q \in Product : q # p => count'[q] = count[q]
      /\ sent' = sent
      /\ Told(p, count[p] + 1 .. count[p] + k, "late") \/ outcome' = outcome
  BY <1>0, PutStep
<1>2. count' = [count EXCEPT ![p] = count'[p]]
  BY <1>0, <1>1 DEF Types
<1>3. \E over \in {{}, count[p] + 1 .. count'[p]} :
        \A q \in Product : Over(q)' = IF q = p THEN Over(q) \cup over ELSE Over(q)
  <2>1. CASE outcome' = outcome
    <3>1. \A q \in Product : Over(q)' = Over(q)
      BY <2>1 DEF Over
    <3> QED BY <3>1
  <2>2. CASE Told(p, count[p] + 1 .. count[p] + k, "late")
    <3>1. \A q \in Product, n \in Event :
            outcome'[q][n] # "none" <=> (q = p /\ n \in count[p] + 1 .. count[p] + k) \/ outcome[q][n] # "none"
      BY <2>2 DEF Told
    <3>2. count[p] + 1 .. count[p] + k \subseteq Event
      BY <1>1 DEF Event
    <3>3. Over(p)' = Over(p) \cup (count[p] + 1 .. count[p] + k) /\ \A q \in Product : q # p => Over(q)' = Over(q)
      BY <3>1, <3>2 DEF Over
    <3> QED BY <1>1, <3>3
  <2> QED BY <1>1, <2>1, <2>2
<1>4. PICK over \in {{}, count[p] + 1 .. count'[p]} :
        [q \in Product |-> Over(q)]' = [[q \in Product |-> Over(q)] EXCEPT ![p] = @ \cup over]
  BY <1>3
<1>5. \A q \in Product : LastSent(q)' = LastSent(q) /\ LastTries(q)' = LastTries(q)
  BY <1>1 DEF LastSent, LastTries
<1>6. count'[p] > count[p]
  BY <1>1
<1>7. UNCHANGED <<[q \in Product |-> LastSent(q)], [q \in Product |-> Cardinality(LastTries(q))]>>
  BY <1>5
<1>8. \E new \in {{}, count[p] + 1 .. count'[p]} :
        [q \in Product |-> Over(q)]' = [[q \in Product |-> Over(q)] EXCEPT ![p] = @ \cup new]
  BY <1>4
<1> QED BY <1>2, <1>6, <1>7, <1>8 DEF Delivery!Accept, Over, LastTries

(* Any other step may only give up events.                                 *)
LEMMA OthersGiveUp ==
    ASSUME Inv, Inv', UNCHANGED <<count, sent>>,
           \A p \in Product, n \in Event : outcome[p][n] # "none" => outcome'[p][n] # "none"
    PROVE  Delivery!GiveUp
<1>1. ASSUME NEW p \in Product PROVE Over(p) \subseteq Over(p)' /\ Over(p)' \subseteq 1 .. count[p]
  <2>1. Over(p) \subseteq Over(p)'
    BY DEF Over
  <2>2. ASSUME NEW n \in Over(p)' PROVE n \in 1 .. count[p]
    <3>1. n \in Event /\ outcome'[p][n] # "none"
      BY DEF Over
    <3>2. count'[p] \in Nat
      BY DEF Inv, Types
    <3> QED BY <3>1, <3>2 DEF Inv, Events, Event
  <2> QED BY <2>1, <2>2
<1>2. \A q \in Product : LastSent(q)' = LastSent(q) /\ LastTries(q)' = LastTries(q)
  BY DEF LastSent, LastTries
<1> QED BY <1>1, <1>2 DEF Delivery!GiveUp, Over, LastTries

(* The outbox hands over the events of a product in the order they were    *)
(* put, each at most MaxRetries + 1 times and never once it is on record   *)
(* (outbox.py, _work and _deliver).                                        *)
THEOREM HandsOverInOrder == Spec => DeliverySpec
<1>1. Init => Delivery!Init
  <2> SUFFICES ASSUME Init PROVE Delivery!Init
    OBVIOUS
  <2>1. \A p \in Product : sent[p] = << >> /\ count[p] = 0 /\ \A n \in Event : outcome[p][n] = "none"
    BY DEF Init
  <2>2. \A p \in Product : LastSent(p) = 0
    BY <2>1 DEF LastSent
  <2>3. \A p \in Product : LastTries(p) = {} /\ Over(p) = {}
    BY <2>1 DEF LastTries, Over
  <2>4. Cardinality({}) = 0
    BY FS_EmptySet
  <2> QED BY <2>2, <2>3, <2>4 DEF Init, Delivery!Init, LastTries, Over
<1>2. Inv /\ Inv' /\ [Next]_vars => [Delivery!Next]_(Delivery!vars)
  <2> SUFFICES ASSUME Inv, Inv', [Next]_vars PROVE Delivery!Next
    OBVIOUS
  <2>0. Types /\ Resolved /\ Events
    BY DEF Inv
  <2>1. ASSUME NEW p \in Product, NEW k \in 1 .. MaxPut, Put(p, k) PROVE Delivery!Next
    BY <2>1, PutAccepts DEF Delivery!Next
  <2>2. ASSUME NEW t \in Thread, Send(t) PROVE Delivery!Next
    BY <2>2, SendHands DEF Delivery!Next
  <2>3. ASSUME NEW t \in Thread, Get(t) \/ Leave(t) \/ Take(t) PROVE Delivery!Next
    <3>1. UNCHANGED <<count, sent, outcome>>
      BY <2>3 DEF Get, Leave, Take
    <3> QED BY <3>1, OthersGiveUp DEF Delivery!Next
  <2>4. ASSUME NEW t \in Thread, Wait(t) PROVE Delivery!Next
    <3>1. PICK p \in Product : p = threads[t].product
      BY <2>0, <2>4, WaitStep
    <3>2. UNCHANGED <<count, sent>>
      BY <2>4 DEF Wait
    <3>3. Told(p, {threads[t].event}, "shutdown") \/ outcome' = outcome
      BY <2>0, <2>4, <3>1, WaitStep, Zenon
    <3>4. \A q \in Product, n \in Event : outcome[q][n] # "none" => outcome'[q][n] # "none"
      BY <3>3 DEF Told
    <3> QED BY <3>2, <3>4, OthersGiveUp DEF Delivery!Next
  <2>5. ASSUME CloseClears PROVE Delivery!Next
    <3>1. UNCHANGED <<count, sent>>
      BY <2>5 DEF CloseClears
    <3>2. \A q \in Product, n \in Event : outcome[q][n] # "none" => outcome'[q][n] # "none"
      BY <2>0, <2>5, ClearStep
    <3> QED BY <3>1, <3>2, OthersGiveUp DEF Delivery!Next
  <2>6. ASSUME Close \/ CloseStops \/ UNCHANGED vars PROVE Delivery!Next
    <3>1. UNCHANGED <<count, sent, outcome>>
      BY <2>6 DEF Close, CloseStops, vars
    <3> QED BY <3>1, OthersGiveUp DEF Delivery!Next
  <2> QED BY <2>1, <2>2, <2>3, <2>4, <2>5, <2>6 DEF Next, Producer, Work, Closer
<1> QED BY <1>1, <1>2, InvHolds, PTL DEF Spec, DeliverySpec, Delivery!Spec
=============================================================================
