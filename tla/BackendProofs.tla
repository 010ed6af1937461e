---------------------------- MODULE BackendProofs ----------------------------
(* A refresh token serves once and a session survives, for any number of       *)
(* pages, requests and tokens.                                                *)
(*                                                                            *)
(* The invariant says what a call of a page knows of its token: while it was   *)
(* used, fate says by whom (Serving); the successor an answer brings is known  *)
(* to nobody else (Successors); and a page never shows a token it has used     *)
(* (Unspent), because its calls follow one another (OneCall) and the cookie is *)
(* usable, lost, or in the hands of the call that is under way                *)
(* (SessionSurvives).                                                         *)
(*                                                                            *)
(* The images of a diagnosis stay, and no object loses the row by which it can  *)
(* be found, for any number of diagnoses, images and deletions at the same     *)
(* time.  A deletion only has keys that nobody can use any more (Useless): the  *)
(* page is done with them, no diagnosis has them and no object is on the way.  *)
(* Where its rows are about to go, only objects that S3 refused are left.      *)
EXTENDS TokenRotation, TLAPS

CONSTANTS Key, BatchSize

VARIABLES file_rows, aged, bucket, uploads, on_way, arrived, diagnosed, removals, refused, cleaner

Files == INSTANCE FileStore

Known  == {None} \cup 1..issued
Steps  == {"sent", "used", "answered", "refused"}
Heard(c) == c.at \in {"used", "answered"}

Types ==
  /\ issued \in 0..MaxTokens
  /\ valid \subseteq 1..issued /\ strays \subseteq valid
  /\ cookie \in Known
  /\ calls \subseteq [by : Page, token : Known, at : Steps, next : Known]
  /\ waiting \in [Page -> Nat]
  /\ fate \in [Token -> Page \cup {None, "lost"}]

OneCall == \A c, d \in calls: c.by = d.by => c = d

(* A token has a fate once it cannot be used any more.                        *)
Fates == \A n \in Token: fate[n] = None <=> n \in valid \/ n > issued

Serving == \A c \in calls: Heard(c) => c.token \in 1..issued /\ fate[c.token] = c.by

Successors ==
  \A c \in calls: c.at = "answered" =>
    /\ c.next \in valid /\ c.next # cookie /\ c.next \notin strays
    /\ \A d \in calls: d.token # c.next /\ (d.at = "answered" /\ d.next = c.next => d = c)

Unspent == \A c \in calls: ~Heard(c) /\ c.token \in Token => fate[c.token] # c.by

Waiters == \A p \in Page: waiting[p] > 0 => Own(p) # {}

Inv == Types /\ OneCall /\ Fates /\ Serving /\ Successors /\ Unspent /\ Waiters /\ SessionSurvives

-----------------------------------------------------------------------------
(* The page that loads has one call, which shows the cookie; of those it had,   *)
(* the ones that were heard are lost.                                         *)
LEMMA LoadKeeps ==
  ASSUME TokenAssumption, Inv, NEW p \in Page, Load(p),
         \/ UNCHANGED <<valid, issued, cookie>>
         \/ /\ issued < MaxTokens /\ issued' = issued + 1
            /\ valid' = valid \cup {issued'} /\ cookie' = issued'
  PROVE  Inv'
<1> DEFINE new == Call(p, cookie', "sent", None)
<1> USE DEF Token
<1>1. /\ new.by = p /\ new.token = cookie' /\ new.at = "sent" /\ new.next = None
      /\ new \in [by : Page, token : Known', at : Steps, next : Known']
  BY DEF Call, Inv, Types, Known, Steps, TokenAssumption
<1>2. calls' = (calls \ Own(p)) \cup {new}
  BY DEF Load
<1>3. \A c \in calls' : c = new \/ (c \in calls /\ c.by # p)
  BY <1>2 DEF Own
<1> HIDE DEF new
<1>4. /\ issued \in Nat /\ issued' \in 0..MaxTokens /\ issued <= issued' /\ MaxTokens \in Nat
      /\ valid \subseteq valid' /\ valid' \subseteq 1..issued' /\ Known \subseteq Known' /\ cookie' \in Known'
  <2>1. issued \in Nat /\ MaxTokens \in Nat /\ issued <= MaxTokens /\ valid \subseteq 1..issued /\ cookie \in Known
    BY DEF Inv, Types, TokenAssumption
  <2>2. CASE UNCHANGED <<valid, issued, cookie>>
    BY <2>1, <2>2 DEF Known
  <2>3. CASE issued < MaxTokens /\ issued' = issued + 1 /\ valid' = valid \cup {issued'} /\ cookie' = issued'
    <3>1. 1..issued \subseteq 1..issued' /\ issued' \in 1..issued' /\ issued' \in 0..MaxTokens
      BY <2>1, <2>3
    <3> QED BY <2>1, <2>3, <3>1 DEF Known
  <2> QED BY <2>2, <2>3
<1>5. strays' \subseteq valid' /\ \A n \in strays' : n \in strays \/ \E d \in calls : d.token = n
  BY DEF Load, Abandon, Own
<1>6. \A n \in Token : fate'[n] = IF \E d \in Own(p) : Heard(d) /\ d.token = n THEN "lost" ELSE fate[n]
  BY DEF Load, Abandon, Lose, Heard
<1>7. fate' \in [Token -> Page \cup {None, "lost"}]
  BY DEF Load, Abandon, Lose, Inv, Types
<1>8. waiting' = [waiting EXCEPT ![p] = 0]
  BY DEF Load
<1>9. Types'
  <2>1. calls' \subseteq [by : Page, token : Known', at : Steps, next : Known']
    BY <1>1, <1>2, <1>4 DEF Inv, Types
  <2>2. waiting' \in [Page -> Nat]
    BY <1>8 DEF Inv, Types
  <2> QED BY <1>4, <1>5, <1>7, <2>1, <2>2 DEF Types, Steps
<1>10. OneCall'
  BY <1>1, <1>2, <1>3 DEF Inv, OneCall
<1>11. \A c \in calls : c.by # p /\ Heard(c) => fate'[c.token] = fate[c.token]
  BY <1>4, <1>6, TokenAssumption DEF Inv, Serving, Types, Own
<1>12. Fates'
  <2> SUFFICES ASSUME NEW n \in Token PROVE fate'[n] = None <=> n \in valid' \/ n > issued'
    BY DEF Fates
  <2>1. fate[n] = None <=> n \in valid \/ n > issued
    BY DEF Inv, Fates
  <2>2. CASE \E d \in Own(p) : Heard(d) /\ d.token = n
    <3>1. PICK d \in Own(p) : Heard(d) /\ d.token = n
      BY <2>2
    <3>2. n \in 1..issued /\ fate[n] = d.by /\ d.by \in Page
      BY <3>1 DEF Own, Inv, Serving, Types
    <3>3. n \notin valid /\ ~(n > issued)
      BY <2>1, <3>2 DEF TokenAssumption
    <3>4. n \notin valid' /\ ~(n > issued')
      BY <3>2, <3>3, <1>4
    <3> QED BY <2>2, <3>4, <1>6 DEF TokenAssumption
  <2>3. CASE ~\E d \in Own(p) : Heard(d) /\ d.token = n
    <3>1. n \in valid' \/ n > issued' <=> n \in valid \/ n > issued
      BY <1>4
    <3> QED BY <2>1, <2>3, <3>1, <1>6
  <2> QED BY <2>2, <2>3
<1>13. Serving'
  BY <1>1, <1>3, <1>4, <1>11 DEF Inv, Serving, Heard
<1>14. Successors'
  <2> SUFFICES ASSUME NEW c \in calls', c.at = "answered"
               PROVE  /\ c.next \in valid' /\ c.next # cookie' /\ c.next \notin strays'
                      /\ \A d \in calls': d.token # c.next /\ (d.at = "answered" /\ d.next = c.next => d = c)
    BY DEF Successors
  <2>1. c \in calls /\ c.by # p
    BY <1>1, <1>3
  <2>2. /\ c.next \in valid /\ c.next # cookie /\ c.next \notin strays
        /\ \A d \in calls: d.token # c.next /\ (d.at = "answered" /\ d.next = c.next => d = c)
    BY <2>1 DEF Inv, Successors
  <2>3. c.next # cookie'
    BY <2>2, <1>4 DEF Inv, Types
  <2> QED BY <1>1, <1>3, <1>4, <1>5, <2>2, <2>3
<1>15. Unspent'
  <2> SUFFICES ASSUME NEW c \in calls', ~Heard(c), c.token \in Token PROVE fate'[c.token] # c.by
    BY DEF Unspent
  <2>1. CASE c \in calls
    BY <2>1, <1>6 DEF Inv, Unspent, Types, TokenAssumption
  <2>2. CASE c = new
    <3> SUFFICES ASSUME fate'[cookie'] = p PROVE FALSE
      BY <1>1, <2>2
    <3>1. cookie' \in Token
      BY <1>1, <2>2
    <3>2. fate[cookie'] = p /\ ~\E d \in Own(p) : Heard(d) /\ d.token = cookie'
      BY <3>1, <1>6 DEF TokenAssumption
    <3>3. cookie' \in 1..issued /\ cookie' \notin valid
      BY <3>1, <3>2, <1>4 DEF Inv, Fates, TokenAssumption
    <3>4. cookie' = cookie
      BY <3>3, <1>4
    <3>5. PICK d \in calls : d.token = cookie /\ Heard(d)
      BY <3>1, <3>2, <3>3, <3>4 DEF Inv, SessionSurvives, Heard, TokenAssumption
    <3>6. d.by = p
      BY <3>2, <3>4, <3>5 DEF Inv, Serving
    <3> QED BY <3>2, <3>4, <3>5, <3>6 DEF Own
  <2> QED BY <1>3, <2>1, <2>2
<1>16. Waiters'
  <2> SUFFICES ASSUME NEW q \in Page, waiting'[q] > 0 PROVE Own(q)' # {}
    BY DEF Waiters
  <2>1. q # p
    BY <1>8 DEF Inv, Types
  <2>2. PICK c \in calls : c.by = q
    BY <2>1, <1>8 DEF Inv, Types, Waiters, Own
  <2> QED BY <2>1, <2>2, <1>2 DEF Own
<1>17. SessionSurvives'
  <2> SUFFICES ASSUME cookie' # None, cookie' \notin valid', fate'[cookie'] # "lost"
               PROVE  \E c \in calls' : c.token = cookie' /\ c.at \in {"used", "answered"}
    BY DEF SessionSurvives
  <2>1. cookie' = cookie /\ cookie \notin valid /\ cookie \in Token
    BY <1>4 DEF Inv, Types, Known
  <2>2. fate[cookie] # "lost" /\ ~\E d \in Own(p) : Heard(d) /\ d.token = cookie
    BY <2>1, <1>6
  <2>3. PICK c \in calls : c.token = cookie /\ Heard(c)
    BY <2>1, <2>2 DEF Inv, SessionSurvives, Heard
  <2>4. c \in calls'
    BY <2>2, <2>3, <1>2
  <2> QED BY <2>1, <2>3, <2>4 DEF Heard
<1> QED BY <1>9, <1>10, <1>12, <1>13, <1>14, <1>15, <1>16, <1>17 DEF Inv

-----------------------------------------------------------------------------
(* A page that has no call under way makes one, which shows the cookie.         *)
LEMMA AskKeeps ==
  ASSUME TokenAssumption, Inv, NEW p \in Page, calls' = calls \cup CallOnce(p),
         UNCHANGED <<valid, issued, cookie, strays, fate>>,
         waiting' \in [Page -> Nat], \A q \in Page \ {p}: waiting'[q] = waiting[q]
  PROVE  Inv'
<1> DEFINE new == Call(p, cookie, "sent", None)
<1> USE DEF Token
<1>1. /\ new.by = p /\ new.token = cookie /\ new.at = "sent"
      /\ new \in [by : Page, token : Known, at : Steps, next : Known]
  BY DEF Call, Inv, Types, Known, Steps, TokenAssumption
<1>2. CASE Own(p) = {}
  <2>1. calls' = calls \cup {new} /\ \A c \in calls : c.by # p
    BY <1>2 DEF CallOnce, Own
  <2> HIDE DEF new
  <2>2. Types'
    BY <1>1, <2>1 DEF Inv, Types, Known, Steps
  <2>3. OneCall' /\ Fates' /\ Serving' /\ SessionSurvives'
    BY <1>1, <2>1 DEF Inv, OneCall, Fates, Serving, SessionSurvives, Heard
  <2>4. Successors'
    BY <1>1, <2>1 DEF Inv, Successors
  <2>5. Unspent'
    <3>1. new.token \in Token => fate[cookie] # p
      BY <1>1, <2>1 DEF Inv, Fates, Types, Serving, SessionSurvives, Heard, TokenAssumption, Known
    <3> QED BY <1>1, <2>1, <3>1 DEF Inv, Unspent, Heard
  <2>6. Waiters'
    BY <1>1, <2>1 DEF Inv, Waiters, Own
  <2> QED BY <2>2, <2>3, <2>4, <2>5, <2>6 DEF Inv
<1>3. CASE Own(p) # {}
  <2>1. calls' = calls
    BY <1>3 DEF CallOnce
  <2>2. Types' /\ OneCall' /\ Fates' /\ Serving' /\ SessionSurvives' /\ Successors' /\ Unspent'
    BY <2>1 DEF Inv, Types, OneCall, Fates, Serving, SessionSurvives, Successors, Unspent, Known, Steps, Heard
  <2>3. Waiters'
    BY <1>3, <2>1 DEF Inv, Waiters, Own
  <2> QED BY <2>2, <2>3 DEF Inv
<1> QED BY <1>2, <1>3

(* What is in the store was issued and has no fate yet.                        *)
LEMMA StoredTokens ==
  ASSUME TokenAssumption, Inv
  PROVE  /\ issued \in 0..MaxTokens /\ MaxTokens \in Nat /\ valid \subseteq 1..issued /\ strays \subseteq valid
         /\ 1..issued \subseteq Token /\ \A n \in valid : fate[n] = None
<1>1. issued \in 0..MaxTokens /\ MaxTokens \in Nat /\ valid \subseteq 1..issued /\ strays \subseteq valid
  BY DEF Inv, Types, TokenAssumption
<1>2. 1..issued \subseteq Token
  BY <1>1 DEF Token
<1> QED BY <1>1, <1>2 DEF Inv, Fates

(* What a call looks like once it goes on.                                     *)
LEMMA GoesOn ==
  ASSUME Inv, NEW c \in calls, NEW x, NEW y, Goes(c, x, y)
  PROVE  \E d : /\ d = Call(c.by, c.token, x, y) /\ calls' = (calls \ {c}) \cup {d}
               /\ d.by = c.by /\ d.token = c.token /\ d.at = x /\ d.next = y
               /\ c.by \in Page /\ c.token \in Known
<1>1. c \in [by : Page, token : Known, at : Steps, next : Known]
  BY DEF Inv, Types
<1>2. [c EXCEPT !.at = x, !.next = y] = Call(c.by, c.token, x, y)
  <2> DEFINE d == [by |-> c.by, token |-> c.token, at |-> x, next |-> c.next]
  <2>1. [c EXCEPT !.at = x] = d
    BY <1>1
  <2>2. [d EXCEPT !.next = y] = [by |-> c.by, token |-> c.token, at |-> x, next |-> y]
    OBVIOUS
  <2>3. [c EXCEPT !.at = x, !.next = y] = [[c EXCEPT !.at = x] EXCEPT !.next = y]
    OBVIOUS
  <2> QED BY <2>1, <2>2, <2>3 DEF Call
<1>3. /\ Call(c.by, c.token, x, y).by = c.by /\ Call(c.by, c.token, x, y).token = c.token
      /\ Call(c.by, c.token, x, y).at = x /\ Call(c.by, c.token, x, y).next = y
  BY DEF Call
<1>4. calls' = (calls \ {c}) \cup {Call(c.by, c.token, x, y)}
  BY <1>2 DEF Goes
<1>5. c.by \in Page /\ c.token \in Known
  BY <1>1
<1> QED BY <1>3, <1>4, <1>5

LEMMA UseKeeps ==
  ASSUME TokenAssumption, Inv, NEW c \in calls, Use(c)
  PROVE  Inv'
<1> USE DEF Token
<1>1. PICK d : /\ d = Call(c.by, c.token, "used", None) /\ calls' = (calls \ {c}) \cup {d}
               /\ d.by = c.by /\ d.token = c.token /\ d.at = "used" /\ d.next = None
               /\ c.by \in Page /\ c.token \in Known
  BY GoesOn DEF Use
<1>2. /\ c.at = "sent" /\ c.token \in valid /\ valid' = valid \ {c.token}
      /\ strays' = strays \ {c.token} /\ fate' = [fate EXCEPT ![c.token] = c.by]
      /\ UNCHANGED <<issued, cookie, waiting>>
  BY DEF Use, Consume
<1>3. valid \subseteq 1..issued /\ issued \in 0..MaxTokens /\ MaxTokens \in Nat /\ c.token \in Token
  BY <1>2, StoredTokens
<1>4. fate[c.token] = None /\ c.by # None /\ c.by # "lost"
  BY <1>1, <1>2, <1>3 DEF Inv, Fates, TokenAssumption
<1>5. Types'
  <2>1. d \in [by : Page, token : Known, at : Steps, next : Known]
    BY <1>1 DEF Call, Known, Steps
  <2> QED BY <1>1, <1>2, <2>1 DEF Inv, Types, Known, Steps
<1>6. OneCall'
  BY <1>1 DEF Inv, OneCall
<1>7. Fates'
  BY <1>2, <1>3, <1>4 DEF Inv, Fates, Types
<1>8. \A e \in calls : Heard(e) => e # c /\ e.token # c.token /\ e.token \in Token
  BY <1>2, <1>3, <1>4 DEF Inv, Serving, Heard, Types, TokenAssumption
<1>9. fate'[c.token] = c.by /\ \A n \in Token : n # c.token => fate'[n] = fate[n]
  BY <1>2, <1>3 DEF Inv, Types
<1>10. Serving'
  <2> SUFFICES ASSUME NEW e \in calls', Heard(e) PROVE e.token \in 1..issued' /\ fate'[e.token] = e.by
    BY DEF Serving
  <2>1. CASE e = d
    BY <1>1, <1>2, <1>3, <1>9, <2>1
  <2>2. CASE e \in calls
    BY <1>2, <1>8, <1>9, <2>2 DEF Inv, Serving
  <2> QED BY <1>1, <2>1, <2>2
<1>11. Successors'
  <2>1. \A e \in calls : e.at = "answered" => e # c /\ e.next # c.token
    BY <1>2 DEF Inv, Successors
  <2> QED BY <1>1, <1>2, <2>1 DEF Inv, Successors
<1>12. Unspent'
  <2> SUFFICES ASSUME NEW e \in calls', ~Heard(e), e.token \in Token PROVE fate'[e.token] # e.by
    BY DEF Unspent
  <2>1. e \in calls /\ e # c
    BY <1>1 DEF Heard
  <2>2. e.by # c.by
    BY <2>1 DEF Inv, OneCall
  <2> QED BY <1>9, <2>1, <2>2 DEF Inv, Unspent
<1>13. Waiters'
  BY <1>1, <1>2 DEF Inv, Waiters, Own
<1>14. SessionSurvives'
  <2>1. CASE cookie = c.token
    BY <1>1, <1>2, <2>1 DEF SessionSurvives
  <2>2. CASE cookie # c.token
    <3>1. cookie # None => cookie \in Token
      BY <1>3 DEF Inv, Types, Known
    <3> QED BY <1>1, <1>2, <1>8, <1>9, <2>2, <3>1 DEF Inv, SessionSurvives, Heard
  <2> QED BY <2>1, <2>2
<1> QED BY <1>5, <1>6, <1>7, <1>10, <1>11, <1>12, <1>13, <1>14 DEF Inv

LEMMA RefuseKeeps ==
  ASSUME TokenAssumption, Inv, NEW c \in calls, Refuse(c)
  PROVE  Inv'
<1> USE DEF Token
<1>1. PICK d : /\ d = Call(c.by, c.token, "refused", None) /\ calls' = (calls \ {c}) \cup {d}
               /\ d.by = c.by /\ d.token = c.token /\ d.at = "refused" /\ d.next = None
               /\ c.by \in Page /\ c.token \in Known
  BY GoesOn DEF Refuse
<1>2. c.at = "sent" /\ UNCHANGED <<valid, issued, cookie, strays, waiting, fate>>
  BY DEF Refuse
<1>3. Types'
  <2>1. d \in [by : Page, token : Known, at : Steps, next : Known]
    BY <1>1 DEF Call, Known, Steps
  <2> QED BY <1>1, <1>2, <2>1 DEF Inv, Types, Known, Steps
<1>4. OneCall' /\ Fates'
  BY <1>1, <1>2 DEF Inv, OneCall, Fates
<1>5. Serving' /\ SessionSurvives'
  BY <1>1, <1>2 DEF Inv, Serving, SessionSurvives, Heard
<1>6. Successors'
  BY <1>1, <1>2 DEF Inv, Successors
<1>7. Unspent'
  BY <1>1, <1>2 DEF Inv, Unspent, Heard
<1>8. Waiters'
  BY <1>1, <1>2 DEF Inv, Waiters, Own
<1> QED BY <1>3, <1>4, <1>5, <1>6, <1>7, <1>8 DEF Inv

(* Nobody has heard of the token that is issued.                              *)
LEMMA IssueKeeps ==
  ASSUME TokenAssumption, Inv, NEW c \in calls, IssuePair(c)
  PROVE  Inv'
<1> USE DEF Token
<1> DEFINE n == issued + 1
<1>1. PICK d : /\ d = Call(c.by, c.token, "answered", n) /\ calls' = (calls \ {c}) \cup {d}
               /\ d.by = c.by /\ d.token = c.token /\ d.at = "answered" /\ d.next = n
               /\ c.by \in Page /\ c.token \in Known
  BY GoesOn DEF IssuePair
<1>2. /\ c.at = "used" /\ issued < MaxTokens /\ issued' = n /\ valid' = valid \cup {n}
      /\ UNCHANGED <<cookie, strays, waiting, fate>>
  BY DEF IssuePair, Store
<1>3. issued \in Nat /\ n \in 0..MaxTokens /\ 1..issued' = 1..issued \cup {n} /\ n \notin Known
  BY <1>2 DEF Inv, Types, TokenAssumption, Known
<1> HIDE DEF n
<1>4. Known' = Known \cup {n}
  BY <1>2, <1>3 DEF Known
<1>5. /\ cookie \in Known /\ strays \subseteq Known /\ valid \subseteq 1..issued
      /\ \A e \in calls : e.token \in Known /\ e.next \in Known
  BY DEF Inv, Types, Known
<1>6. Types'
  <2>1. d \in [by : Page, token : Known', at : Steps, next : Known']
    BY <1>1, <1>4 DEF Call, Steps
  <2>2. calls' \subseteq [by : Page, token : Known', at : Steps, next : Known']
    BY <1>1, <1>4, <2>1 DEF Inv, Types
  <2> QED BY <1>2, <1>3, <1>4, <2>2 DEF Inv, Types, Steps
<1>7. OneCall'
  BY <1>1 DEF Inv, OneCall
<1>8. Fates'
  <2>1. \A m \in Token : m \in valid' \/ m > issued' <=> m \in valid \/ m > issued
    BY <1>2, <1>3 DEF n
  <2> QED BY <1>2, <2>1 DEF Inv, Fates
<1>9. Serving' /\ SessionSurvives'
  BY <1>1, <1>2, <1>3 DEF Inv, Serving, SessionSurvives, Heard
<1>10. Successors'
  BY <1>1, <1>2, <1>3, <1>5 DEF Inv, Successors
<1>11. Unspent'
  BY <1>1, <1>2 DEF Inv, Unspent, Heard
<1>12. Waiters'
  BY <1>1, <1>2 DEF Inv, Waiters, Own
<1> QED BY <1>6, <1>7, <1>8, <1>9, <1>10, <1>11, <1>12 DEF Inv

(* The successor that arrives is usable, and nobody else has it.               *)
LEMMA ReceiveKeeps ==
  ASSUME TokenAssumption, Inv, NEW c \in calls, Receive(c)
  PROVE  Inv'
<1> USE DEF Token
<1>1. /\ c.at = "answered" /\ cookie' = c.next /\ waiting' = [waiting EXCEPT ![c.by] = 0]
      /\ calls' = calls \ {c} /\ UNCHANGED <<valid, issued, strays, fate>>
  BY DEF Receive
<1>2. c.by \in Page /\ c.next \in valid
  BY <1>1 DEF Inv, Types, Successors
<1>3. Types' /\ OneCall' /\ Fates' /\ Serving' /\ Unspent' /\ SessionSurvives'
  BY <1>1, <1>2 DEF Inv, Types, OneCall, Fates, Serving, Unspent, SessionSurvives, Known, Steps, Heard
<1>4. Successors'
  BY <1>1 DEF Inv, Successors
<1>5. Waiters'
  <2> SUFFICES ASSUME NEW q \in Page, waiting'[q] > 0 PROVE Own(q)' # {}
    BY DEF Waiters
  <2>1. q # c.by /\ waiting[q] > 0
    BY <1>1, <1>2 DEF Inv, Types
  <2> QED BY <1>1, <2>1 DEF Inv, Waiters, Own
<1> QED BY <1>3, <1>4, <1>5 DEF Inv

(* What a call was heard to use is lost with its answer.                       *)
LEMMA GiveUpKeeps ==
  ASSUME TokenAssumption, Inv, NEW c \in calls, GiveUp(c)
  PROVE  Inv'
<1> USE DEF Token
<1>1. c.by \in Page
  BY DEF Inv, Types
<1>2. CASE waiting[c.by] > 0
  BY <1>1, <1>2, LoadKeeps DEF GiveUp
<1>3. CASE ~(waiting[c.by] > 0)
  <2>1. /\ calls' = calls \ {c} /\ UNCHANGED <<valid, issued, cookie, waiting>>
        /\ strays' \subseteq valid /\ \A n \in strays' : n \in strays \/ n = c.token
    BY <1>3 DEF GiveUp, Abandon
  <2>2. /\ fate' \in [Token -> Page \cup {None, "lost"}]
        /\ \A n \in Token : fate'[n] = IF Heard(c) /\ c.token = n THEN "lost" ELSE fate[n]
    <3>1. fate' = [n \in Token |-> IF n \in {e.token : e \in {d \in {c}: d.at \in {"used", "answered"}}}
                                    THEN "lost" ELSE fate[n]]
      BY <1>3 DEF GiveUp, Abandon, Lose
    <3>2. \A n : n \in {e.token : e \in {d \in {c}: d.at \in {"used", "answered"}}} <=> Heard(c) /\ c.token = n
      BY DEF Heard
    <3>3. fate \in [Token -> Page \cup {None, "lost"}]
      BY DEF Inv, Types
    <3> HIDE DEF Token
    <3> QED BY <3>1, <3>2, <3>3
  <2>3. Types'
    BY <2>1, <2>2 DEF Inv, Types, Known, Steps
  <2>4. OneCall'
    BY <2>1 DEF Inv, OneCall
  <2>5. Heard(c) => c.token \in 1..issued /\ fate[c.token] = c.by
    BY DEF Inv, Serving
  <2>6. Fates'
    <3> SUFFICES ASSUME NEW n \in Token PROVE fate'[n] = None <=> n \in valid \/ n > issued
      BY <2>1 DEF Fates
    <3>1. fate[n] = None <=> n \in valid \/ n > issued
      BY DEF Inv, Fates
    <3> QED BY <1>1, <2>2, <2>5, <3>1 DEF TokenAssumption
  <2>7. Serving'
    <3> SUFFICES ASSUME NEW e \in calls, e # c, Heard(e)
                 PROVE  e.token \in 1..issued /\ fate'[e.token] = e.by
      BY <2>1 DEF Serving
    <3>1. e.token \in 1..issued /\ fate[e.token] = e.by /\ e.token \in Token
      BY DEF Inv, Serving, Types, TokenAssumption
    <3>2. e.by # c.by
      BY DEF Inv, OneCall
    <3> QED BY <2>2, <2>5, <3>1, <3>2
  <2>8. Successors'
    BY <2>1 DEF Inv, Successors
  <2>9. Unspent'
    BY <2>1, <2>2 DEF Inv, Unspent, Types, TokenAssumption
  <2>10. Waiters'
    BY <1>3, <2>1 DEF Inv, Waiters, Own
  <2>11. SessionSurvives'
    <3> SUFFICES ASSUME cookie # None, cookie \notin valid, fate'[cookie] # "lost"
                 PROVE  \E e \in calls' : e.token = cookie /\ e.at \in {"used", "answered"}
      BY <2>1 DEF SessionSurvives
    <3>1. cookie \in Token
      BY DEF Inv, Types, Known, TokenAssumption
    <3>2. fate[cookie] # "lost" /\ ~(Heard(c) /\ c.token = cookie)
      BY <2>2, <3>1
    <3> QED BY <2>1, <3>2 DEF Inv, SessionSurvives, Heard
  <2> QED BY <2>3, <2>4, <2>6, <2>7, <2>8, <2>9, <2>10, <2>11 DEF Inv
<1> QED BY <1>2, <1>3

-----------------------------------------------------------------------------
(* A token that is used up where no page hears of it is lost.                  *)
LEMMA LoseKeeps ==
  ASSUME TokenAssumption, Inv, NEW n \in valid,
         \A c \in calls: c.at = "answered" => c.next # n,
         valid' = valid \ {n}, fate' = Lose({n}), strays' = strays \ {n},
         UNCHANGED <<issued, cookie, calls, waiting>>
  PROVE  Inv'
<1> USE DEF Token
<1>1. n \in Token /\ fate[n] = None /\ n \in 1..issued
  BY StoredTokens
<1>2. /\ fate' \in [Token -> Page \cup {None, "lost"}]
      /\ \A m \in Token : fate'[m] = IF m = n THEN "lost" ELSE fate[m]
  BY DEF Lose, Inv, Types
<1>3. Types'
  BY <1>2 DEF Inv, Types, Known, Steps
<1>4. OneCall' /\ Waiters'
  BY DEF Inv, OneCall, Waiters, Own
<1>5. Fates'
  <2> SUFFICES ASSUME NEW m \in Token PROVE fate'[m] = None <=> m \in valid' \/ m > issued
    BY DEF Fates
  <2>1. fate[m] = None <=> m \in valid \/ m > issued
    BY DEF Inv, Fates
  <2>2. ~(n > issued)
    BY <1>1, StoredTokens
  <2> QED BY <1>2, <2>1, <2>2 DEF TokenAssumption
<1>6. Serving'
  <2> SUFFICES ASSUME NEW e \in calls, Heard(e) PROVE e.token \in 1..issued /\ fate'[e.token] = e.by
    BY DEF Serving
  <2>1. e.token \in 1..issued /\ fate[e.token] = e.by /\ e.token \in Token /\ e.by \in Page
    BY DEF Inv, Serving, Types, TokenAssumption
  <2> QED BY <1>1, <1>2, <2>1 DEF TokenAssumption
<1>7. Successors'
  BY DEF Inv, Successors
<1>8. Unspent'
  <2> SUFFICES ASSUME NEW e \in calls, ~Heard(e), e.token \in Token PROVE fate'[e.token] # e.by
    BY DEF Unspent, Heard
  <2>1. e.by \in Page /\ fate[e.token] # e.by
    BY DEF Inv, Types, Unspent
  <2> QED BY <1>2, <2>1 DEF TokenAssumption
<1>9. SessionSurvives'
  <2>1. CASE cookie = n
    BY <1>1, <1>2, <2>1 DEF SessionSurvives
  <2>2. CASE cookie # n
    <3>1. cookie # None => cookie \in Token
      BY StoredTokens DEF Inv, Types, Known
    <3> QED BY <1>2, <2>2, <3>1 DEF Inv, SessionSurvives
  <2> QED BY <2>1, <2>2
<1> QED BY <1>3, <1>4, <1>5, <1>6, <1>7, <1>8, <1>9 DEF Inv

LEMMA LogOutKeeps ==
  ASSUME TokenAssumption, Inv, NEW p \in Page, LogOut(p)
  PROVE  Inv'
<1>1. /\ valid' = valid \ {cookie} /\ strays' = strays \ {cookie}
      /\ fate' = (IF cookie \in valid THEN Lose({cookie}) ELSE fate)
      /\ UNCHANGED <<issued, cookie, calls, waiting>>
  BY DEF LogOut
<1>2. CASE cookie \in valid
  BY <1>1, <1>2, LoseKeeps DEF Inv, Successors
<1>3. CASE cookie \notin valid
  <2>1. UNCHANGED <<valid, strays, fate>>
    BY <1>1, <1>3 DEF Inv, Types
  <2> QED BY <1>1, <2>1 DEF Inv, Types, OneCall, Fates, Serving, Successors, Unspent, Waiters,
                            SessionSurvives, Known, Steps, Heard, Own
<1> QED BY <1>2, <1>3

LEMMA LoggedOutKeeps ==
  ASSUME TokenAssumption, Inv, NEW p \in Page, LoggedOut(p)
  PROVE  Inv'
<1>1. cookie' \in {cookie, None} /\ UNCHANGED <<valid, issued, calls, strays, waiting, fate>>
  BY DEF LoggedOut
<1>2. \A n \in valid : n # None
  BY DEF Inv, Types, TokenAssumption
<1>3. Types' /\ SessionSurvives'
  BY <1>1 DEF Inv, Types, SessionSurvives, Known, Steps
<1>4. Successors'
  BY <1>1, <1>2 DEF Inv, Successors
<1> QED BY <1>1, <1>3, <1>4 DEF Inv, OneCall, Fates, Serving, Unspent, Waiters, Heard, Own

-----------------------------------------------------------------------------
LEMMA InitInv == TokenAssumption /\ Init => Inv
<1> SUFFICES ASSUME TokenAssumption, Init PROVE Inv
  OBVIOUS
<1>1. Types
  BY DEF Init, Types, Known, Token, TokenAssumption
<1> QED BY <1>1 DEF Init, Inv, OneCall, Fates, Serving, Successors, Unspent, Waiters, SessionSurvives,
                    Token, TokenAssumption

LEMMA NextInv == TokenAssumption /\ Inv /\ [Next]_tokenVars => Inv'
<1> SUFFICES ASSUME TokenAssumption, Inv, [Next]_tokenVars PROVE Inv'
  OBVIOUS
<1>1. ASSUME NEW p \in Page, Reload(p) PROVE Inv'
  BY <1>1, LoadKeeps DEF Reload
<1>2. ASSUME NEW p \in Page, ShownAgain(p) PROVE Inv'
  <2>1. /\ calls' = calls \cup CallOnce(p)
        /\ UNCHANGED <<valid, issued, cookie, strays, waiting, fate>> /\ waiting \in [Page -> Nat]
    BY <1>2 DEF ShownAgain, Inv, Types
  <2> QED BY <2>1, AskKeeps
<1>3. ASSUME NEW p \in Page, LogIn(p) PROVE Inv'
  BY <1>3, LoadKeeps DEF LogIn
<1>4. ASSUME NEW p \in Page, LogOut(p) PROVE Inv'
  BY <1>4, LogOutKeeps
<1>5. ASSUME NEW p \in Page, LoggedOut(p) PROVE Inv'
  BY <1>5, LoggedOutKeeps
<1>6. ASSUME NEW p \in Page, AccessExpired(p) PROVE Inv'
  <2>1. /\ calls' = calls \cup CallOnce(p) /\ waiting' = [waiting EXCEPT ![p] = @ + 1]
        /\ UNCHANGED <<valid, issued, cookie, strays, fate>> /\ waiting \in [Page -> Nat]
    BY <1>6 DEF AccessExpired, Inv, Types
  <2>2. waiting' \in [Page -> Nat] /\ \A q \in Page \ {p}: waiting'[q] = waiting[q]
    BY <2>1
  <2> QED BY <2>1, <2>2, AskKeeps
<1>7. ASSUME NEW c \in calls, Use(c) PROVE Inv'
  BY <1>7, UseKeeps
<1>8. ASSUME NEW c \in calls, Refuse(c) PROVE Inv'
  BY <1>8, RefuseKeeps
<1>9. ASSUME NEW c \in calls, IssuePair(c) PROVE Inv'
  BY <1>9, IssueKeeps
<1>10. ASSUME NEW c \in calls, Receive(c) PROVE Inv'
  BY <1>10, ReceiveKeeps
<1>11. ASSUME NEW c \in calls, GiveUp(c) PROVE Inv'
  BY <1>11, GiveUpKeeps
<1>12. ASSUME NEW n \in strays, UseUnheard(n) PROVE Inv'
  <2>1. n \in valid /\ \A c \in calls: c.at = "answered" => c.next # n
    BY <1>12 DEF Inv, Types, Successors
  <2> QED BY <1>12, <2>1, LoseKeeps DEF UseUnheard, Consume
<1>13. ASSUME UNCHANGED tokenVars PROVE Inv'
  BY <1>13 DEF tokenVars, Inv, Types, OneCall, Fates, Serving, Successors, Unspent, Waiters,
               SessionSurvives, Known, Steps, Heard, Own
<1> QED BY <1>1, <1>2, <1>3, <1>4, <1>5, <1>6, <1>7, <1>8, <1>9, <1>10, <1>11, <1>12, <1>13 DEF Next

LEMMA SpecInv == ASSUME TokenAssumption PROVE Spec => []Inv
BY InitInv, NextInv, PTL DEF Spec

LEMMA InvServesOnce == Inv => TokensServeOnce
<1> SUFFICES ASSUME Inv PROVE TokensServeOnce
  OBVIOUS
<1>1. ASSUME NEW c \in calls, NEW d \in calls, c # d, {c.at, d.at} \subseteq {"used", "answered"}
      PROVE  c.token # d.token
  BY <1>1 DEF Inv, Serving, Heard, OneCall
<1>2. \A c \in calls: c.at = "refused" /\ c.token \in Token => fate[c.token] # c.by
  BY DEF Inv, Unspent, Heard
<1> QED BY <1>1, <1>2 DEF TokensServeOnce, Inv, Waiters

(* The browser is never left with a token that is worth nothing, unless the      *)
(* answer that brought its successor was lost; a refresh token has one           *)
(* successor, no page shows a token it used itself, and a request that waits has *)
(* a call to wait for (AuthTokenService, client.ts).                            *)
THEOREM UserStaysLoggedIn ==
  ASSUME TokenAssumption PROVE Spec => []StaysLoggedIn
<1>1. Inv => StaysLoggedIn
  BY InvServesOnce DEF Inv, StaysLoggedIn
<1> QED BY SpecInv, <1>1, PTL

-----------------------------------------------------------------------------
Jobs == removals \cup {cleaner}

FileTypes ==
  /\ file_rows \in [Key -> {"none", "pending", "confirmed"}]
  /\ aged \subseteq Key /\ bucket \subseteq Key /\ on_way \subseteq Key /\ arrived \subseteq Key
  /\ uploads \in [Files!Submit -> {"asks", "puts", "over"}] /\ diagnosed \subseteq Files!Submit
  /\ removals \subseteq [keys : SUBSET Key, at : {"objects", "rows"}]
  /\ cleaner \in [keys : SUBSET Key, at : {"rests", "objects", "rows"}]

Asking == \A k \in Key: uploads[k[1]] = "asks" => k \notin on_way \cup arrived

Putting ==
  \A k \in Key: uploads[k[1]] = "puts" => file_rows[k] = "pending" /\ (k \in arrived => k \in bucket)

OnTheWay == \A k \in on_way: k \notin arrived /\ file_rows[k] # "none"

Used ==
  \A s \in diagnosed:
    uploads[s] = "over" /\ \A k \in Files!KeysOf(s): k \in bucket \ on_way /\ file_rows[k] = "confirmed"

Old == \A k \in aged: uploads[k[1]] = "over" /\ k \notin on_way

Useless(k) == uploads[k[1]] = "over" /\ k[1] \notin diagnosed /\ k \notin on_way

Deleting ==
  \A job \in Jobs: \A k \in job.keys:
    Useless(k) /\ (job.at = "rows" /\ k \in bucket => k \in refused)

FileInv == FileTypes /\ Asking /\ Putting /\ OnTheWay /\ Used /\ Old /\ Deleting /\ Files!ObjectsAreKnown

-----------------------------------------------------------------------------
LEMMA KeysAndSubmits ==
  /\ \A k \in Key: k[1] \in Files!Submit /\ k \in Files!KeysOf(k[1])
  /\ \A s: \A k \in Files!KeysOf(s): k \in Key /\ k[1] = s
BY DEF Files!Submit, Files!KeysOf

LEMMA FileInitInv == Files!Init => FileInv
BY DEF Files!Init, FileInv, FileTypes, Asking, Putting, OnTheWay, Used, Old, Deleting, Jobs, Files!Resting, Files!ObjectsAreKnown, Files!Submit

LEMMA PresignKeeps ==
  ASSUME FileInv, NEW k \in Key, Files!Presign(k) PROVE FileInv'
<1>1. /\ uploads[k[1]] = "asks" /\ file_rows[k] = "none" /\ file_rows' = [file_rows EXCEPT ![k] = "pending"]
      /\ UNCHANGED <<aged, bucket, uploads, on_way, arrived, diagnosed, removals, refused, cleaner>>
  BY DEF Files!Presign
<1>2. file_rows'[k] = "pending" /\ \A j \in Key \ {k}: file_rows'[j] = file_rows[j]
  BY <1>1 DEF FileInv, FileTypes
<1>3. FileTypes'
  BY <1>1 DEF FileInv, FileTypes
<1>4. Asking' /\ Old' /\ Deleting'
  BY <1>1 DEF FileInv, Asking, Old, Deleting, Jobs, Useless
<1>5. Putting' /\ OnTheWay'
  BY <1>1, <1>2 DEF FileInv, Putting, OnTheWay, FileTypes
<1>6. Used'
  BY <1>1, <1>2, KeysAndSubmits DEF FileInv, Used, Files!KeysOf
<1>7. Files!ObjectsAreKnown'
  BY <1>1, <1>2 DEF FileInv, Files!ObjectsAreKnown, FileTypes
<1> QED BY <1>3, <1>4, <1>5, <1>6, <1>7 DEF FileInv

LEMMA PresignedKeeps ==
  ASSUME FileInv, NEW s \in Files!Submit, Files!Presigned(s) PROVE FileInv'
<1>1. /\ uploads[s] = "asks" /\ (\A k \in Files!KeysOf(s): file_rows[k] = "pending")
      /\ uploads' = [uploads EXCEPT ![s] = "puts"] /\ on_way' = on_way \cup Files!KeysOf(s)
      /\ UNCHANGED <<file_rows, aged, bucket, arrived, diagnosed, removals, refused, cleaner>>
  BY DEF Files!Presigned
<1>2. uploads'[s] = "puts" /\ \A t \in Files!Submit \ {s}: uploads'[t] = uploads[t]
  BY <1>1 DEF FileInv, FileTypes
<1>3. \A k \in Key: uploads[k[1]] = "over" => uploads'[k[1]] = "over" /\ (k \notin on_way => k \notin on_way')
  BY <1>1, <1>2, KeysAndSubmits
<1>4. FileTypes'
  BY <1>1, KeysAndSubmits DEF FileInv, FileTypes
<1>5. Asking' /\ Putting' /\ OnTheWay'
  BY <1>1, <1>2, KeysAndSubmits DEF FileInv, Asking, Putting, OnTheWay
<1>6. Used'
  <2> SUFFICES ASSUME NEW t \in diagnosed
               PROVE  uploads'[t] = "over" /\ \A k \in Files!KeysOf(t): k \in bucket' \ on_way' /\ file_rows'[k] = "confirmed"
    BY <1>1 DEF Used, Files!KeysOf
  <2>1. uploads[t] = "over" /\ t # s /\ t \in Files!Submit
    BY <1>1 DEF FileInv, Used, FileTypes
  <2> QED BY <1>1, <1>2, <2>1, KeysAndSubmits DEF FileInv, Used
<1>7. Old' /\ Deleting'
  <2>1. \A job \in Jobs: job.keys \subseteq Key
    BY DEF FileInv, FileTypes, Jobs
  <2> QED BY <1>1, <1>3, <2>1 DEF FileInv, Old, Deleting, Jobs, Useless, FileTypes
<1>8. Files!ObjectsAreKnown'
  BY <1>1 DEF FileInv, Files!ObjectsAreKnown
<1> QED BY <1>4, <1>5, <1>6, <1>7, <1>8 DEF FileInv

LEMMA PutKeeps ==
  ASSUME FileInv, NEW k \in Key, Files!Put(k) PROVE FileInv'
<1>1. /\ k \in on_way /\ bucket' = bucket \cup {k} /\ on_way' = on_way \ {k} /\ arrived' = arrived \cup {k}
      /\ UNCHANGED <<file_rows, aged, uploads, diagnosed, removals, refused, cleaner>>
  BY DEF Files!Put
<1>2. FileTypes'
  BY <1>1 DEF FileInv, FileTypes
<1>3. Asking' /\ Putting' /\ OnTheWay' /\ Old'
  BY <1>1 DEF FileInv, Asking, Putting, OnTheWay, Old
<1>4. Used'
  BY <1>1 DEF FileInv, Used, Files!KeysOf
<1>5. Deleting'
  BY <1>1 DEF FileInv, Deleting, Jobs, Useless
<1>6. Files!ObjectsAreKnown'
  BY <1>1 DEF FileInv, OnTheWay, Files!ObjectsAreKnown
<1> QED BY <1>2, <1>3, <1>4, <1>5, <1>6 DEF FileInv

LEMMA FileGiveUpKeeps ==
  ASSUME FileInv, NEW s \in Files!Submit, Files!GiveUp(s) PROVE FileInv'
<1>1. /\ uploads' = [uploads EXCEPT ![s] = "over"]
      /\ UNCHANGED <<file_rows, aged, bucket, on_way, arrived, diagnosed, removals, refused, cleaner>>
  BY DEF Files!GiveUp
<1>2. \A t \in Files!Submit: uploads'[t] = uploads[t] \/ uploads'[t] = "over"
  BY <1>1 DEF FileInv, FileTypes
<1>3. FileTypes'
  BY <1>1 DEF FileInv, FileTypes
<1>4. Asking' /\ Putting' /\ OnTheWay' /\ Files!ObjectsAreKnown'
  BY <1>1, <1>2, KeysAndSubmits DEF FileInv, Asking, Putting, OnTheWay, Files!ObjectsAreKnown
<1>5. Used'
  BY <1>1, <1>2 DEF FileInv, Used, Files!KeysOf, FileTypes
<1>6. Old' /\ Deleting'
  <2>1. \A job \in Jobs: job.keys \subseteq Key
    BY DEF FileInv, FileTypes, Jobs
  <2> QED BY <1>1, <1>2, <2>1, KeysAndSubmits DEF FileInv, Old, Deleting, Jobs, Useless, FileTypes
<1> QED BY <1>3, <1>4, <1>5, <1>6 DEF FileInv

(* What has arrived for the page is still there when it creates the diagnosis.  *)
LEMMA CreateKeeps ==
  ASSUME FileInv, NEW s \in Files!Submit, Files!CreateDiagnoses(s) PROVE FileInv'
<1>1. /\ uploads[s] = "puts" /\ Files!KeysOf(s) \subseteq arrived
      /\ uploads' = [uploads EXCEPT ![s] = "over"] /\ diagnosed' = diagnosed \cup {s}
      /\ file_rows' = Files!Confirmed(Files!KeysOf(s))
      /\ UNCHANGED <<aged, bucket, on_way, arrived, removals, refused, cleaner>>
  BY DEF Files!CreateDiagnoses
<1>2. uploads'[s] = "over" /\ \A t \in Files!Submit \ {s}: uploads'[t] = uploads[t]
  BY <1>1 DEF FileInv, FileTypes
<1>3. /\ \A k \in Key: file_rows'[k] = IF k[1] = s /\ file_rows[k] # "none" THEN "confirmed" ELSE file_rows[k]
      /\ file_rows' \in [Key -> {"none", "pending", "confirmed"}]
  BY <1>1 DEF Files!Confirmed, Files!KeysOf, FileInv, FileTypes
<1>4. \A k \in Files!KeysOf(s): k \in Key /\ k[1] = s /\ k \in bucket /\ k \notin on_way /\ file_rows[k] = "pending"
  BY <1>1, KeysAndSubmits DEF FileInv, Putting, OnTheWay
<1>5. FileTypes'
  BY <1>1, <1>3 DEF FileInv, FileTypes
<1>6. Asking' /\ Putting' /\ OnTheWay'
  BY <1>1, <1>2, <1>3, KeysAndSubmits DEF FileInv, Asking, Putting, OnTheWay, FileTypes
<1>7. Used'
  <2> SUFFICES ASSUME NEW t \in diagnosed'
               PROVE  uploads'[t] = "over" /\ \A k \in Files!KeysOf(t): k \in bucket' \ on_way' /\ file_rows'[k] = "confirmed"
    BY DEF Used, Files!KeysOf
  <2>1. CASE t = s
    BY <1>1, <1>2, <1>3, <1>4, <2>1
  <2>2. CASE t # s
    BY <1>1, <1>2, <1>3, <2>2, KeysAndSubmits DEF FileInv, Used, FileTypes
  <2> QED BY <2>1, <2>2
<1>8. Old' /\ Deleting'
  <2>1. \A k \in Key: uploads[k[1]] = "over" => k[1] # s /\ uploads'[k[1]] = "over"
    BY <1>1, <1>2, KeysAndSubmits
  <2>2. \A job \in Jobs: job.keys \subseteq Key
    BY DEF FileInv, FileTypes, Jobs
  <2> QED BY <1>1, <2>1, <2>2 DEF FileInv, Old, Deleting, Jobs, Useless, FileTypes
<1>9. Files!ObjectsAreKnown'
  BY <1>1, <1>3 DEF FileInv, Files!ObjectsAreKnown, FileTypes
<1> QED BY <1>5, <1>6, <1>7, <1>8, <1>9 DEF FileInv

LEMMA RemoveKeeps ==
  ASSUME FileInv, NEW s \in Files!Submit, Files!Remove(s) PROVE FileInv'
<1> DEFINE job == [keys |-> Files!KeysOf(s), at |-> "objects"]
<1>1. /\ s \in diagnosed /\ diagnosed' = diagnosed \ {s} /\ removals' = removals \cup {job}
      /\ UNCHANGED <<file_rows, aged, bucket, uploads, on_way, arrived, refused, cleaner>>
  BY DEF Files!Remove
<1>2. job.keys = Files!KeysOf(s) /\ job.at = "objects" /\ job \in [keys : SUBSET Key, at : {"objects", "rows"}]
  BY KeysAndSubmits
<1> HIDE DEF job
<1>3. FileTypes'
  BY <1>1, <1>2 DEF FileInv, FileTypes
<1>4. Asking' /\ Putting' /\ OnTheWay' /\ Old' /\ Files!ObjectsAreKnown'
  BY <1>1 DEF FileInv, Asking, Putting, OnTheWay, Old, Files!ObjectsAreKnown
<1>5. Used'
  BY <1>1 DEF FileInv, Used, Files!KeysOf
<1>6. \A k \in Files!KeysOf(s): Useless(k)'
  BY <1>1, KeysAndSubmits DEF FileInv, Used, Useless
<1>7. Deleting'
  BY <1>1, <1>2, <1>6 DEF FileInv, Deleting, Jobs, Useless
<1> QED BY <1>3, <1>4, <1>5, <1>7 DEF FileInv

LEMMA DayKeeps ==
  ASSUME FileInv, NEW k \in Key, Files!DayPasses(k) PROVE FileInv'
<1>1. /\ uploads[k[1]] = "over" /\ aged' = aged \cup {k} /\ on_way' = on_way \ {k}
      /\ UNCHANGED <<file_rows, bucket, uploads, arrived, diagnosed, removals, refused, cleaner>>
  BY DEF Files!DayPasses
<1>2. FileTypes'
  BY <1>1 DEF FileInv, FileTypes
<1>3. Asking' /\ Putting' /\ OnTheWay' /\ Old' /\ Files!ObjectsAreKnown'
  BY <1>1 DEF FileInv, Asking, Putting, OnTheWay, Old, Files!ObjectsAreKnown
<1>4. Used'
  BY <1>1 DEF FileInv, Used, Files!KeysOf
<1>5. Deleting'
  BY <1>1 DEF FileInv, Deleting, Jobs, Useless
<1> QED BY <1>2, <1>3, <1>4, <1>5 DEF FileInv

-----------------------------------------------------------------------------
(* Deletions touch only what is useless: the objects first, and the rows of     *)
(* what is gone or was refused.                                               *)
LEMMA TakeAwayKeeps ==
  ASSUME FileInv, NEW job \in Jobs, job.at # "rests", Files!TakeAway(job), FileTypes',
         UNCHANGED <<uploads, on_way, arrived, diagnosed>>,
         \A j \in Jobs': \/ j \in Jobs \/ j.keys = {}
                         \/ j.keys = job.keys /\ (j.at = "rows" => job.at = "objects")
  PROVE  FileInv'
<1>1. /\ bucket' \subseteq bucket /\ refused \subseteq refused' /\ aged' \subseteq aged
      /\ \A k \in bucket \ bucket': k \in job.keys
      /\ job.at = "objects" => (\A k \in job.keys: k \in bucket' => k \in refused')
  BY DEF Files!TakeAway, Files!Deletion
<1>2. \A k \in Key: file_rows'[k] = IF job.at # "objects" /\ k \in job.keys THEN "none" ELSE file_rows[k]
  BY DEF Files!TakeAway, Files!Deletion
<1>3. job.at \in {"objects", "rows"} /\ job.keys \subseteq Key
  BY DEF FileInv, FileTypes, Jobs
<1>4. \A k \in job.keys: Useless(k)
  BY DEF FileInv, Deleting
<1>5. Asking' /\ Old'
  BY <1>1 DEF FileInv, Asking, Old
<1>6. Putting'
  BY <1>1, <1>2, <1>4 DEF FileInv, Putting, Useless
<1>7. OnTheWay'
  BY <1>2, <1>4 DEF FileInv, OnTheWay, Useless, FileTypes
<1>8. Used'
  BY <1>1, <1>2, <1>4, KeysAndSubmits DEF FileInv, Used, Useless, Files!KeysOf
<1>9. Deleting'
  <2> SUFFICES ASSUME NEW j \in Jobs', NEW k \in j.keys
               PROVE  Useless(k)' /\ (j.at = "rows" /\ k \in bucket' => k \in refused')
    BY DEF Deleting
  <2>1. CASE j \in Jobs
    BY <1>1, <2>1 DEF FileInv, Deleting, Useless
  <2>2. CASE j.keys = job.keys /\ (j.at = "rows" => job.at = "objects")
    BY <1>1, <1>4, <2>2 DEF Useless
  <2> QED BY <2>1, <2>2
<1>10. Files!ObjectsAreKnown'
  <2> SUFFICES ASSUME NEW k \in bucket', file_rows'[k] = "none" PROVE k \in refused'
    BY DEF Files!ObjectsAreKnown
  <2>1. k \in bucket /\ k \in Key
    BY <1>1 DEF FileInv, FileTypes
  <2>2. CASE file_rows[k] = "none"
    BY <1>1, <2>1, <2>2 DEF FileInv, Files!ObjectsAreKnown
  <2>3. CASE file_rows[k] # "none"
    BY <1>1, <1>2, <1>3, <2>1, <2>3 DEF FileInv, Deleting
  <2> QED BY <2>2, <2>3
<1> QED BY <1>5, <1>6, <1>7, <1>8, <1>9, <1>10 DEF FileInv

LEMMA CutKeeps ==
  ASSUME FileInv, NEW job \in Jobs, NEW part \in SUBSET job.keys, Files!Cut(job, part), FileTypes',
         UNCHANGED <<file_rows, aged, uploads, on_way, arrived, diagnosed, refused>>,
         \A j \in Jobs': j \in Jobs \/ j.keys = {}
  PROVE  FileInv'
<1>1. bucket' = bucket \ part /\ \A k \in part: Useless(k)
  BY DEF Files!Cut, FileInv, Deleting
<1>2. Asking' /\ Putting' /\ OnTheWay' /\ Old' /\ Files!ObjectsAreKnown'
  BY <1>1 DEF FileInv, Asking, Putting, OnTheWay, Old, Files!ObjectsAreKnown, Useless
<1>3. Used'
  BY <1>1, KeysAndSubmits DEF FileInv, Used, Useless, Files!KeysOf
<1>4. Deleting'
  BY <1>1 DEF FileInv, Deleting, Useless
<1> QED BY <1>2, <1>3, <1>4 DEF FileInv

LEMMA DeleteRemovedKeeps ==
  ASSUME FileInv, NEW job \in removals, Files!DeleteRemoved(job) PROVE FileInv'
<1> DEFINE later == [job EXCEPT !.at = Files!Deletion(job).next]
<1>1. /\ job \in [keys : SUBSET Key, at : {"objects", "rows"}] /\ job \in Jobs
      /\ Files!Deletion(job).next = IF job.at = "objects" THEN "rows" ELSE "done"
  BY DEF FileInv, FileTypes, Jobs, Files!Deletion
<1>2. later.keys = job.keys /\ later.at = Files!Deletion(job).next
  BY <1>1
<1>3. job.at = "objects" => later \in [keys : SUBSET Key, at : {"objects", "rows"}]
  BY <1>1
<1> HIDE DEF later
<1>4. removals' = (removals \ {job}) \cup (IF job.at = "objects" THEN {later} ELSE {})
  BY <1>1 DEF Files!DeleteRemoved, later
<1>5. FileTypes'
  BY <1>3, <1>4 DEF Files!DeleteRemoved, Files!TakeAway, FileInv, FileTypes
<1> QED BY <1>1, <1>2, <1>4, <1>5, TakeAwayKeeps DEF Files!DeleteRemoved, Jobs

LEMMA CleanUpKeeps ==
  ASSUME FileInv, Files!CleanUp PROVE FileInv'
<1> DEFINE later == [cleaner EXCEPT !.at = Files!Deletion(cleaner).next]
<1>1. /\ cleaner \in [keys : SUBSET Key, at : {"objects", "rows"}] /\ cleaner \in Jobs
      /\ Files!Deletion(cleaner).next = IF cleaner.at = "objects" THEN "rows" ELSE "done"
  BY DEF Files!CleanUp, FileInv, FileTypes, Jobs, Files!Deletion
<1>2. later.keys = cleaner.keys /\ later.at = Files!Deletion(cleaner).next
  BY <1>1
<1>3. cleaner.at = "objects" => later \in [keys : SUBSET Key, at : {"rests", "objects", "rows"}]
  BY <1>1
<1> HIDE DEF later
<1>4. cleaner' = IF cleaner.at = "objects" THEN later ELSE Files!Resting
  BY <1>1 DEF Files!CleanUp, later
<1>5. FileTypes'
  BY <1>3, <1>4 DEF Files!CleanUp, Files!TakeAway, FileInv, FileTypes, Files!Resting
<1> QED BY <1>1, <1>2, <1>4, <1>5, TakeAwayKeeps DEF Files!CleanUp, Jobs, Files!Resting

LEMMA FindExpiredKeeps ==
  ASSUME FileInv, NEW keys \in SUBSET Files!Expired, Files!FindExpired(keys) PROVE FileInv'
<1>1. /\ cleaner' = [keys |-> keys, at |-> "objects"]
      /\ UNCHANGED <<file_rows, aged, bucket, uploads, on_way, arrived, diagnosed, removals, refused>>
  BY DEF Files!FindExpired
<1>2. keys \subseteq Key /\ \A k \in keys: Useless(k)
  BY KeysAndSubmits DEF Files!Expired, FileInv, FileTypes, Old, Used, Useless
<1>3. FileTypes' /\ cleaner'.keys = keys /\ cleaner'.at = "objects"
  BY <1>1, <1>2 DEF FileInv, FileTypes
<1>4. Asking' /\ Putting' /\ OnTheWay' /\ Old' /\ Files!ObjectsAreKnown'
  BY <1>1 DEF FileInv, Asking, Putting, OnTheWay, Old, Files!ObjectsAreKnown
<1>5. Used'
  BY <1>1 DEF FileInv, Used, Files!KeysOf
<1>6. Deleting'
  BY <1>1, <1>2, <1>3 DEF FileInv, Deleting, Jobs, Useless
<1> QED BY <1>3, <1>4, <1>5, <1>6 DEF FileInv

-----------------------------------------------------------------------------
LEMMA FileNextInv == FileInv /\ [Files!Next]_Files!fileVars => FileInv'
<1> SUFFICES ASSUME FileInv, [Files!Next]_Files!fileVars PROVE FileInv'
  OBVIOUS
<1>1. ASSUME NEW k \in Key, Files!Presign(k) \/ Files!Put(k) \/ Files!DayPasses(k) PROVE FileInv'
  BY <1>1, PresignKeeps, PutKeeps, DayKeeps
<1>2. ASSUME NEW s \in Files!Submit, Files!Presigned(s) \/ Files!GiveUp(s) \/ Files!CreateDiagnoses(s) \/ Files!Remove(s) PROVE FileInv'
  BY <1>2, PresignedKeeps, FileGiveUpKeeps, CreateKeeps, RemoveKeeps
<1>3. ASSUME NEW job \in removals, Files!DeleteRemoved(job) PROVE FileInv'
  BY <1>3, DeleteRemovedKeeps
<1>4. ASSUME NEW job \in removals, NEW part \in SUBSET job.keys, Files!DeleteRemovedFails(job, part) PROVE FileInv'
  <2>1. /\ Files!Cut(job, part) /\ removals' = removals \ {job} /\ job \in Jobs
        /\ UNCHANGED <<file_rows, aged, uploads, on_way, arrived, diagnosed, refused, cleaner>>
    BY <1>4 DEF Files!DeleteRemovedFails, Jobs
  <2>2. FileTypes'
    BY <2>1 DEF Files!Cut, FileInv, FileTypes
  <2> QED BY <2>1, <2>2, CutKeeps DEF Jobs
<1>5. ASSUME NEW keys \in SUBSET Files!Expired, Files!FindExpired(keys) PROVE FileInv'
  BY <1>5, FindExpiredKeeps
<1>6. ASSUME Files!CleanUp PROVE FileInv'
  BY <1>6, CleanUpKeeps
<1>7. ASSUME NEW part \in SUBSET cleaner.keys, Files!CleanUpFails(part) PROVE FileInv'
  <2>1. /\ Files!Cut(cleaner, part) /\ cleaner' = Files!Resting /\ cleaner \in Jobs
        /\ UNCHANGED <<file_rows, aged, uploads, on_way, arrived, diagnosed, removals, refused>>
    BY <1>7 DEF Files!CleanUpFails, Jobs
  <2>2. FileTypes'
    BY <2>1 DEF Files!Cut, FileInv, FileTypes, Files!Resting
  <2> QED BY <2>1, <2>2, CutKeeps DEF Jobs, Files!Resting
<1>8. ASSUME UNCHANGED Files!fileVars PROVE FileInv'
  BY <1>8 DEF Files!fileVars, FileInv, FileTypes, Asking, Putting, OnTheWay, Used, Old, Deleting, Jobs, Useless,
              Files!ObjectsAreKnown, Files!KeysOf
<1> QED BY <1>1, <1>2, <1>3, <1>4, <1>5, <1>6, <1>7, <1>8 DEF Files!Next

LEMMA FileSpecInv == Files!Spec => []FileInv
BY FileInitInv, FileNextInv, PTL DEF Files!Spec

(* The images of a diagnosis are in the bucket as long as it exists, whatever    *)
(* removals and the clean-up delete meanwhile (DiagnosesService,                *)
(* S3OrphanFileCleanupScheduler).                                            *)
THEOREM ImagesStayAlways == Files!Spec => []Files!ImagesStay
<1>1. FileInv => Files!ImagesStay
  BY DEF FileInv, Used, Files!ImagesStay
<1> QED BY FileSpecInv, <1>1, PTL

(* No object is without its row but those S3 refused to delete, at whatever step *)
(* a deletion is cut off (S3ObjectDeleter, S3FileDeleteEventListener).          *)
THEOREM ObjectsAreKnownAlways == Files!Spec => []Files!ObjectsAreKnown
<1>1. FileInv => Files!ObjectsAreKnown
  BY DEF FileInv
<1> QED BY FileSpecInv, <1>1, PTL
=============================================================================
