---------------------------- MODULE TokenRotation ----------------------------
(* Staying logged in: a refresh token may be used once, for an access token and  *)
(* its own successor; the pages of a browser share the cookie that holds it, and  *)
(* the requests of a page share one call for it (AuthTokenService, client.ts,    *)
(* App.tsx).  An access token may expire at any moment.                        *)
EXTENDS Naturals, FiniteSets

CONSTANTS
  Page,
  MaxWaiting,   \* bound on requests of a page that wait for a token
  MaxTokens,    \* bound on the refresh tokens issued
  None

TokenAssumption ==
  MaxTokens \in Nat /\ MaxWaiting \in Nat /\ None \notin Nat \cup Page /\ "lost" \notin Page \cup {None}

VARIABLES
  valid,        \* refresh tokens in the store; tokens are numbered
  issued,       \* how many there were
  cookie,
  calls,        \* of reissue, on their way for a page that listens
  strays,       \* tokens that calls no page listens to any more may still use
  loggedIn,     \* pages that hold an access token
  waiting,      \* per page, requests whose access token had expired
  leaving,      \* pages that have logged out and wait for the answer
  fate          \* per token: who used it, "lost" if the browser did not hear of it

tokenVars == <<valid, issued, cookie, calls, strays, loggedIn, waiting, leaving, fate>>

Token == 1..MaxTokens

Call(p, token, at, next) == [by |-> p, token |-> token, at |-> at, next |-> next]

Init ==
  /\ valid = {} /\ issued = 0 /\ cookie = None /\ calls = {} /\ strays = {}
  /\ loggedIn = {} /\ leaving = {}
  /\ waiting = [p \in Page |-> 0]
  /\ fate = [n \in Token |-> None]

-----------------------------------------------------------------------------
Own(p) == {c \in calls: c.by = p}

Lose(tokens) == [n \in Token |-> IF n \in tokens THEN "lost" ELSE fate[n]]

(* Whoever made these calls does not hear their answers.  What has not reached    *)
(* the server yet may still use its token.                                     *)
Abandon(gone) ==
  /\ strays' = (strays \cup {c.token : c \in {d \in gone: d.at = "sent"}}) \cap valid'
  /\ fate' = Lose({c.token : c \in {d \in gone: d.at \in {"used", "answered"}}})

(* A page starts without memory.  The first thing it does is a call with the      *)
(* cookie of the moment (App.tsx, OAuthCallback).                              *)
Load(p) ==
  /\ calls' = (calls \ Own(p)) \cup {Call(p, cookie', "sent", None)}
  /\ Abandon(Own(p))
  /\ waiting' = [waiting EXCEPT ![p] = 0]
  /\ loggedIn' = loggedIn \ {p} /\ leaving' = leaving \ {p}

Reload(p) ==
  /\ UNCHANGED <<valid, issued, cookie>>
  /\ Load(p)

(* Login hands out the cookie; an access token is got as after any other load     *)
(* (OAuth2SuccessHandler).                                                    *)
LogIn(p) ==
  /\ p \notin loggedIn /\ issued < MaxTokens
  /\ issued' = issued + 1 /\ valid' = valid \cup {issued'} /\ cookie' = issued'
  /\ Load(p)

-----------------------------------------------------------------------------
(* Mutant: each request that is refused calls for itself.                       *)
CallForEach(p) == {Call(p, cookie, "sent", None)}

(* refreshPromise: who comes while a call is on its way shares its answer.        *)
CallOnce(p) == IF Own(p) = {} THEN {Call(p, cookie, "sent", None)} ELSE {}

(* AUTH-001.  A request that is repeated and fails again is given up, which       *)
(* changes nothing here.                                                     *)
AccessExpired(p) ==
  /\ p \in loggedIn /\ waiting[p] < MaxWaiting
  /\ waiting' = [waiting EXCEPT ![p] = @ + 1]
  /\ calls' = calls \cup CallOnce(p)
  /\ UNCHANGED <<valid, issued, cookie, strays, loggedIn, leaving, fate>>

(* Shown again out of the browser's cache, a page that is not logged in tries.    *)
ShownAgain(p) ==
  /\ p \notin loggedIn
  /\ calls' = calls \cup CallOnce(p)
  /\ UNCHANGED <<valid, issued, cookie, strays, loggedIn, waiting, leaving, fate>>

Goes(c, at, next) == calls' = (calls \ {c}) \cup {[c EXCEPT !.at = at, !.next = next]}

(* Mutant: a token is read and stays.                                         *)
KeepUsed(token) == valid

(* Reading and deleting are one command of the store (RefreshTokenRepository).    *)
Consume(token) == valid \ {token}

Use(c) ==
  /\ c.at = "sent" /\ c.token \in valid
  /\ valid' = Consume(c.token)
  /\ fate' = [fate EXCEPT ![c.token] = c.by]
  /\ Goes(c, "used", None)
  /\ strays' = strays \ {c.token}
  /\ UNCHANGED <<issued, cookie, loggedIn, waiting, leaving>>

UseUnheard(token) ==
  /\ token \in strays
  /\ strays' = strays \ {token}
  /\ valid' = Consume(token) /\ fate' = Lose({token})
  /\ UNCHANGED <<issued, cookie, calls, loggedIn, waiting, leaving>>

Refuse(c) ==
  /\ c.at = "sent" /\ c.token \notin valid
  /\ Goes(c, "refused", None)
  /\ UNCHANGED <<valid, issued, cookie, strays, loggedIn, waiting, leaving, fate>>

(* Mutant: the successor is handed out but not stored.                          *)
HandOut(n) == valid

Store(n) == valid \cup {n}

IssuePair(c) ==
  /\ c.at = "used" /\ issued < MaxTokens
  /\ issued' = issued + 1 /\ valid' = Store(issued + 1)
  /\ Goes(c, "answered", issued + 1)
  /\ UNCHANGED <<cookie, strays, loggedIn, waiting, leaving, fate>>

-----------------------------------------------------------------------------
(* The answer brings cookie and access token; all who waited ask once more.      *)
Receive(c) ==
  /\ c.at = "answered"
  /\ cookie' = c.next
  /\ loggedIn' = loggedIn \cup {c.by}
  /\ waiting' = [waiting EXCEPT ![c.by] = 0]
  /\ calls' = calls \ {c}
  /\ UNCHANGED <<valid, issued, strays, leaving, fate>>

(* Refused, failed on the server between the two steps, or out of time.  A page   *)
(* whose requests wait forgets its access token and loads the login page, which   *)
(* calls again.                                                              *)
GiveUp(c) ==
  /\ UNCHANGED <<valid, issued, cookie>>
  /\ IF waiting[c.by] > 0 THEN Load(c.by)
     ELSE /\ calls' = calls \ {c}
          /\ Abandon({c})
          /\ UNCHANGED <<loggedIn, waiting, leaving>>

LogOut(p) ==
  /\ p \in loggedIn \ leaving
  /\ leaving' = leaving \cup {p}
  /\ valid' = valid \ {cookie}
  /\ fate' = IF cookie \in valid THEN Lose({cookie}) ELSE fate
  /\ strays' = strays \ {cookie}
  /\ UNCHANGED <<issued, cookie, calls, loggedIn, waiting>>

(* The page forgets its access token whether it hears the answer or not.         *)
LoggedOut(p) ==
  /\ p \in leaving
  /\ leaving' = leaving \ {p} /\ loggedIn' = loggedIn \ {p}
  /\ cookie' \in {cookie, None}
  /\ UNCHANGED <<valid, issued, calls, strays, waiting, fate>>

Next ==
  \/ \E p \in Page: Reload(p) \/ ShownAgain(p) \/ LogIn(p) \/ LogOut(p) \/ LoggedOut(p) \/ AccessExpired(p)
  \/ \E c \in calls: Use(c) \/ Refuse(c) \/ IssuePair(c) \/ Receive(c) \/ GiveUp(c)
  \/ \E token \in strays: UseUnheard(token)

Spec == Init /\ [][Next]_tokenVars

-----------------------------------------------------------------------------
(* The browser is never left with a token that is worth nothing unless an answer *)
(* was lost: what the cookie holds can be used, or its successor is on the way to *)
(* a page (AuthTokenService.reissueTokens, client.ts).                          *)
SessionSurvives ==
  cookie # None =>
    \/ cookie \in valid \/ fate[cookie] = "lost"
    \/ \E c \in calls: c.token = cookie /\ c.at \in {"used", "answered"}

(* A token has one successor.  Pages may take a token from one another, a page    *)
(* never from itself: its calls follow one another, each with the cookie that the *)
(* last one brought; and a request that waits has a call to wait for.            *)
TokensServeOnce ==
  /\ \A c, d \in calls:
       c # d /\ {c.at, d.at} \subseteq {"used", "answered"} => c.token # d.token
  /\ \A c \in calls: c.at = "refused" /\ c.token \in Token => fate[c.token] # c.by
  /\ \A p \in Page: waiting[p] > 0 => Own(p) # {}

(* A user stays logged in through the rotation of refresh tokens, and each token  *)
(* serves once (AuthTokenService, client.ts).                                  *)
StaysLoggedIn == SessionSurvives /\ TokensServeOnce
=============================================================================
