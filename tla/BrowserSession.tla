--------------------------- MODULE BrowserSession ---------------------------
(***************************************************************************)
(* The other end of AuthSessions: tabs (src/frontend/src/auth) that load   *)
(* their page, restore the session with the refresh cookie of their        *)
(* browser, sign in and sign out, over a network that loses and delays     *)
(* answers.                                                                *)
(*                                                                         *)
(* A request carries the cookie the browser has when it is sent; an answer *)
(* changes the cookie when it arrives, in a browser of several tabs and in *)
(* any order, and the page only if that was not loaded again meanwhile.    *)
(* An access token is named by the request whose answer it comes with.     *)
(***************************************************************************)
EXTENDS AuthSessions

CONSTANTS
  Tabs,
  Browsers,
  Settings,     \* who uses what: the browser of each tab, the requests made
  MaxOpen,      \* bound on requests under way at a time
  MaxMishaps    \* bound on requests whose handler or connection breaks

ASSUME SettingAssumption ==
  Settings \subseteq [home : [Tabs -> Browsers], requests : SUBSET Requests]
ASSUME NullAssumption == NoOne \notin Tabs /\ NoOne \notin Actions
ASSUME BoundAssumption == MaxOpen \in Nat /\ MaxMishaps \in Nat

VARIABLES
  setting,      \* the setting, which does not change
  page,         \* page[t]: what the tab shows
  held,         \* held[t]: the access token the page has
  cookie,       \* cookie[b]: the refresh cookie and when the browser drops it
  origin,       \* origin[r]: the tab that sent r
  carried,      \* carried[r]: the refresh token r was sent with
  heard,        \* heard[r]: what became of the answer to r
  gone,         \* requests whose page was loaded again before their answer
  unheard,      \* history: requests of the browser without answer when r was sent
  left,         \* history: the access token of the page that sent the logout r
  closedBy,     \* history: closedBy[s]: the request that revoked session s
  displaced     \* history: logins whose cookie that of another login replaced

client == <<setting, page, held, cookie, origin, carried, heard, gone>>
clientHistory == <<unheard, left, closedBy, displaced>>
allVars == <<vars, client, clientHistory>>

NoCookie == [token |-> NoOne, until |-> 0]
Home(r) == setting.home[origin[r]]
Sent(r) == origin[r] # NoOne
InFlight(r) == Sent(r) /\ heard[r] = "no"

\* The browser stops sending the cookie when its maxAge has passed.
Jar(b) == IF now < cookie[b].until THEN cookie[b].token ELSE NoOne

Room == Cardinality({r \in Requests : reply[r] = "error"})
          + Cardinality({r \in Requests : heard[r] = "lost"}) < MaxMishaps

-----------------------------------------------------------------------------
(* Sending *)

Send(t, r, endpoint) ==
  /\ r \in setting.requests /\ Endpoint[r] = endpoint /\ ~Sent(r)
  /\ Cardinality({q \in Requests : InFlight(q) \/ pc[q] \notin {"start", "done"}}) < MaxOpen
  /\ origin' = [origin EXCEPT ![r] = t]
  /\ carried' = [carried EXCEPT ![r] = Jar(setting.home[t])]
  /\ unheard' = [unheard EXCEPT
                   ![r] = {q \in Requests : Sent(q) /\ heard[q] # "arrived"
                                              /\ Home(q) = setting.home[t]}]
  /\ UNCHANGED <<vars, setting, cookie, heard, closedBy, displaced>>

\* The tab loads the page, restoreSession asks for a refresh; what the page
\* before was waiting for reaches the browser but no page.
Load(t, r) ==
  /\ Send(t, r, "refresh")
  /\ page' = [page EXCEPT ![t] = "loading"]
  /\ held' = [held EXCEPT ![t] = NoOne]
  /\ gone' = gone \cup {q \in Requests : origin[q] = t}
  /\ UNCHANGED left

\* The form is disabled while a login is under way.
SubmitLogin(t, r) ==
  /\ page[t] = "out"
  /\ \A q \in Requests \ gone : origin[q] = t /\ Endpoint[q] = "login" => ~InFlight(q)
  /\ Send(t, r, "login")
  /\ UNCHANGED <<page, held, gone, left>>

SubmitLogout(t, r) ==
  /\ page[t] = "in"
  /\ Send(t, r, "logout")
  /\ left' = [left EXCEPT ![r] = held[t]]
  /\ UNCHANGED <<page, held, gone>>

-----------------------------------------------------------------------------
(* Serving *)

\* What the handler finds in the request.  A refresh that the rate limiter
\* turns down ends like one without a cookie.
Serve(r) ==
  /\ Sent(r)
  /\ \/ LoginRejected(r)
     \/ \E u \in Users : LoginLookup(r, u)
     \/ RefreshUnknown(r)
     \/ carried[r] # NoOne /\ RefreshLookup(r, carried[r])
     \/ carried[r] \in {NoOne} \cup (Requests \ {s \in Requests : Live(s)}) /\ LogoutNothing(r)
     \/ carried[r] # NoOne /\ LogoutLookup(r, carried[r])

Backend(r) ==
  /\ Serve(r) \/ Continue(r) \/ (Room /\ AbortRequest(r))
  /\ closedBy' = [s \in Requests |-> IF Live(s) /\ session'[s].revoked THEN r ELSE closedBy[s]]
  /\ UNCHANGED <<setting, page, held, cookie, origin, carried, heard, gone, unheard, left, displaced>>

-----------------------------------------------------------------------------
(* Answers *)

\* Seeded fault: the answer to a logout does not clear the cookie.
CookieAfter_LogoutKeeps(r) ==
  IF reply[r] # "ok" \/ Endpoint[r] = "logout" THEN cookie[Home(r)]
  ELSE [token |-> r, until |-> now + SessionTTL]

\* Seeded fault: the answer to a refresh does not set the cookie.
CookieAfter_RefreshKeeps(r) ==
  IF reply[r] # "ok" \/ Endpoint[r] = "refresh" THEN cookie[Home(r)]
  ELSE IF Endpoint[r] = "logout" THEN NoCookie
  ELSE [token |-> r, until |-> now + SessionTTL]

\* setRefreshCookie and clearRefreshCookie come with success only: a token
\* that was turned down stays.
CookieAfter(r) ==
  IF reply[r] # "ok" THEN cookie[Home(r)]
  ELSE IF Endpoint[r] = "logout" THEN NoCookie
  ELSE [token |-> r, until |-> now + SessionTTL]

\* Seeded fault: after a logout that failed the token is gone, not the user.
ShowAnswer_LogoutThrows(r, ok) ==
  LET t == origin[r]
      in == IF Endpoint[r] = "logout" THEN ~ok ELSE ok
  IN  IF r \in gone \/ (Endpoint[r] = "login" /\ ~ok)
      THEN UNCHANGED <<page, held>>
      ELSE /\ page' = [page EXCEPT ![t] = IF in THEN "in" ELSE "out"]
           /\ held' = [held EXCEPT ![t] = IF in /\ ok THEN r ELSE NoOne]

\* What the page does with an answer, or with none: a refresh without success
\* shows the login page, a logout does whatever the answer.
ShowAnswer(r, ok) ==
  LET t == origin[r]
      in == ok /\ Endpoint[r] \in {"login", "refresh"}
  IN  IF r \in gone \/ (Endpoint[r] = "login" /\ ~ok)
      THEN UNCHANGED <<page, held>>
      ELSE /\ page' = [page EXCEPT ![t] = IF in THEN "in" ELSE "out"]
           /\ held' = [held EXCEPT ![t] = IF in THEN r ELSE NoOne]

Hear(r) ==
  /\ InFlight(r) /\ reply[r] # "none"
  /\ heard' = [heard EXCEPT ![r] = "arrived"]
  /\ cookie' = [cookie EXCEPT ![Home(r)] = CookieAfter(r)]
  /\ displaced' = displaced \cup
       {lineage[c].root : c \in {x \in {Jar(Home(r))} \ {NoOne} :
                                    reply[r] = "ok" /\ Endpoint[r] = "login"}}
  /\ ShowAnswer(r, reply[r] = "ok")
  /\ UNCHANGED <<vars, setting, origin, carried, gone, unheard, left, closedBy>>

\* The connection breaks: before the server has seen the request, while it
\* serves it, or after.
Lose(r) ==
  /\ InFlight(r) /\ Room
  /\ heard' = [heard EXCEPT ![r] = "lost"]
  /\ ShowAnswer(r, FALSE)
  /\ UNCHANGED <<vars, setting, cookie, origin, carried, gone, clientHistory>>

\* Time passes on the network and between requests; a handler takes none.
Wait ==
  /\ \A r \in Requests : pc[r] \in {"start", "done"}
  /\ Tick
  /\ UNCHANGED <<client, clientHistory>>

BrowserInit ==
  /\ Init
  /\ setting \in Settings
  /\ page = [t \in Tabs |-> "out"]
  /\ held = [t \in Tabs |-> NoOne]
  /\ cookie = [b \in Browsers |-> NoCookie]
  /\ origin = [r \in Requests |-> NoOne]
  /\ carried = [r \in Requests |-> NoOne]
  /\ heard = [r \in Requests |-> "no"]
  /\ gone = {}
  /\ unheard = [r \in Requests |-> {}]
  /\ left = [r \in Requests |-> NoOne]
  /\ closedBy = [s \in Requests |-> NoOne]
  /\ displaced = {}

BrowserNext ==
  \/ \E r \in Requests :
       \/ \E t \in Tabs : Load(t, r) \/ SubmitLogin(t, r) \/ SubmitLogout(t, r)
       \/ Backend(r) \/ Hear(r) \/ Lose(r)
  \/ Wait

BrowserSpec == BrowserInit /\ [][BrowserNext]_allVars

-----------------------------------------------------------------------------
(* Properties *)

\* Tabs, cookies and requests under way keep their types; a page is "in"
\* exactly when it holds an access token, which came with a success.
BrowserTypeOK ==
  /\ page \in [Tabs -> {"loading", "out", "in"}]
  /\ held \in [Tabs -> Requests \cup {NoOne}]
  /\ cookie \in [Browsers -> [token : Requests \cup {NoOne}, until : Nat]]
  /\ \A b \in Browsers : cookie[b].token \in Delivered \cup {NoOne}
  /\ \A t \in Tabs : IF page[t] = "in" THEN held[t] \in Delivered ELSE held[t] = NoOne
  /\ origin \in [Requests -> Tabs \cup {NoOne}]
  /\ carried \in [Requests -> Requests \cup {NoOne}]
  /\ heard \in [Requests -> {"no", "arrived", "lost"}]
  /\ gone \subseteq Requests
  /\ setting \in Settings
  /\ unheard \in [Requests -> SUBSET Requests]
  /\ left \in [Requests -> Requests \cup {NoOne}]
  /\ closedBy \in [Requests -> Requests \cup {NoOne}]
  /\ displaced \subseteq Requests

\* r and q were under way together, or the answer to the first was lost.
Overlap(r, q) == q \in unheard[r] \/ r \in unheard[q]

\* The tabs of this code present each token once, in turn: they are told that
\* their token was used before only when it was closed by a request of the same
\* browser whose answer had not come, by one that committed and then failed, by
\* a sweep, or as expired while the cookie was not.
ReuseExplained ==
  \A r \in Requests :
    reply[r] = "reuse" =>
      LET q == closedBy[carried[r]]
      IN  \/ Overlap(r, q) /\ Home(q) = Home(r)
          \/ reply[q] = "error"
          \/ audit[q] = "REUSE_DETECTED"
          \/ Endpoint[q] = "refresh" /\ session[carried[r]].expiresAt <= now
\* The token a browser has can still be exchanged, unless the request that
\* closed its session did not answer, did not succeed (a sweep answers 401), or
\* its answer did not arrive.
CookieUsable ==
  \A b \in Browsers :
    LET c == cookie[b].token
        q == closedBy[c]
    IN  c # NoOne /\ session[c].revoked => heard[q] # "arrived" \/ reply[q] # "ok"

\* A logout that succeeded leaves nothing usable of the login its page came
\* from, unless one of its sessions was issued while something else was under
\* way in that browser, or the cookie of another login had replaced its own.
LogoutEnds ==
  \A q \in Requests : Endpoint[q] = "logout" /\ reply[q] = "ok" =>
    LET root == lineage[left[q]].root
    IN  \A s \in Delivered : Live(s) /\ lineage[s].root = root =>
          \/ Expired(session[s])
          \/ \E x, y \in Requests : Exists(y) /\ lineage[y].root = root /\ Overlap(x, y)
          \/ root \in displaced
=============================================================================
