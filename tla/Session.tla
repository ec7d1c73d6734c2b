-------------------------------- MODULE Session --------------------------------
(***************************************************************************)
(* One browser session seen from the dashboard: the request wrapper with   *)
(* its shared refresh (frontend/src/lib/api.ts), the provider that decides *)
(* who is logged in (context/AuthContext.tsx), and the handlers that       *)
(* rotate the refresh token (backend/internal/handlers/auth.go).  The tabs *)
(* of one browser share the cookies and nothing else.                      *)
(*                                                                         *)
(* A login or a refresh issues an access token and a refresh token         *)
(* together; both are named by one number, 0 for "no cookie".              *)
(***************************************************************************)
EXTENDS Naturals, FiniteSets

CONSTANTS
  Tabs,       \* the tabs of the browser
  Calls,      \* the requests, <<tab, number>>; the first one is GET /auth/me
  MaxIssue,   \* bound on tokens issued
  MaxLost     \* bound on successors of tokens that get lost

ASSUME SessAssumption ==
  /\ IsFiniteSet(Tabs) /\ Calls \subseteq Tabs \X Nat
  /\ MaxIssue \in Nat /\ MaxLost \in Nat

First == 1
TabOf(r) == r[1]

VARIABLES
  tokens,    \* table refresh_tokens
  access,    \* access tokens that have not expired
  issued,    \* how many tokens were issued
  cookie,    \* the cookies of the browser
  tab,       \* the state of AuthProvider in each tab
  call,      \* the requests of the tabs
  refresh,   \* the refresh a request has started
  active,    \* activeRefreshPromise of each tab: the request that started it
  lost       \* how many tokens were deleted for a successor that got lost

sessVars == <<tokens, access, issued, cookie, tab, call, refresh, active, lost>>

NoCall == <<>>
Idle == [at |-> "idle", try |-> 0, token |-> 0, on |-> NoCall]
Over == [Idle EXCEPT !.at = "over"]
NoRefresh == [at |-> "idle", token |-> 0]

SessInit ==
  /\ tokens = {1} /\ access \in {{}, {1}} /\ issued = 1 /\ cookie = 1
  /\ tab = [t \in Tabs |-> [open |-> FALSE, loading |-> TRUE, user |-> FALSE, page |-> "app"]]
  /\ call = [r \in Calls |-> Idle]
  /\ refresh = [r \in Calls |-> NoRefresh]
  /\ active = [t \in Tabs |-> NoCall]
  /\ lost = 0

server == <<tokens, access, issued>>

(* All that fails between the deletion of a token and the cookies of the   *)
(* browser.  What else may fail, an answer or a statement, does so at any  *)
(* time.                                                                   *)
Loses == lost < MaxLost /\ lost' = lost + 1

-----------------------------------------------------------------------------
(* fetchJSON.                                                              *)

Send(r, try) == [at |-> "sent", try |-> try, token |-> cookie, on |-> NoCall]

(* A tab is opened, on the login page or another one, and asks who is      *)
(* logged in (restoreSession).                                             *)
Open(t, page) ==
  /\ ~tab[t].open
  /\ tab' = [tab EXCEPT ![t].open = TRUE, ![t].page = page]
  /\ call' = [call EXCEPT ![<<t, First>>] = Send(<<t, First>>, 1)]
  /\ UNCHANGED <<server, cookie, refresh, active, lost>>

(* The pages below the provider are rendered for a user only; the requests *)
(* of a tab are numbered in the order they are made.                       *)
Request(r) ==
  /\ call[r].at = "idle" /\ r[2] # First
  /\ \A c \in Calls : TabOf(c) = TabOf(r) /\ c[2] < r[2] => call[c].at # "idle"
  /\ tab[TabOf(r)].user /\ tab[TabOf(r)].page = "app"
  /\ call' = [call EXCEPT ![r] = Send(r, 1)]
  /\ UNCHANGED <<server, cookie, tab, refresh, active, lost>>

(* Mutant of Restored: without the finally block, only a success ends the  *)
(* loading.                                                                *)
RestoredOnSuccess(r, ok) ==
  IF r[2] = First /\ ok
  THEN [tab EXCEPT ![TabOf(r)] = [open |-> @.open, loading |-> FALSE, user |-> ok, page |-> @.page]]
  ELSE tab

(* What a settled GET /auth/me does to its tab; other requests leave it.   *)
Restored(r, ok) ==
  IF r[2] = First
  THEN [tab EXCEPT ![TabOf(r)] = [open |-> @.open, loading |-> FALSE, user |-> ok, page |-> @.page]]
  ELSE tab

(* An accepted request is done; a second 401 is an error.                  *)
Answer(r) ==
  /\ call[r].at = "sent" /\ (call[r].token \in access \/ call[r].try = 2)
  /\ call' = [call EXCEPT ![r] = Over]
  /\ tab' = Restored(r, call[r].token \in access)
  /\ UNCHANGED <<server, cookie, refresh, active, lost>>

(* The connection breaks before the answer arrives.                        *)
RequestLost(r) ==
  /\ call[r].at = "sent"
  /\ call' = [call EXCEPT ![r] = Over]
  /\ tab' = Restored(r, FALSE)
  /\ UNCHANGED <<server, cookie, refresh, active, lost>>

Waits(owner) == [at |-> "waiting", try |-> 1, token |-> 0, on |-> owner]

(* Mutant of Unauthorized: every request starts a refresh of its own.      *)
RefreshAlone(r) ==
  /\ call[r].at = "sent" /\ call[r].token \notin access /\ call[r].try = 1
  /\ refresh' = [refresh EXCEPT ![r] = [at |-> "sent", token |-> cookie]]
  /\ active' = [active EXCEPT ![TabOf(r)] = r]
  /\ call' = [call EXCEPT ![r] = Waits(r)]
  /\ UNCHANGED <<server, cookie, tab, lost>>

(* The first 401 joins the refresh of the tab, or starts one               *)
(* (coordinatedRefresh).                                                   *)
Unauthorized(r) ==
  /\ call[r].at = "sent" /\ call[r].token \notin access /\ call[r].try = 1
  /\ LET owner == IF active[TabOf(r)] = NoCall THEN r ELSE active[TabOf(r)]
     IN  /\ refresh' = IF owner = r THEN [refresh EXCEPT ![r] = [at |-> "sent", token |-> cookie]]
                       ELSE refresh
         /\ active' = [active EXCEPT ![TabOf(r)] = owner]
         /\ call' = [call EXCEPT ![r] = Waits(owner)]
  /\ UNCHANGED <<server, cookie, tab, lost>>

(* The refresh settles: the promise is cleared and the requests that wait  *)
(* for it are sent again, or fail.                                         *)
Waiting(r) == {c \in Calls : call[c].at = "waiting" /\ call[c].on = r}

RefreshSettles(r, ok, newCookie) ==
  /\ refresh' = [refresh EXCEPT ![r] = NoRefresh]
  /\ active' = [active EXCEPT ![TabOf(r)] = NoCall]
  /\ cookie' = newCookie
  /\ call' = [c \in Calls |->
       IF c \notin Waiting(r) THEN call[c]
       ELSE IF ok THEN [at |-> "sent", try |-> 2, token |-> newCookie, on |-> NoCall]
       ELSE Over]
  /\ tab' = IF ~ok /\ <<TabOf(r), First>> \in Waiting(r) THEN Restored(<<TabOf(r), First>>, FALSE)
            ELSE tab

-----------------------------------------------------------------------------
(* The handlers Refresh, Login and Logout.                                 *)

RefreshAt(r, at) == refresh' = [refresh EXCEPT ![r].at = at]

(* A token that cannot be read is refused like one that is not there.      *)
Lookup(r) ==
  /\ refresh[r].at = "sent"
  /\ \/ RefreshAt(r, IF refresh[r].token \in tokens THEN "found" ELSE "refused")
     \/ RefreshAt(r, "unread")
  /\ UNCHANGED <<server, cookie, tab, call, active, lost>>

(* Mutant of Rotate: all tokens of the user are deleted.                   *)
RotateAll(r) ==
  /\ refresh[r].at = "found"
  /\ tokens' = {} /\ RefreshAt(r, "rotated")
  /\ UNCHANGED <<access, issued, cookie, tab, call, active, lost>>

(* Token rotation: the used token is deleted before its successor exists;  *)
(* the error of the deletion is ignored.                                   *)
Rotate(r) ==
  /\ refresh[r].at = "found"
  /\ refresh' = [refresh EXCEPT ![r] = [at |-> "rotated", token |-> 0]]
  /\ tokens' = tokens \ {refresh[r].token} \/ UNCHANGED tokens
  /\ UNCHANGED <<access, issued, cookie, tab, call, active, lost>>

(* The user cannot be read, or a token not be made: the handler ends with  *)
(* an error, the used token being gone.                                    *)
GiveUp(r) ==
  /\ refresh[r].at = "rotated" /\ RefreshAt(r, "refused") /\ Loses
  /\ UNCHANGED <<server, cookie, tab, call, active>>

(* The error of the insert is ignored, and the tokens are given out.       *)
Issue(r) ==
  /\ refresh[r].at = "rotated"
  /\ issued' = issued + 1 /\ access' = access \union {issued'}
  /\ \/ tokens' = tokens \union {issued'} /\ UNCHANGED lost
     \/ UNCHANGED tokens /\ Loses
  /\ refresh' = [refresh EXCEPT ![r] = [at |-> "issued", token |-> issued']]
  /\ UNCHANGED <<cookie, tab, call, active>>

(* The answer sets the cookies; a refusal leaves them.                     *)
RefreshAnswer(r) ==
  /\ refresh[r].at \in {"issued", "refused", "unread"}
  /\ LET ok == refresh[r].at = "issued"
     IN  RefreshSettles(r, ok, IF ok THEN refresh[r].token ELSE cookie)
  /\ UNCHANGED <<server, lost>>

(* The connection breaks, or the backend restarts, before the answer       *)
(* arrives.                                                                *)
RefreshLost(r) ==
  /\ refresh[r].at # "idle" /\ Loses
  /\ RefreshSettles(r, FALSE, cookie)
  /\ UNCHANGED server

(* The form of the login page is there while the session is still being    *)
(* restored.                                                               *)
Login(t) ==
  /\ tab[t].open /\ tab[t].page = "login" /\ ~tab[t].user /\ issued < MaxIssue
  /\ issued' = issued + 1
  /\ tokens' = tokens \union {issued'} /\ access' = access \union {issued'}
  /\ cookie' = issued'
  /\ tab' = [tab EXCEPT ![t].user = TRUE]
  /\ UNCHANGED <<call, refresh, active, lost>>

(* logout: the token of the cookie is deleted, the cookies are cleared,    *)
(* and the tab goes to the login page, also when the answer does not come. *)
Logout(t) ==
  /\ tab[t].open /\ tab[t].user /\ tab[t].page = "app"
  /\ tokens' \in {tokens, tokens \ {cookie}}
  /\ \/ cookie' = 0 /\ UNCHANGED lost
     \/ UNCHANGED cookie /\ Loses
  /\ tab' = [tab EXCEPT ![t].user = FALSE, ![t].page = "login"]
  /\ UNCHANGED <<access, issued, call, refresh, active>>

-----------------------------------------------------------------------------
(* The effect of AuthProvider sends a tab without a user to the login      *)
(* page, that of the login page a user away from it, restored or not.      *)
Redirect(t) ==
  /\ tab[t].open
  /\ IF tab[t].user THEN tab[t].page = "login" ELSE tab[t].page = "app" /\ ~tab[t].loading
  /\ tab' = [tab EXCEPT ![t].page = IF tab[t].user THEN "app" ELSE "login"]
  /\ UNCHANGED <<server, cookie, call, refresh, active, lost>>

(* An access token that may still be sent expires after 15 minutes: not    *)
(* while a request that was just given it is on its way.                   *)
Expire ==
  \E a \in access :
    /\ a = cookie \/ \E r \in Calls : a \in {call[r].token, refresh[r].token}
    /\ \A r \in Calls : /\ ~(call[r].at = "sent" /\ call[r].try = 2 /\ call[r].token = a)
                        /\ ~(refresh[r].at = "issued" /\ refresh[r].token = a)
    /\ issued < MaxIssue
    /\ access' = access \ {a}
    /\ UNCHANGED <<tokens, issued, cookie, tab, call, refresh, active, lost>>

Serve(r) ==
  \/ Answer(r) \/ Unauthorized(r) \/ RefreshAnswer(r)
  \/ Lookup(r) \/ Rotate(r) \/ GiveUp(r) \/ Issue(r)

SessNext ==
  \/ \E t \in Tabs : Open(t, "app") \/ Open(t, "login") \/ Login(t) \/ Logout(t) \/ Redirect(t)
  \/ \E r \in Calls : Request(r) \/ Serve(r) \/ RequestLost(r) \/ RefreshLost(r)
  \/ Expire

(* The backend answers, and the browsers run their effects: requests are   *)
(* finitely many, and so all of them are answered in the end.              *)
SessFairness ==
  WF_sessVars(\E r \in Calls : Serve(r)) /\ WF_sessVars(\E t \in Tabs : Redirect(t))

SessSpec == SessInit /\ [][SessNext]_sessVars /\ SessFairness

-----------------------------------------------------------------------------
Points == {"idle", "sent", "waiting", "over"}

SessTypeOK ==
  /\ issued \in Nat /\ lost \in 0..MaxLost
  /\ tokens \subseteq 1..issued /\ access \subseteq 1..issued /\ cookie \in 0..issued
  /\ tab \in [Tabs -> [open : BOOLEAN, loading : BOOLEAN, user : BOOLEAN, page : {"app", "login"}]]
  /\ call \in [Calls -> [at : Points, try : 0..2, token : 0..issued, on : Calls \union {NoCall}]]
  /\ refresh \in [Calls -> [at : {"idle", "sent", "found", "refused", "unread", "rotated", "issued"},
                            token : 0..issued]]
  /\ active \in [Tabs -> Calls \union {NoCall}]

(* However the refreshes of several tabs, logins and logouts interleave,   *)
(* although Refresh deletes the used token before its successor exists,    *)
(* and whatever read or deletion fails, the browser is not left with a     *)
(* token the server does not know, unless the successor of one got lost.   *)
SessionSurvives ==
  lost = 0 /\ cookie # 0 /\ (\A r \in Calls : refresh[r].at = "idle") => cookie \in tokens

(* While one tab is open and no successor got lost, no request is refused  *)
(* only because the access token expired: the requests that expire         *)
(* together share one refresh (coordinatedRefresh) and a late 401 starts   *)
(* another.  One that is was sent with the token of a session that has     *)
(* been logged out, or its own refresh could not read the token.           *)
Refused(r) ==
  \/ call[r].at = "waiting" /\ call'[r].at = "over"
  \/ call[r].at = "sent" /\ call[r].try = 2 /\ call[r].token \notin access

OneTabNeverFails ==
  [][\A r \in Calls :
       /\ Refused(r) /\ lost' = 0 /\ cookie # 0
       /\ Cardinality({t \in Tabs : tab[t].open}) = 1
       => /\ call[r].at = "waiting"
          /\ refresh[call[r].on].token # cookie \/ refresh[call[r].on].at = "unread"]_sessVars

(* Nobody waits for a promise that was settled: every waiting request      *)
(* waits for the refresh its tab knows as the active one.                  *)
WaitersAreActive ==
  \A r \in Calls : call[r].at = "waiting" =>
    active[TabOf(r)] = call[r].on /\ refresh[call[r].on].at # "idle"

(* No tab stays on the loading screen, and every tab gets to the page that *)
(* fits its user (restoreSession and the redirect of AuthProvider).        *)
TabSettles ==
  \A t \in Tabs : tab[t].open ~>
    ~tab[t].loading /\ tab[t].page = (IF tab[t].user THEN "app" ELSE "login")
=============================================================================
