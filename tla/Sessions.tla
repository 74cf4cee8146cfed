------------------------------ MODULE Sessions ------------------------------
(***************************************************************************)
(* The refresh tokens of one user and the tabs of his browser: the tabs    *)
(* share one refresh cookie, hold an access token each, join the refresh   *)
(* that is under way, and repeat requests that were answered with 401,     *)
(* while the user switches organizations, logs out and logs in.  FastAPI   *)
(* ends the dependency that commits (db/session.py) after it has sent the  *)
(* response: a tab may present a token before it is committed.             *)
(***************************************************************************)
EXTENDS Naturals, FiniteSets

CONSTANTS Tab,          \* tabs of the browser
          Req,          \* requests made in the tabs, one after another or together
          Organization, \* organizations of the user
          NoOrg,        \* currentOrganizationId when there is none
          NoTab,        \* the tab of a request that was not made
          MaxToken,     \* bound: refresh tokens 1 .. MaxToken, used up one by one
          MaxLogins     \* bound: logins after the first

ASSUME NullAssumption == NoOrg \notin Organization /\ NoTab \notin Tab
ASSUME BoundAssumption == MaxLogins \in Nat
ASSUME TokenAssumption == MaxToken \in Nat \ {0}

VARIABLES tok,     \* refresh_sessions: the state of each token
          txs,     \* open transactions: the token each revokes, and creates
          root,    \* the token that the login behind a token was given
          cookie,  \* the refresh cookie of the browser, 0 without one
          tab,     \* accessToken (is there one) and currentOrganizationId
          refresh, \* refreshPromise of each tab and the call behind it
          logout,  \* the logout of each tab
          req,     \* requests
          upset,   \* history: has anything ended or disturbed the session
          ended,   \* history: logins that were logged out undisturbed
          logins   \* logins so far

vars == <<tok, txs, root, cookie, tab, refresh, logout, req, upset, ended, logins>>

Token       == 1 .. MaxToken
TokenStates == {"none", "pending", "live", "dead"}   \* dead: revoked or expired

(* A call in flight: the token it presents, and the one it was given. *)
Call(pc, t, n) == [pc |-> pc, tok |-> t, new |-> n]
NoCall == Call("none", 0, 0)

Calls  == [pc : {"none", "sent", "ok", "failed", "refused"},
           tok : 0 .. MaxToken, new : 0 .. MaxToken]

(* A request: its tab, the organization it was made in, whether contextVersion
   has moved since, the organization it was sent with, and _retried. *)
Request(pc, b, o) ==
  [pc |-> pc, tab |-> b, org |-> o, moved |-> FALSE, hdr |-> o, retried |-> FALSE]
NoRequest == Request("none", NoTab, NoOrg)
Requests ==
  [pc : {"none", "sent", "waiting", "done", "rejected"}, tab : Tab \cup {NoTab},
   org : Organization \cup {NoOrg}, moved : BOOLEAN,
   hdr : Organization \cup {NoOrg}, retried : BOOLEAN]

(* A logged in browser.  The first tab has drawn token 1. *)
Init ==
  /\ tok = [t \in Token |-> IF t = 1 THEN "live" ELSE "none"]
  /\ root = [t \in Token |-> IF t = 1 THEN 1 ELSE 0]
  /\ txs = {} /\ cookie = 1
  /\ \E o \in Organization :
       tab = [b \in Tab |-> [access |-> TRUE, org |-> o]]
  /\ refresh = [b \in Tab |-> NoCall]
  /\ logout = [b \in Tab |-> NoCall]
  /\ req = [q \in Req |-> NoRequest]
  /\ upset = "no" /\ ended = {} /\ logins = 0

(* Tokens are drawn in their order, which is as good as any. *)
Fresh(n) == tok[n] = "none" /\ \A u \in 1 .. n - 1 : tok[u] # "none"

(* A transaction revokes the token old and creates the token new, 0 for none. *)
Open(old, new) == txs' = txs \cup {[old |-> old, new |-> new]}
Pend(t, login) ==
  /\ tok' = [tok EXCEPT ![t] = "pending"]
  /\ root' = [root EXCEPT ![t] = login]

(* get_by_hash_for_update: the row is locked from the read to the commit. *)
Locked(t) == \E x \in txs : x.old = t

Refreshing(b) == refresh[b].pc # "none"
LoggingOut(b) == logout[b].pc # "none"

(* What may end a session before its time: expiry and logouts end it as they
   should; lost answers, rollbacks, and calls made while others are under way
   or not committed disturb it. *)
Ends     == upset' = IF upset = "no" THEN "ended" ELSE upset
Disturbs == upset' = "disturbed"

(* Bound: no losses once the session has been disturbed. *)
Calm == upset # "disturbed"

Calling(b) == Refreshing(b) \/ LoggingOut(b)
DisturbsIfBusy ==
  IF txs # {} \/ \E b \in Tab : Calling(b) THEN Disturbs ELSE UNCHANGED upset

-----------------------------------------------------------------------------
(* The interceptors. *)

(* Mutant: an organization that was left and entered again looks unchanged. *)
ContextChanged_IdOnly(q) == req[q].org # tab[req[q].tab].org

ContextChanged(q) ==
  \/ req[q].org # tab[req[q].tab].org
  \/ req[q].moved

(* The request interceptor stamps a request with the current organization. *)
Make(q, b) ==
  /\ req[q].pc = "none"
  /\ tab[b].access /\ tab[b].org # NoOrg
  /\ req' = [req EXCEPT ![q] = Request("sent", b, tab[b].org)]
  /\ UNCHANGED <<tok, txs, root, cookie, tab, refresh, logout, upset, ended, logins>>

Dispose(q, outcome) ==
  /\ req' = [req EXCEPT ![q] = [NoRequest EXCEPT !.pc = outcome]]
  /\ UNCHANGED <<tok, txs, root, cookie, tab, refresh, logout, upset, ended, logins>>

(* The response interceptor, for an answer that arrives too late, for one that
   the page asked for, and for a second 401 or another error. *)
Cancelled(q) == req[q].pc = "sent" /\ ContextChanged(q) /\ Dispose(q, "rejected")

Answered(q) == req[q].pc = "sent" /\ ~ContextChanged(q) /\ Dispose(q, "done")

Refused(q) ==
  req[q].pc = "sent" /\ ~ContextChanged(q) /\ req[q].retried /\ Dispose(q, "rejected")

StartRefresh(b) ==
  /\ refresh' = [refresh EXCEPT ![b] = Call("sent", cookie, 0)]
  /\ IF txs # {} \/ LoggingOut(b) \/ \E o \in Tab \ {b} : Calling(o)
       THEN Disturbs ELSE UNCHANGED upset

(* Mutant: every request starts a refresh of its own. *)
Join_Own(b) == StartRefresh(b)

(* refreshAccessToken: join the promise that is there or start a call. *)
Join(b) == IF Refreshing(b) THEN UNCHANGED <<refresh, upset>> ELSE StartRefresh(b)

(* The first 401: the access token has expired. *)
Denied(q) ==
  /\ req[q].pc = "sent" /\ ~ContextChanged(q) /\ ~req[q].retried
  /\ req' = [req EXCEPT ![q].pc = "waiting", ![q].retried = TRUE]
  /\ Join(req[q].tab)
  /\ UNCHANGED <<tok, txs, root, cookie, tab, logout, ended, logins>>

-----------------------------------------------------------------------------
(* A refresh, at the API and back in the tab. *)

(* Mutant: the token is read without FOR UPDATE. *)
RefreshServe_Unlocked(b) ==
  LET t == refresh[b].tok IN
  /\ refresh[b].pc = "sent"
  /\ t # 0 /\ tok[t] = "live"
  /\ \E n \in Token :
       /\ Fresh(n) /\ Pend(n, root[t]) /\ Open(t, n)
       /\ refresh' = [refresh EXCEPT ![b] = Call("ok", 0, n)]
  /\ UNCHANGED <<cookie, tab, logout, req, upset, ended, logins>>

(* The token is revoked and its successor created in one transaction, which
   commits when the answer has been sent. *)
RefreshServe(b) ==
  LET t == refresh[b].tok IN
  /\ refresh[b].pc = "sent"
  /\ t # 0 /\ tok[t] = "live" /\ ~Locked(t)
  /\ \E n \in Token :
       /\ Fresh(n) /\ Pend(n, root[t]) /\ Open(t, n)
       /\ refresh' = [refresh EXCEPT ![b] = Call("ok", 0, n)]
  /\ UNCHANGED <<cookie, tab, logout, req, upset, ended, logins>>

(* No token, or none that is valid: one that is not committed is unknown. *)
RefreshRefuse(b) ==
  LET t == refresh[b].tok IN
  /\ refresh[b].pc = "sent"
  /\ t # 0 => tok[t] # "live"
  /\ refresh' = [refresh EXCEPT ![b] =
                   Call(IF t = 0 THEN "failed" ELSE "refused", 0, 0)]
  /\ UNCHANGED <<tok, txs, root, cookie, tab, logout, req, upset, ended, logins>>

Commit(x) ==
  /\ x \in txs
  /\ txs' = txs \ {x}
  /\ tok' = [t \in Token |-> IF t = x.old THEN "dead"
                             ELSE IF t = x.new THEN "live" ELSE tok[t]]
  /\ UNCHANGED <<root, cookie, tab, refresh, logout, req, upset, ended, logins>>

(* A commit that fails is not reported to the tab. *)
Rollback(x) ==
  /\ x \in txs /\ Calm
  /\ txs' = txs \ {x}
  /\ tok' = [t \in Token |-> IF t = x.new THEN "dead" ELSE tok[t]]
  /\ ended' = IF x.old = 0 THEN ended ELSE ended \ {root[x.old]}
  /\ Disturbs
  /\ UNCHANGED <<root, cookie, tab, refresh, logout, req, logins>>

Waiting(b) == {q \in Req : req[q].tab = b /\ req[q].pc = "waiting"}

(* The answer sets the cookie, and the waiting requests go through the request
   interceptor once more. *)
Refreshed(b) ==
  /\ refresh[b].pc = "ok"
  /\ cookie' = refresh[b].new
  /\ tab' = [tab EXCEPT ![b].access = TRUE]
  /\ req' = [q \in Req |->
       IF q \notin Waiting(b) THEN req[q]
       ELSE IF ContextChanged(q) THEN [NoRequest EXCEPT !.pc = "rejected"]
       ELSE [req[q] EXCEPT !.pc = "sent", !.hdr = tab[b].org]]
  /\ refresh' = [refresh EXCEPT ![b] = NoCall]
  /\ UNCHANGED <<tok, txs, root, logout, upset, ended, logins>>

(* The organization changes, and contextVersion with it. *)
Enter(b, access, o) ==
  tab' = [tab EXCEPT ![b] = [access |-> access, org |-> o]]

Moved(b, reqs) ==
  [q \in Req |-> IF req[q].tab = b THEN [reqs[q] EXCEPT !.moved = TRUE] ELSE reqs[q]]

(* Mutant: the requests that waited are forgotten. *)
RefreshFailed_Forgets(b) ==
  /\ refresh[b].pc \in {"failed", "refused"}
  /\ cookie' = IF refresh[b].pc = "refused" THEN 0 ELSE cookie
  /\ Enter(b, FALSE, NoOrg)
  /\ req' = Moved(b, req)
  /\ refresh' = [refresh EXCEPT ![b] = NoCall]
  /\ UNCHANGED <<tok, txs, root, logout, upset, ended, logins>>

(* Any failure logs the tab out (clearAuth, clear); a refused token is cleared
   from the cookie, whatever the cookie holds by now. *)
RefreshFailed(b) ==
  /\ refresh[b].pc \in {"failed", "refused"}
  /\ cookie' = IF refresh[b].pc = "refused" THEN 0 ELSE cookie
  /\ Enter(b, FALSE, NoOrg)
  /\ req' = [q \in Req |->
       IF q \in Waiting(b) THEN [NoRequest EXCEPT !.pc = "rejected"]
                           ELSE Moved(b, req)[q]]
  /\ refresh' = [refresh EXCEPT ![b] = NoCall]
  /\ UNCHANGED <<tok, txs, root, logout, upset, ended, logins>>

(* A call or its answer is lost, before or after the transaction. *)
RefreshLost(b) ==
  /\ refresh[b].pc \in {"sent", "ok"} /\ Calm
  /\ refresh' = [refresh EXCEPT ![b] = Call("failed", 0, 0)]
  /\ Disturbs
  /\ UNCHANGED <<tok, txs, root, cookie, tab, logout, req, ended, logins>>

-----------------------------------------------------------------------------
(* Login and logout. *)

Login(b) ==
  /\ ~tab[b].access /\ logins < MaxLogins
  /\ logins' = logins + 1
  /\ \E n \in Token : Fresh(n) /\ Pend(n, n) /\ Open(0, n) /\ cookie' = n
  /\ \E o \in Organization : Enter(b, TRUE, o)
  /\ req' = Moved(b, req)
  /\ DisturbsIfBusy
  /\ UNCHANGED <<refresh, logout, ended>>

LogoutSend(b) ==
  /\ tab[b].access /\ ~LoggingOut(b)
  /\ logout' = [logout EXCEPT ![b] = Call("sent", cookie, 0)]
  /\ DisturbsIfBusy
  /\ UNCHANGED <<tok, txs, root, cookie, tab, refresh, req, ended, logins>>

(* Mutant: the cookie is cleared, the token is not revoked. *)
LogoutServe_CookieOnly(b) ==
  /\ logout[b].pc = "sent"
  /\ logout' = [logout EXCEPT ![b].pc = "ok"]
  /\ UNCHANGED <<tok, txs, root, cookie, tab, refresh, req, upset, ended, logins>>

(* A token that is not valid, or unknown, is left alone. *)
LogoutServe(b) ==
  LET t == logout[b].tok IN
  /\ logout[b].pc = "sent"
  /\ t # 0 => ~Locked(t)
  /\ IF t # 0 /\ tok[t] = "live" THEN Open(t, 0) ELSE UNCHANGED txs
  /\ logout' = [logout EXCEPT ![b].pc = "ok"]
  /\ UNCHANGED <<tok, root, cookie, tab, refresh, req, upset, ended, logins>>

LoggedOut(b) ==
  /\ logout[b].pc = "ok"
  /\ cookie' = 0
  /\ Enter(b, FALSE, NoOrg)
  /\ req' = Moved(b, req)
  /\ ended' = IF logout[b].tok # 0 /\ upset # "disturbed"
                THEN ended \cup {root[logout[b].tok]} ELSE ended
  /\ Ends
  /\ logout' = [logout EXCEPT ![b] = NoCall]
  /\ UNCHANGED <<tok, txs, root, refresh, logins>>

(* "Unable to sign out": the tab stays as it was. *)
LogoutLost(b) ==
  /\ LoggingOut(b) /\ Calm
  /\ logout' = [logout EXCEPT ![b] = NoCall]
  /\ Disturbs
  /\ UNCHANGED <<tok, txs, root, cookie, tab, refresh, req, ended, logins>>

-----------------------------------------------------------------------------
(* Time and the user. *)

TokenExpires(t) ==
  /\ tok[t] = "live" /\ ~Locked(t)
  /\ tok' = [tok EXCEPT ![t] = "dead"]
  /\ Ends
  /\ UNCHANGED <<txs, root, cookie, tab, refresh, logout, req, ended, logins>>

(* selectOrganization *)
Switch(b, o) ==
  /\ tab[b].org \notin {NoOrg, o}
  /\ Enter(b, tab[b].access, o)
  /\ req' = Moved(b, req)
  /\ UNCHANGED <<tok, txs, root, cookie, refresh, logout, upset, ended, logins>>

-----------------------------------------------------------------------------
RequestStep(q) == Cancelled(q) \/ Answered(q) \/ Refused(q) \/ Denied(q)

RefreshStep(b) ==
  RefreshServe(b) \/ RefreshRefuse(b) \/ Refreshed(b) \/ RefreshFailed(b)

LogoutStep(b) == LogoutServe(b) \/ LoggedOut(b)

UserStep(b) ==
  \/ Login(b) \/ LogoutSend(b)
  \/ \E o \in Organization : Switch(b, o)

Next ==
  \/ \E q \in Req : RequestStep(q) \/ \E b \in Tab : Make(q, b)
  \/ \E b \in Tab : \/ RefreshStep(b) \/ RefreshLost(b)
                    \/ LogoutStep(b) \/ LogoutLost(b)
                    \/ UserStep(b)
  \/ \E x \in txs : Commit(x) \/ Rollback(x)
  \/ \E t \in Token : TokenExpires(t)

Spec == Init /\ [][Next]_vars

-----------------------------------------------------------------------------
TypeOK ==
  /\ tok \in [Token -> TokenStates]
  /\ txs \subseteq [old : 0 .. MaxToken, new : 0 .. MaxToken]
  /\ root \in [Token -> 0 .. MaxToken]
  /\ cookie \in 0 .. MaxToken
  /\ tab \in [Tab -> [access : BOOLEAN, org : Organization \cup {NoOrg}]]
  /\ refresh \in [Tab -> Calls] /\ logout \in [Tab -> Calls]
  /\ req \in [Req -> Requests]
  /\ ended \subseteq Token
  /\ logins \in 0 .. MaxLogins
  /\ upset \in {"no", "ended", "disturbed"}

Used(t)  == tok[t] # "none"
Valid(t) == tok[t] \in {"live", "pending"}

(* However many refreshes, logouts and tabs compete, a login has one token that
   works: a token has one successor, and is dead once it has one. *)
OneLiveToken ==
  \A t, u \in Token : tok[t] = "live" /\ tok[u] = "live" /\ root[t] = root[u] => t = u

(* Tokens that somebody knows have been drawn, and so has the one their login
   was given. *)
KnownTokens ==
  /\ \A t \in Token : Used(t) => root[t] \in Token /\ Used(root[t])
  /\ \A t \in ended \cup ({cookie} \ {0}) : Used(t)
  /\ \A b \in Tab :
       /\ \A t \in {refresh[b].tok, refresh[b].new, logout[b].tok} \ {0} : Used(t)
       /\ refresh[b].pc = "ok" => refresh[b].new # 0

(* A transaction alone revokes a token that is live and creates one that is
   pending, of the same login or the first of its login. *)
TxFits(x) ==
  /\ x.old # 0 => tok[x.old] = "live"
  /\ x.new # 0 => tok[x.new] = "pending"
  /\ x.old # 0 /\ x.new # 0 => root[x.old] = root[x.new]
  /\ x.old = 0 => x.new # 0 /\ \A t \in Token :
                                  Used(t) /\ root[t] = root[x.new] => t = x.new
  /\ \A y \in txs \ {x} : (x.old # 0 => y.old # x.old) /\ (x.new # 0 => y.new # x.new)

TransactionsFit ==
  /\ \A x \in txs : TxFits(x)
  /\ \A t \in Token : tok[t] = "pending" => \E x \in txs : x.new = t

(* The token that the next call will present: what the refresh under way was
   given, or else the cookie. *)
IsTip(t) ==
  IF \E b \in Tab : refresh[b].pc = "ok"
    THEN \E b \in Tab : refresh[b].pc = "ok" /\ refresh[b].new = t
    ELSE cookie = t

(* Undisturbed, calls come one at a time and present the cookie, and no token of
   its login works but the tip and those about to be revoked. *)
CallsTakeTurns ==
  upset # "disturbed" =>
    /\ \A b, c \in Tab : Calling(b) /\ Calling(c) => b = c
    /\ \A b \in Tab :
         /\ ~(Refreshing(b) /\ LoggingOut(b))
         /\ refresh[b].pc = "sent" => txs = {} /\ refresh[b].tok = cookie
         /\ logout[b].pc = "sent" => txs = {}
         /\ LoggingOut(b) => logout[b].tok = cookie
         /\ logout[b].pc = "ok" /\ cookie # 0 /\ Valid(cookie) => Locked(cookie)
    /\ \A t, u \in Token : IsTip(t) /\ Valid(u) /\ root[u] = root[t] => u = t \/ Locked(u)

(* Until the session ends, the tip works or is about to. *)
TipWorks ==
  upset = "no" =>
    LET leaving == \E b \in Tab : logout[b].pc = "ok" IN
    /\ \A t \in Token : IsTip(t) => Valid(t) \/ leaving
    /\ \A x \in txs : IF x.new # 0 THEN IsTip(x.new) ELSE leaving

(* Requests under way are those of a tab, and go to their organization. *)
RequestsFit ==
  \A q \in Req : req[q].pc \in {"sent", "waiting"} =>
    req[q].tab \in Tab /\ req[q].hdr = req[q].org

(* A refresh is refused only if the session has expired or was logged out, an
   answer or a commit was lost, or a call overlapped another one or its commit:
   never because many requests of one tab fail together. *)
SessionEndsForAReason ==
  \A b \in Tab : refresh[b].pc = "refused" => upset # "no"

(* When nothing disturbed the session, its logout leaves no token alive but
   the one that the logout is about to revoke. *)
LogoutIsFinal ==
  \A t \in Token : root[t] \in ended /\ tok[t] \in {"live", "pending"} => Locked(t)

(* A request that waits for a refresh is answered by it: there is no way out of
   a refresh that leaves one behind, and none for the next refresh to find. *)
WaitersAreWoken == \A b \in Tab : Waiting(b) # {} => Refreshing(b)

(* The whole inductive invariant: what the tabs and the open transactions know
   of tokens fits the table (refresh locks the row it replaces to the commit). *)
SessionsInv ==
  /\ TypeOK /\ OneLiveToken /\ KnownTokens /\ TransactionsFit
  /\ CallsTakeTurns /\ TipWorks /\ RequestsFit
  /\ SessionEndsForAReason /\ LogoutIsFinal /\ WaitersAreWoken

(* A request goes out in the organization it was made in, first and repeated,
   and its answer reaches a page that shows this organization and has shown no
   other meanwhile, although refreshes and repetitions take their time. *)
StaysInOrganization ==
  [][\A q \in Req :
       /\ req'[q].pc = "sent" => req'[q].hdr = req'[q].org
       /\ req'[q].pc = "done" /\ req[q].pc # "done" =>
            req[q].hdr = tab[req[q].tab].org /\ ~req[q].moved]_vars
=============================================================================
