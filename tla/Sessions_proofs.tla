-------------------------- MODULE Sessions_proofs --------------------------
(***************************************************************************)
(* Proofs about Sessions, for any tabs, requests, organizations and        *)
(* numbers of tokens and logins.  SessionsInv is inductive; each of its     *)
(* parts is shown to survive a step in a lemma.                            *)
(***************************************************************************)
EXTENDS Sessions, TLAPS

(* What the parts about tokens depend on; pages and requests are the rest. *)
tokenVars == <<tok, txs, root, cookie, refresh, logout, upset, ended, logins>>

(* A refresh begins: the tab of a first 401 has none under way. *)
StartCall(b) ==
  /\ ~Refreshing(b) /\ StartRefresh(b)
  /\ UNCHANGED <<tok, txs, root, cookie, logout, ended, logins>>

RefreshSteps(b) ==
  \/ StartCall(b) \/ RefreshServe(b) \/ RefreshRefuse(b) \/ Refreshed(b)
  \/ RefreshFailed(b) \/ RefreshLost(b)

LogoutSteps(b) ==
  LogoutSend(b) \/ LogoutServe(b) \/ LoggedOut(b) \/ LogoutLost(b)

LEMMA Steps ==
  ASSUME SessionsInv, [Next]_vars
  PROVE  \/ UNCHANGED tokenVars
         \/ \E b \in Tab : RefreshSteps(b) \/ LogoutSteps(b) \/ Login(b)
         \/ \E x \in txs : Commit(x) \/ Rollback(x)
         \/ \E t \in Token : TokenExpires(t)
<1>1. ASSUME NEW q \in Req, Denied(q)
      PROVE  UNCHANGED tokenVars \/ \E b \in Tab : StartCall(b)
  <2>1. req[q].tab \in Tab
    BY <1>1 DEF Denied, SessionsInv, RequestsFit
  <2> QED
    BY <1>1, <2>1 DEF Denied, Join, StartCall, tokenVars
<1>2. ASSUME NEW q \in Req, Cancelled(q) \/ Answered(q) \/ Refused(q)
      PROVE  UNCHANGED tokenVars
  BY <1>2 DEF Cancelled, Answered, Refused, Dispose, tokenVars
<1>3. ASSUME NEW q \in Req, NEW b \in Tab, Make(q, b) PROVE UNCHANGED tokenVars
  BY <1>3 DEF Make, tokenVars
<1>4. ASSUME NEW b \in Tab, NEW o \in Organization, Switch(b, o) PROVE UNCHANGED tokenVars
  BY <1>4 DEF Switch, tokenVars
<1>5. CASE UNCHANGED vars
  BY <1>5 DEF vars, tokenVars
<1> QED
  BY <1>1, <1>2, <1>3, <1>4, <1>5
     DEF Next, RequestStep, RefreshStep, LogoutStep, UserStep, RefreshSteps, LogoutSteps

-----------------------------------------------------------------------------
(* Types *)

LEMMA CallType ==
  ASSUME NEW pc \in {"none", "sent", "ok", "failed", "refused"},
         NEW t \in 0 .. MaxToken, NEW n \in 0 .. MaxToken
  PROVE  /\ Call(pc, t, n) \in Calls /\ Call(pc, t, n).pc = pc
         /\ Call(pc, t, n).tok = t /\ Call(pc, t, n).new = n
BY DEF Call, Calls

LEMMA NoCallType == NoCall \in Calls /\ NoCall.pc = "none" /\ NoCall.tok = 0 /\ NoCall.new = 0
<1>1. 0 \in 0 .. MaxToken
  BY TokenAssumption
<1> QED
  BY <1>1, CallType DEF NoCall

LEMMA NoRequestType ==
  \A pc \in {"none", "done", "rejected"} : [NoRequest EXCEPT !.pc = pc] \in Requests
BY DEF NoRequest, Request, Requests

LEMMA MovedType ==
  ASSUME NEW b \in Tab, NEW reqs \in [Req -> Requests]
  PROVE  /\ Moved(b, reqs) \in [Req -> Requests]
         /\ \A q \in Req :
              /\ Moved(b, reqs)[q].pc = reqs[q].pc /\ Moved(b, reqs)[q].tab = reqs[q].tab
              /\ Moved(b, reqs)[q].hdr = reqs[q].hdr /\ Moved(b, reqs)[q].org = reqs[q].org
BY DEF Moved, Requests

LEMMA PagesType ==
  ASSUME TypeOK, [Next]_vars
  PROVE  /\ tab' \in [Tab -> [access : BOOLEAN, org : Organization \cup {NoOrg}]]
         /\ req' \in [Req -> Requests]
<1> USE DEF TypeOK
<1>1. ASSUME NEW q \in Req, NEW b \in Tab, Make(q, b)
      PROVE  req' \in [Req -> Requests] /\ UNCHANGED tab
  <2>1. Request("sent", b, tab[b].org) \in Requests
    BY DEF Request, Requests
  <2> QED
    BY <1>1, <2>1 DEF Make
<1>2. ASSUME NEW q \in Req, Cancelled(q) \/ Answered(q) \/ Refused(q)
      PROVE  req' \in [Req -> Requests] /\ UNCHANGED tab
  BY <1>2, NoRequestType DEF Cancelled, Answered, Refused, Dispose
<1>3. ASSUME NEW q \in Req, Denied(q)
      PROVE  req' \in [Req -> Requests] /\ UNCHANGED tab
  BY <1>3 DEF Denied, Requests
<1>4. ASSUME NEW b \in Tab, NEW a \in BOOLEAN, NEW o \in Organization \cup {NoOrg},
             Enter(b, a, o)
      PROVE  tab' \in [Tab -> [access : BOOLEAN, org : Organization \cup {NoOrg}]]
  BY <1>4 DEF Enter
<1>5. ASSUME NEW b \in Tab, Refreshed(b) PROVE req' \in [Req -> Requests]
  <2>1. \A q \in Req : [req[q] EXCEPT !.pc = "sent", !.hdr = tab[b].org] \in Requests
    BY DEF Requests
  <2> QED
    BY <1>5, <2>1, NoRequestType DEF Refreshed
<1>6. ASSUME NEW b \in Tab, Refreshed(b)
      PROVE  tab' \in [Tab -> [access : BOOLEAN, org : Organization \cup {NoOrg}]]
  BY <1>6 DEF Refreshed
<1>7. ASSUME NEW b \in Tab, RefreshFailed(b) PROVE req' \in [Req -> Requests]
  BY <1>7, NoRequestType, MovedType DEF RefreshFailed
<1>8. ASSUME NEW b \in Tab, LoggedOut(b) \/ Login(b) \/ (\E o \in Organization : Switch(b, o))
      PROVE  req' \in [Req -> Requests]
  BY <1>8, MovedType DEF LoggedOut, Login, Switch
<1>9. ASSUME NEW b \in Tab, NEW o \in Organization, Switch(b, o)
      PROVE  tab' \in [Tab -> [access : BOOLEAN, org : Organization \cup {NoOrg}]]
  <2>1. tab[b].access \in BOOLEAN
    OBVIOUS
  <2> QED
    BY <1>4, <1>9, <2>1 DEF Switch
<1>10. ASSUME NEW b \in Tab, RefreshFailed(b) \/ LoggedOut(b)
       PROVE  tab' \in [Tab -> [access : BOOLEAN, org : Organization \cup {NoOrg}]]
  BY <1>4, <1>10 DEF RefreshFailed, LoggedOut
<1>11. ASSUME NEW b \in Tab, Login(b)
       PROVE  tab' \in [Tab -> [access : BOOLEAN, org : Organization \cup {NoOrg}]]
  BY <1>4, <1>11 DEF Login
<1>12. ASSUME NEW b \in Tab,
              RefreshServe(b) \/ RefreshRefuse(b) \/ RefreshLost(b) \/ LogoutServe(b)
                \/ LogoutLost(b) \/ LogoutSend(b)
       PROVE  UNCHANGED <<tab, req>>
  BY <1>12 DEF RefreshServe, RefreshRefuse, RefreshLost, LogoutServe, LogoutLost, LogoutSend
<1>13. ASSUME \/ \E x \in txs : Commit(x) \/ Rollback(x)
              \/ \E t \in Token : TokenExpires(t)
              \/ UNCHANGED vars
       PROVE  UNCHANGED <<tab, req>>
  BY <1>13 DEF Commit, Rollback, TokenExpires, vars
<1> HIDE DEF TypeOK
<1> QED
  BY <1>1, <1>2, <1>3, <1>5, <1>6, <1>7, <1>8, <1>9, <1>10, <1>11, <1>12, <1>13
     DEF TypeOK, Next, RequestStep, RefreshStep, LogoutStep, UserStep

LEMMA TokensType ==
  ASSUME SessionsInv, [Next]_vars
  PROVE  TypeOK'
<1> USE DEF TypeOK, TokenStates
<1>0. TypeOK /\ 0 \in 0 .. MaxToken /\ Token \subseteq 0 .. MaxToken
  BY TokenAssumption DEF SessionsInv, Token
<1>1. CASE UNCHANGED tokenVars
  BY <1>0, <1>1, PagesType DEF tokenVars
<1>2. ASSUME NEW b \in Tab, StartCall(b) PROVE TypeOK'
  <2>1. Call("sent", cookie, 0) \in Calls
    BY <1>0, CallType
  <2> QED
    BY <1>0, <1>2, <2>1, PagesType DEF StartCall, StartRefresh, Disturbs
<1>3. ASSUME NEW b \in Tab, RefreshServe(b) PROVE TypeOK'
  <2>1. \A n \in Token : Call("ok", 0, n) \in Calls
    BY <1>0, CallType
  <2>2. refresh[b].tok \in 0 .. MaxToken /\ (refresh[b].tok # 0 => refresh[b].tok \in Token)
    BY <1>0, TokenAssumption DEF Calls, Token
  <2>3. root[refresh[b].tok] \in 0 .. MaxToken
    BY <1>0, <1>3, <2>2 DEF RefreshServe
  <2> QED
    BY <1>0, <1>3, <2>1, <2>2, <2>3, PagesType DEF RefreshServe, Pend, Open
<1>4. ASSUME NEW b \in Tab, RefreshRefuse(b) \/ RefreshLost(b) PROVE TypeOK'
  <2>1. Call("failed", 0, 0) \in Calls /\ Call("refused", 0, 0) \in Calls
    BY <1>0, CallType
  <2> QED
    BY <1>0, <1>4, <2>1, PagesType DEF RefreshRefuse, RefreshLost, Disturbs
<1>5. ASSUME NEW b \in Tab, Refreshed(b) \/ RefreshFailed(b) PROVE TypeOK'
  <2>1. refresh[b].new \in 0 .. MaxToken
    BY <1>0 DEF Calls
  <2> QED
    BY <1>0, <1>5, <2>1, NoCallType, PagesType DEF Refreshed, RefreshFailed
<1>6. ASSUME NEW b \in Tab, LogoutSend(b) PROVE TypeOK'
  <2>1. Call("sent", cookie, 0) \in Calls
    BY <1>0, CallType
  <2> QED
    BY <1>0, <1>6, <2>1, PagesType DEF LogoutSend, DisturbsIfBusy, Disturbs
<1>7. ASSUME NEW b \in Tab, LogoutServe(b) PROVE TypeOK'
  <2>1. logout' \in [Tab -> Calls]
    BY <1>0, <1>7 DEF LogoutServe, Calls
  <2>2. logout[b].tok \in 0 .. MaxToken
    BY <1>0 DEF Calls
  <2>3. txs' \subseteq [old : 0 .. MaxToken, new : 0 .. MaxToken]
    BY <1>0, <1>7, <2>2 DEF LogoutServe, Open
  <2> QED
    BY <1>0, <1>7, <2>1, <2>3, PagesType DEF LogoutServe
<1>8. ASSUME NEW b \in Tab, LoggedOut(b) PROVE TypeOK'
  <2>1. logout[b].tok # 0 => logout[b].tok \in Token /\ Used(logout[b].tok)
    BY <1>0, TokenAssumption DEF Calls, Token, SessionsInv, KnownTokens
  <2>2. ended' \subseteq Token
    BY <1>0, <1>8, <2>1 DEF LoggedOut, SessionsInv, KnownTokens
  <2> QED
    BY <1>0, <1>8, <2>2, NoCallType, PagesType DEF LoggedOut, Ends
<1>9. ASSUME NEW b \in Tab, LogoutLost(b) PROVE TypeOK'
  BY <1>0, <1>9, NoCallType, PagesType DEF LogoutLost, Disturbs
<1>10. ASSUME NEW b \in Tab, Login(b) PROVE TypeOK'
  <2>1. PICK n \in Token : Pend(n, n) /\ Open(0, n) /\ cookie' = n
    BY <1>10 DEF Login
  <2>2. logins' \in 0 .. MaxLogins
    BY <1>0, <1>10, BoundAssumption DEF Login
  <2>3. upset' \in {"no", "ended", "disturbed"}
    BY <1>0, <1>10 DEF Login, DisturbsIfBusy, Disturbs
  <2> QED
    BY <1>0, <1>10, <2>1, <2>2, <2>3, PagesType DEF Login, Pend, Open
<1>11. ASSUME NEW x \in txs, Commit(x) PROVE TypeOK'
  <2>1. tok' \in [Token -> TokenStates]
    BY <1>0, <1>11 DEF Commit
  <2> QED
    BY <1>0, <1>11, <2>1, PagesType DEF Commit
<1>12. ASSUME NEW x \in txs, Rollback(x) PROVE TypeOK'
  <2>1. tok' \in [Token -> TokenStates]
    BY <1>0, <1>12 DEF Rollback
  <2>2. ended' \subseteq ended /\ upset' = "disturbed"
    BY <1>12 DEF Rollback, Disturbs
  <2> QED
    BY <1>0, <1>12, <2>1, <2>2, PagesType DEF Rollback
<1>13. ASSUME NEW t \in Token, TokenExpires(t) PROVE TypeOK'
  BY <1>0, <1>13, PagesType DEF TokenExpires, Ends
<1> QED
  BY <1>1, <1>2, <1>3, <1>4, <1>5, <1>6, <1>7, <1>8, <1>9, <1>10, <1>11, <1>12, <1>13, Steps
     DEF RefreshSteps, LogoutSteps

-----------------------------------------------------------------------------
(* Tokens and transactions *)

(* What a step of the service of a refresh and a login do to tokens. *)
LEMMA Drawn ==
  ASSUME SessionsInv, NEW n \in Token, NEW r \in 0 .. MaxToken, Fresh(n), Pend(n, r)
  PROVE  /\ ~Used(n) /\ tok'[n] = "pending" /\ root'[n] = r
         /\ \A t \in Token \ {n} : tok'[t] = tok[t] /\ root'[t] = root[t]
BY DEF SessionsInv, TypeOK, Fresh, Used, Pend

LEMMA Served ==
  ASSUME SessionsInv, NEW b \in Tab, RefreshServe(b)
  PROVE  /\ refresh[b].tok \in Token /\ tok[refresh[b].tok] = "live"
         /\ ~Locked(refresh[b].tok) /\ refresh[b].pc = "sent"
         /\ root[refresh[b].tok] \in Token /\ Used(root[refresh[b].tok])
         /\ \E n \in Token :
              /\ ~Used(n) /\ tok'[n] = "pending" /\ root'[n] = root[refresh[b].tok]
              /\ \A t \in Token \ {n} : tok'[t] = tok[t] /\ root'[t] = root[t]
              /\ txs' = txs \cup {[old |-> refresh[b].tok, new |-> n]}
              /\ refresh'[b].pc = "ok" /\ refresh'[b].tok = 0 /\ refresh'[b].new = n
              /\ \A c \in Tab \ {b} : refresh'[c] = refresh[c]
         /\ UNCHANGED <<cookie, logout, upset, ended>>
<1>1. refresh[b].tok \in Token /\ tok[refresh[b].tok] = "live"
  BY TokenAssumption DEF RefreshServe, SessionsInv, TypeOK, Calls, Token
<1>2. root[refresh[b].tok] \in Token /\ Used(root[refresh[b].tok])
  BY <1>1 DEF SessionsInv, KnownTokens, Used
<1>3. PICK n \in Token :
        /\ Fresh(n) /\ Pend(n, root[refresh[b].tok]) /\ Open(refresh[b].tok, n)
        /\ refresh' = [refresh EXCEPT ![b] = Call("ok", 0, n)]
  BY DEF RefreshServe
<1>4. root[refresh[b].tok] \in 0 .. MaxToken /\ n \in 0 .. MaxToken /\ 0 \in 0 .. MaxToken
  BY <1>2, TokenAssumption DEF Token
<1>5. /\ ~Used(n) /\ tok'[n] = "pending" /\ root'[n] = root[refresh[b].tok]
      /\ \A t \in Token \ {n} : tok'[t] = tok[t] /\ root'[t] = root[t]
  BY <1>3, <1>4, Drawn
<1>6. /\ refresh'[b].pc = "ok" /\ refresh'[b].tok = 0 /\ refresh'[b].new = n
      /\ \A c \in Tab \ {b} : refresh'[c] = refresh[c]
  BY <1>3, <1>4, CallType DEF SessionsInv, TypeOK
<1>7. txs' = txs \cup {[old |-> refresh[b].tok, new |-> n]}
  BY <1>3 DEF Open
<1>8. refresh[b].pc = "sent" /\ ~Locked(refresh[b].tok) /\ UNCHANGED <<cookie, logout, upset, ended>>
  BY DEF RefreshServe
<1> QED
  BY <1>1, <1>2, <1>5, <1>6, <1>7, <1>8

LEMMA LoggedIn ==
  ASSUME SessionsInv, NEW b \in Tab, Login(b)
  PROVE  /\ \E n \in Token :
              /\ ~Used(n) /\ tok'[n] = "pending" /\ root'[n] = n /\ cookie' = n
              /\ \A t \in Token \ {n} : tok'[t] = tok[t] /\ root'[t] = root[t]
              /\ txs' = txs \cup {[old |-> 0, new |-> n]}
         /\ DisturbsIfBusy
         /\ UNCHANGED <<refresh, logout, ended>>
<1>1. PICK n \in Token : Fresh(n) /\ Pend(n, n) /\ Open(0, n) /\ cookie' = n
  BY DEF Login
<1>2. n \in 0 .. MaxToken
  BY DEF Token
<1>3. /\ ~Used(n) /\ tok'[n] = "pending" /\ root'[n] = n
      /\ \A t \in Token \ {n} : tok'[t] = tok[t] /\ root'[t] = root[t]
  BY <1>1, <1>2, Drawn
<1>4. txs' = txs \cup {[old |-> 0, new |-> n]}
  BY <1>1 DEF Open
<1>5. DisturbsIfBusy /\ UNCHANGED <<refresh, logout, ended>>
  BY DEF Login
<1> QED
  BY <1>1, <1>3, <1>4, <1>5

(* No transaction but the one that ends touches tokens that are drawn. *)
LEMMA Committed ==
  ASSUME SessionsInv, NEW x \in txs, Commit(x)
  PROVE  /\ txs' = txs \ {x}
         /\ x.new # 0 => x.new \in Token /\ x.new # x.old /\ tok[x.new] = "pending"
                         /\ tok'[x.new] = "live"
         /\ x.old # 0 => x.old \in Token /\ tok[x.old] = "live" /\ tok'[x.old] = "dead"
         /\ \A t \in Token \ {x.old, x.new} : tok'[t] = tok[t]
         /\ UNCHANGED <<root, cookie, refresh, logout, upset, ended>>
<1>1. x.old \in 0 .. MaxToken /\ x.new \in 0 .. MaxToken
  BY DEF SessionsInv, TypeOK
<1>2. TxFits(x)
  BY DEF SessionsInv, TransactionsFit
<1>3. /\ x.new # 0 => x.new \in Token /\ x.new # x.old /\ tok[x.new] = "pending"
      /\ x.old # 0 => x.old \in Token /\ tok[x.old] = "live"
  BY <1>1, <1>2, TokenAssumption DEF TxFits, Token
<1>4. tok' = [t \in Token |-> IF t = x.old THEN "dead"
                             ELSE IF t = x.new THEN "live" ELSE tok[t]]
  BY DEF Commit
<1> QED
  BY <1>3, <1>4 DEF Commit

LEMMA RolledBack ==
  ASSUME SessionsInv, NEW x \in txs, Rollback(x)
  PROVE  /\ txs' = txs \ {x} /\ upset' = "disturbed"
         /\ x.new # 0 => x.new \in Token /\ tok[x.new] = "pending" /\ tok'[x.new] = "dead"
         /\ x.old # 0 => x.old \in Token /\ tok[x.old] = "live"
         /\ \A t \in Token \ {x.new} : tok'[t] = tok[t]
         /\ ended' = IF x.old = 0 THEN ended ELSE ended \ {root[x.old]}
         /\ UNCHANGED <<root, cookie, refresh, logout>>
<1>1. x.old \in 0 .. MaxToken /\ x.new \in 0 .. MaxToken
  BY DEF SessionsInv, TypeOK
<1>2. TxFits(x)
  BY DEF SessionsInv, TransactionsFit
<1>3. /\ x.new # 0 => x.new \in Token /\ tok[x.new] = "pending"
      /\ x.old # 0 => x.old \in Token /\ tok[x.old] = "live"
  BY <1>1, <1>2, TokenAssumption DEF TxFits, Token
<1>4. tok' = [t \in Token |-> IF t = x.new THEN "dead" ELSE tok[t]]
  BY DEF Rollback
<1> QED
  BY <1>3, <1>4 DEF Rollback, Disturbs

LEMMA Expired ==
  ASSUME SessionsInv, NEW t \in Token, TokenExpires(t)
  PROVE  /\ tok[t] = "live" /\ tok'[t] = "dead" /\ ~Locked(t)
         /\ \A u \in Token \ {t} : tok'[u] = tok[u]
         /\ upset' # "no" /\ (upset' = "disturbed" => upset = "disturbed")
         /\ UNCHANGED <<txs, root, cookie, refresh, logout, ended>>
<1>1. tok' = [tok EXCEPT ![t] = "dead"]
  BY DEF TokenExpires
<1> QED
  BY <1>1 DEF TokenExpires, Ends, SessionsInv, TypeOK

-----------------------------------------------------------------------------
(* Calls *)

(* The call c of tab b becomes that of d, and no other changes. *)
Becomes(calls, new, b, pc, t, n) ==
  /\ new[b].pc = pc /\ new[b].tok = t /\ new[b].new = n
  /\ \A c \in Tab \ {b} : new[c] = calls[c]

(* Nothing is under way, or the session is disturbed. *)
Alone(b) ==
  \/ upset' = "disturbed"
  \/ /\ upset' = upset /\ txs = {} /\ ~LoggingOut(b)
     /\ \A c \in Tab \ {b} : ~Calling(c)

LEMMA Starts ==
  ASSUME SessionsInv, NEW b \in Tab, StartCall(b)
  PROVE  /\ refresh[b].pc = "none" /\ Becomes(refresh, refresh', b, "sent", cookie, 0)
         /\ Alone(b) /\ UNCHANGED <<tok, txs, root, cookie, logout, ended>>
<1>1. Call("sent", cookie, 0).pc = "sent" /\ Call("sent", cookie, 0).tok = cookie
      /\ Call("sent", cookie, 0).new = 0
  BY CallType, TokenAssumption DEF SessionsInv, TypeOK
<1>2. Becomes(refresh, refresh', b, "sent", cookie, 0)
  BY <1>1 DEF StartCall, StartRefresh, Becomes, SessionsInv, TypeOK
<1> QED
  BY <1>2 DEF StartCall, StartRefresh, Refreshing, Alone, Disturbs

LEMMA Refuses ==
  ASSUME SessionsInv, NEW b \in Tab, RefreshRefuse(b)
  PROVE  /\ refresh[b].pc = "sent"
         /\ \/ refresh[b].tok = 0 /\ Becomes(refresh, refresh', b, "failed", 0, 0)
            \/ /\ refresh[b].tok \in Token /\ tok[refresh[b].tok] # "live"
               /\ Becomes(refresh, refresh', b, "refused", 0, 0)
         /\ UNCHANGED <<tok, txs, root, cookie, logout, upset, ended>>
<1>1. \A pc \in {"failed", "refused"} :
        Call(pc, 0, 0).pc = pc /\ Call(pc, 0, 0).tok = 0 /\ Call(pc, 0, 0).new = 0
  BY CallType, TokenAssumption
<1>2. refresh[b].tok # 0 => refresh[b].tok \in Token
  BY TokenAssumption DEF SessionsInv, TypeOK, Calls, Token
<1> QED
  BY <1>1, <1>2 DEF RefreshRefuse, Becomes, SessionsInv, TypeOK

LEMMA Answers ==
  ASSUME SessionsInv, NEW b \in Tab, Refreshed(b)
  PROVE  /\ refresh[b].pc = "ok" /\ refresh[b].new \in Token /\ cookie' = refresh[b].new
         /\ Becomes(refresh, refresh', b, "none", 0, 0)
         /\ UNCHANGED <<tok, txs, root, logout, upset, ended>>
<1>1. refresh[b].new \in Token
  <2>1. refresh[b].new \in 0 .. MaxToken
    BY DEF SessionsInv, TypeOK, Calls
  <2>2. refresh[b].new # 0
    BY DEF Refreshed, SessionsInv, KnownTokens
  <2> QED
    BY <2>1, <2>2, TokenAssumption DEF Token
<1> QED
  BY <1>1, NoCallType DEF Refreshed, Becomes, SessionsInv, TypeOK

LEMMA Fails ==
  ASSUME SessionsInv, NEW b \in Tab, RefreshFailed(b)
  PROVE  /\ refresh[b].pc \in {"failed", "refused"}
         /\ cookie' = IF refresh[b].pc = "refused" THEN 0 ELSE cookie
         /\ Becomes(refresh, refresh', b, "none", 0, 0)
         /\ UNCHANGED <<tok, txs, root, logout, upset, ended>>
BY NoCallType DEF RefreshFailed, Becomes, SessionsInv, TypeOK

LEMMA Loses ==
  ASSUME SessionsInv, NEW b \in Tab, RefreshLost(b)
  PROVE  /\ Becomes(refresh, refresh', b, "failed", 0, 0) /\ upset' = "disturbed"
         /\ UNCHANGED <<tok, txs, root, cookie, logout, ended>>
<1>1. Call("failed", 0, 0).pc = "failed" /\ Call("failed", 0, 0).tok = 0
      /\ Call("failed", 0, 0).new = 0
  BY CallType, TokenAssumption
<1> QED
  BY <1>1 DEF RefreshLost, Becomes, Disturbs, SessionsInv, TypeOK

LEMMA Leaves ==
  ASSUME SessionsInv, NEW b \in Tab, LogoutSend(b)
  PROVE  /\ Becomes(logout, logout', b, "sent", cookie, 0)
         /\ upset' = "disturbed" \/ (upset' = upset /\ txs = {} /\ \A c \in Tab : ~Calling(c))
         /\ UNCHANGED <<tok, txs, root, cookie, refresh, ended>>
<1>1. Call("sent", cookie, 0).pc = "sent" /\ Call("sent", cookie, 0).tok = cookie
      /\ Call("sent", cookie, 0).new = 0
  BY CallType, TokenAssumption DEF SessionsInv, TypeOK
<1> QED
  BY <1>1 DEF LogoutSend, Becomes, DisturbsIfBusy, Disturbs, SessionsInv, TypeOK

LEMMA Revokes ==
  ASSUME SessionsInv, NEW b \in Tab, LogoutServe(b)
  PROVE  /\ logout[b].pc = "sent"
         /\ Becomes(logout, logout', b, "ok", logout[b].tok, logout[b].new)
         /\ IF logout[b].tok # 0 /\ tok[logout[b].tok] = "live"
              THEN /\ logout[b].tok \in Token /\ ~Locked(logout[b].tok)
                   /\ txs' = txs \cup {[old |-> logout[b].tok, new |-> 0]}
              ELSE txs' = txs
         /\ UNCHANGED <<tok, root, cookie, refresh, upset, ended>>
<1>1. logout[b].tok # 0 => logout[b].tok \in Token
  BY TokenAssumption DEF SessionsInv, TypeOK, Calls, Token
<1>2. Becomes(logout, logout', b, "ok", logout[b].tok, logout[b].new)
  BY DEF LogoutServe, Becomes, SessionsInv, TypeOK, Calls
<1> QED
  BY <1>1, <1>2 DEF LogoutServe, Open

LEMMA Ending ==
  ASSUME SessionsInv, NEW b \in Tab, LoggedOut(b)
  PROVE  /\ logout[b].pc = "ok" /\ cookie' = 0 /\ Becomes(logout, logout', b, "none", 0, 0)
         /\ ended' = IF logout[b].tok # 0 /\ upset # "disturbed"
                       THEN ended \cup {root[logout[b].tok]} ELSE ended
         /\ upset' # "no" /\ (upset' = "disturbed" => upset = "disturbed")
         /\ logout[b].tok # 0 => logout[b].tok \in Token
         /\ UNCHANGED <<tok, txs, root, refresh>>
<1>1. logout[b].tok # 0 => logout[b].tok \in Token
  BY TokenAssumption DEF SessionsInv, TypeOK, Calls, Token
<1> QED
  BY <1>1, NoCallType DEF LoggedOut, Becomes, Ends, SessionsInv, TypeOK

LEMMA Unheard ==
  ASSUME SessionsInv, NEW b \in Tab, LogoutLost(b)
  PROVE  /\ Becomes(logout, logout', b, "none", 0, 0) /\ upset' = "disturbed"
         /\ UNCHANGED <<tok, txs, root, cookie, refresh, ended>>
BY NoCallType DEF LogoutLost, Becomes, Disturbs, SessionsInv, TypeOK

-----------------------------------------------------------------------------
(* The parts about tokens *)

LEMMA KnownStep ==
  ASSUME SessionsInv, [Next]_vars
  PROVE  KnownTokens'
<1> USE DEF KnownTokens, Used, Becomes
<1>0. KnownTokens /\ TypeOK
  BY DEF SessionsInv
<1>1. CASE UNCHANGED tokenVars
  BY <1>0, <1>1 DEF tokenVars
<1>2. ASSUME NEW b \in Tab, StartCall(b) PROVE KnownTokens'
  BY <1>0, <1>2, Starts
<1>3. ASSUME NEW b \in Tab, RefreshServe(b) PROVE KnownTokens'
  <2>1. PICK n \in Token :
          /\ ~Used(n) /\ tok'[n] = "pending" /\ root'[n] = root[refresh[b].tok]
          /\ \A t \in Token \ {n} : tok'[t] = tok[t] /\ root'[t] = root[t]
          /\ refresh'[b].pc = "ok" /\ refresh'[b].tok = 0 /\ refresh'[b].new = n
          /\ \A c \in Tab \ {b} : refresh'[c] = refresh[c]
    BY <1>3, Served
  <2>2. root'[n] \in Token /\ tok[root'[n]] # "none" /\ n # 0
    BY <1>3, <2>1, Served DEF Token
  <2>3. \A t \in Token : Used(t) => Used(t)' /\ root'[t] = root[t]
    BY <2>1
  <2>4. \A t \in Token : Used(t)' => root'[t] \in Token /\ Used(root[t])'
    BY <1>0, <2>1, <2>2, <2>3
  <2>5. UNCHANGED <<cookie, logout, ended>>
    BY <1>3, Served
  <2>6. \A t \in (ended \cup ({cookie} \ {0}))' : t \in Token
    BY <1>0, <2>5 DEF TypeOK, Token
  <2>7. \A t \in (ended \cup ({cookie} \ {0}))' : Used(t)'
    BY <1>0, <2>3, <2>5, <2>6
  <2>8. \A c \in Tab :
          /\ \A t \in {refresh[c].tok, refresh[c].new, logout[c].tok}' \ {0} : Used(t)'
          /\ refresh'[c].pc = "ok" => refresh'[c].new # 0
    <3>1. \A c \in Tab : \A t \in {refresh[c].tok, refresh[c].new, logout[c].tok} \ {0} : t \in Token
      BY <1>0, TokenAssumption DEF TypeOK, Calls, Token
    <3> QED
      BY <1>0, <2>1, <2>2, <2>3, <2>5, <3>1
  <2> QED
    BY <2>4, <2>7, <2>8
<1>4. ASSUME NEW b \in Tab, RefreshRefuse(b) PROVE KnownTokens'
  BY <1>0, <1>4, Refuses
<1>5. ASSUME NEW b \in Tab, Refreshed(b) PROVE KnownTokens'
  BY <1>0, <1>5, Answers
<1>6. ASSUME NEW b \in Tab, RefreshFailed(b) PROVE KnownTokens'
  BY <1>0, <1>6, Fails
<1>7. ASSUME NEW b \in Tab, RefreshLost(b) PROVE KnownTokens'
  BY <1>0, <1>7, Loses
<1>8. ASSUME NEW b \in Tab, LogoutSend(b) PROVE KnownTokens'
  BY <1>0, <1>8, Leaves
<1>9. ASSUME NEW b \in Tab, LogoutServe(b) PROVE KnownTokens'
  BY <1>0, <1>9, Revokes
<1>10. ASSUME NEW b \in Tab, LoggedOut(b) PROVE KnownTokens'
  BY <1>0, <1>10, Ending
<1>11. ASSUME NEW b \in Tab, LogoutLost(b) PROVE KnownTokens'
  BY <1>0, <1>11, Unheard
<1>12. ASSUME NEW b \in Tab, Login(b) PROVE KnownTokens'
  <2>1. PICK n \in Token :
          /\ ~Used(n) /\ tok'[n] = "pending" /\ root'[n] = n /\ cookie' = n
          /\ \A t \in Token \ {n} : tok'[t] = tok[t] /\ root'[t] = root[t]
    BY <1>12, LoggedIn
  <2>2. \A t \in Token : Used(t) => Used(t)' /\ root'[t] = root[t]
    BY <2>1
  <2>3. \A t \in Token : Used(t)' => root'[t] \in Token /\ Used(root[t])'
    BY <1>0, <2>1, <2>2
  <2>4. UNCHANGED <<refresh, logout, ended>> /\ ended \subseteq Token
    BY <1>0, <1>12, LoggedIn DEF TypeOK
  <2>5. \A t \in (ended \cup ({cookie} \ {0}))' : Used(t)'
    BY <1>0, <2>1, <2>2, <2>4
  <2>6. \A c \in Tab : \A t \in {refresh[c].tok, refresh[c].new, logout[c].tok} \ {0} : t \in Token
    BY <1>0, TokenAssumption DEF TypeOK, Calls, Token
  <2> QED
    BY <1>0, <2>2, <2>3, <2>4, <2>5, <2>6
<1>13. ASSUME NEW x \in txs, Commit(x) PROVE KnownTokens'
  <2>1. \A t \in Token : (Used(t) <=> Used(t)') /\ root'[t] = root[t]
    BY <1>0, <1>13, Committed DEF Token
  <2>2. UNCHANGED <<cookie, refresh, logout>> /\ ended' \subseteq ended
    BY <1>13, Committed
  <2>3. /\ \A t \in ended \cup ({cookie} \ {0}) : t \in Token
        /\ \A c \in Tab : \A t \in {refresh[c].tok, refresh[c].new, logout[c].tok} \ {0} : t \in Token
    BY <1>0, TokenAssumption DEF TypeOK, Calls, Token
  <2> QED
    BY <1>0, <2>1, <2>2, <2>3
<1>14. ASSUME NEW x \in txs, Rollback(x) PROVE KnownTokens'
  <2>1. \A t \in Token : (Used(t) <=> Used(t)') /\ root'[t] = root[t]
    BY <1>0, <1>14, RolledBack DEF Token
  <2>2. UNCHANGED <<cookie, refresh, logout>> /\ ended' \subseteq ended
    BY <1>14, RolledBack
  <2>3. /\ \A t \in ended \cup ({cookie} \ {0}) : t \in Token
        /\ \A c \in Tab : \A t \in {refresh[c].tok, refresh[c].new, logout[c].tok} \ {0} : t \in Token
    BY <1>0, TokenAssumption DEF TypeOK, Calls, Token
  <2> QED
    BY <1>0, <2>1, <2>2, <2>3
<1>15. ASSUME NEW t \in Token, TokenExpires(t) PROVE KnownTokens'
  BY <1>0, <1>15, Expired DEF TokenExpires
<1> QED
  BY <1>1, <1>2, <1>3, <1>4, <1>5, <1>6, <1>7, <1>8, <1>9, <1>10, <1>11, <1>12, <1>13,
     <1>14, <1>15, Steps DEF RefreshSteps, LogoutSteps

LEMMA TableSteps ==
  ASSUME SessionsInv, [Next]_vars
  PROVE  \/ UNCHANGED <<tok, txs, root>>
         \/ \E b \in Tab : RefreshServe(b) \/ LogoutServe(b) \/ Login(b)
         \/ \E x \in txs : Commit(x) \/ Rollback(x)
         \/ \E t \in Token : TokenExpires(t)
<1>1. \A b \in Tab :
        StartCall(b) \/ RefreshRefuse(b) \/ Refreshed(b) \/ RefreshFailed(b)
          \/ RefreshLost(b) \/ LogoutSend(b) \/ LoggedOut(b) \/ LogoutLost(b)
        => UNCHANGED <<tok, txs, root>>
  BY Starts, Refuses, Answers, Fails, Loses, Leaves, Ending, Unheard
<1> QED
  BY <1>1, Steps DEF RefreshSteps, LogoutSteps, tokenVars

LEMMA TransactionsStep ==
  ASSUME SessionsInv, [Next]_vars
  PROVE  TransactionsFit'
<1>0. /\ TransactionsFit /\ txs \subseteq [old : 0 .. MaxToken, new : 0 .. MaxToken]
      /\ \A x \in txs : TxFits(x) /\ (x.old # 0 => x.old \in Token)
                                  /\ (x.new # 0 => x.new \in Token)
  BY TokenAssumption DEF SessionsInv, TypeOK, TransactionsFit, Token
<1>1. CASE UNCHANGED <<tok, txs, root>>
  BY <1>0, <1>1 DEF TransactionsFit, TxFits, Used
<1>2. ASSUME NEW b \in Tab, RefreshServe(b) PROVE TransactionsFit'
  <2>0. PICK t \in Token : t = refresh[b].tok /\ tok[t] = "live" /\ ~Locked(t)
    BY <1>2, Served
  <2>1. PICK n \in Token :
          /\ ~Used(n) /\ tok'[n] = "pending" /\ root'[n] = root[t]
          /\ \A u \in Token \ {n} : tok'[u] = tok[u] /\ root'[u] = root[u]
          /\ txs' = txs \cup {[old |-> t, new |-> n]}
    BY <1>2, <2>0, Served
  <2>2. tok[t] = "live" /\ t # n /\ t # 0 /\ n # 0 /\ ~Locked(t)
    BY <2>0, <2>1 DEF Used, Token
  <2>3. \A x \in txs : x.old # n /\ x.new # n /\ x.old # t
    BY <1>0, <2>1, <2>2 DEF TxFits, Used, Locked
  <2>4. ASSUME NEW x \in txs PROVE TxFits(x)'
    <3>1. x.new # 0 => tok'[x.new] = "pending" /\ root'[x.new] = root[x.new]
      BY <1>0, <2>1, <2>3 DEF TxFits
    <3>2. x.old # 0 => tok'[x.old] = "live" /\ root'[x.old] = root[x.old]
      BY <1>0, <2>1, <2>3 DEF TxFits
    <3>3. ASSUME x.old = 0, NEW u \in Token, Used(u)', root'[u] = root'[x.new]
          PROVE  u = x.new
      <4>1. x.new # 0 /\ tok[x.new] = "pending"
        BY <1>0, <3>3 DEF TxFits
      <4>2. root[t] = root[x.new] => t = x.new
        BY <1>0, <2>2, <3>3 DEF TxFits, Used
      <4>3. u # n
        BY <2>1, <2>2, <3>1, <3>3, <4>1, <4>2
      <4> QED
        BY <1>0, <2>1, <3>1, <3>3, <4>1, <4>3 DEF TxFits, Used
    <3>4. \A y \in txs' \ {x} : (x.old # 0 => y.old # x.old) /\ (x.new # 0 => y.new # x.new)
      BY <1>0, <2>1, <2>3 DEF TxFits
    <3> QED
      BY <1>0, <3>1, <3>2, <3>3, <3>4 DEF TxFits
  <2>5. TxFits([old |-> t, new |-> n])'
    BY <2>1, <2>2, <2>3 DEF TxFits
  <2>6. \A u \in Token : tok'[u] = "pending" => \E x \in txs' : x.new = u
    <3>1. \A u \in Token \ {n} : tok'[u] = "pending" => \E x \in txs : x.new = u
      BY <1>0, <2>1 DEF TransactionsFit
    <3>2. [old |-> t, new |-> n] \in txs' /\ [old |-> t, new |-> n].new = n
      BY <2>1
    <3> QED
      BY <2>1, <3>1, <3>2
  <2> QED
    BY <2>1, <2>4, <2>5, <2>6 DEF TransactionsFit
<1>3. ASSUME NEW b \in Tab, Login(b) PROVE TransactionsFit'
  <2>1. PICK n \in Token :
          /\ ~Used(n) /\ tok'[n] = "pending" /\ root'[n] = n
          /\ \A u \in Token \ {n} : tok'[u] = tok[u] /\ root'[u] = root[u]
          /\ txs' = txs \cup {[old |-> 0, new |-> n]}
    BY <1>3, LoggedIn
  <2>2. n # 0 /\ \A u \in Token \ {n} : Used(u)' => root'[u] # n
    BY <2>1 DEF Used, Token, SessionsInv, KnownTokens
  <2>3. \A x \in txs : x.old # n /\ x.new # n
    BY <1>0, <2>1, <2>2 DEF TxFits, Used
  <2>4. ASSUME NEW x \in txs PROVE TxFits(x)'
    <3>1. x.new # 0 => tok'[x.new] = "pending" /\ root'[x.new] = root[x.new] /\ root[x.new] # n
      BY <1>0, <2>1, <2>2, <2>3 DEF TxFits, Used
    <3>2. x.old # 0 => tok'[x.old] = "live" /\ root'[x.old] = root[x.old]
      BY <1>0, <2>1, <2>3 DEF TxFits
    <3>3. ASSUME x.old = 0, NEW u \in Token, Used(u)', root'[u] = root'[x.new]
          PROVE  u = x.new
      BY <1>0, <2>1, <3>1, <3>3 DEF TxFits, Used
    <3>4. \A y \in txs' \ {x} : (x.old # 0 => y.old # x.old) /\ (x.new # 0 => y.new # x.new)
      BY <1>0, <2>1, <2>3 DEF TxFits
    <3> QED
      BY <1>0, <3>1, <3>2, <3>3, <3>4 DEF TxFits
  <2>5. TxFits([old |-> 0, new |-> n])'
    BY <2>1, <2>2, <2>3 DEF TxFits
  <2>6. \A u \in Token : tok'[u] = "pending" => \E x \in txs' : x.new = u
    <3>1. \A u \in Token \ {n} : tok'[u] = "pending" => \E x \in txs : x.new = u
      BY <1>0, <2>1 DEF TransactionsFit
    <3>2. [old |-> 0, new |-> n] \in txs' /\ [old |-> 0, new |-> n].new = n
      BY <2>1
    <3> QED
      BY <2>1, <3>1, <3>2
  <2> QED
    BY <2>1, <2>4, <2>5, <2>6 DEF TransactionsFit
<1>4. ASSUME NEW b \in Tab, LogoutServe(b) PROVE TransactionsFit'
  <2>1. CASE txs' = txs
    BY <1>1, <1>4, <2>1, Revokes
  <2>2. ASSUME NEW t \in Token, t = logout[b].tok, tok[t] = "live"
        PROVE  TransactionsFit'
    <3>1. /\ ~Locked(t) /\ txs' = txs \cup {[old |-> t, new |-> 0]} /\ t # 0
          /\ UNCHANGED <<tok, root>>
      BY <1>4, <2>2, Revokes DEF Token
    <3>2. \A x \in txs : x.old # t
      BY <3>1 DEF Locked
    <3>3. \A x \in txs : TxFits(x)'
      BY <1>0, <2>2, <3>1, <3>2 DEF TxFits, Used
    <3>4. TxFits([old |-> t, new |-> 0])'
      BY <2>2, <3>1, <3>2 DEF TxFits
    <3>5. \A u \in Token : tok'[u] = "pending" => \E x \in txs' : x.new = u
      BY <1>0, <3>1 DEF TransactionsFit
    <3> QED
      BY <3>1, <3>3, <3>4, <3>5 DEF TransactionsFit
  <2> QED
    BY <1>4, <2>1, <2>2, Revokes
<1>5. ASSUME NEW x \in txs, Commit(x) \/ Rollback(x) PROVE TransactionsFit'
  <2>0. x.new # 0 => x.new # x.old
    BY <1>0 DEF TxFits
  <2>1. /\ txs' = txs \ {x} /\ UNCHANGED root
        /\ \A u \in Token \ {x.old, x.new} : tok'[u] = tok[u]
        /\ \A u \in Token : Used(u)' => Used(u)
        /\ x.new # 0 => tok'[x.new] # "pending"
        /\ x.old # 0 => tok'[x.old] # "pending"
    <3>1. CASE Commit(x)
      <4>1. \A u \in Token : Used(u)' => Used(u)
        BY <3>1, Committed DEF Used, Token
      <4> QED
        BY <3>1, <4>1, Committed
    <3>2. CASE Rollback(x)
      <4>1. \A u \in Token : Used(u)' => Used(u)
        BY <3>2, RolledBack DEF Used, Token
      <4> QED
        BY <2>0, <3>2, <4>1, RolledBack
    <3> QED
      BY <1>5, <3>1, <3>2
  <2>2. ASSUME NEW y \in txs \ {x} PROVE TxFits(y)'
    <3>1. /\ y.old # 0 => y.old # x.old /\ y.old # x.new
          /\ y.new # 0 => y.new # x.new /\ y.new # x.old
      BY <1>0 DEF TxFits
    <3> QED
      BY <1>0, <2>1, <3>1 DEF TxFits
  <2>3. \A u \in Token : tok'[u] = "pending" => \E y \in txs' : y.new = u
    <3>1. \A u \in Token : tok'[u] = "pending" => u # x.new /\ tok[u] = "pending"
      BY <1>0, <2>1 DEF Token
    <3> QED
      BY <1>0, <2>1, <3>1 DEF TransactionsFit
  <2> QED
    BY <2>1, <2>2, <2>3 DEF TransactionsFit
<1>6. ASSUME NEW t \in Token, TokenExpires(t) PROVE TransactionsFit'
  <2>1. /\ UNCHANGED <<txs, root>> /\ tok[t] = "live" /\ tok'[t] = "dead"
        /\ \A u \in Token \ {t} : tok'[u] = tok[u]
        /\ \A x \in txs : x.old # t
    BY <1>6, Expired DEF Locked
  <2>2. ASSUME NEW x \in txs PROVE TxFits(x)'
    BY <1>0, <2>1 DEF TxFits, Used
  <2> QED
    BY <1>0, <2>1, <2>2 DEF TransactionsFit
<1> QED
  BY <1>1, <1>2, <1>3, <1>4, <1>5, <1>6, TableSteps

LEMMA LiveStep ==
  ASSUME SessionsInv, [Next]_vars
  PROVE  OneLiveToken'
<1>0. /\ OneLiveToken
      /\ \A x \in txs : TxFits(x)
  BY DEF SessionsInv, TransactionsFit
<1>1. ASSUME \A t \in Token : tok'[t] = "live" => tok[t] = "live" /\ root'[t] = root[t]
      PROVE  OneLiveToken'
  BY <1>0, <1>1 DEF OneLiveToken
<1>2. ASSUME NEW x \in txs, Commit(x) PROVE OneLiveToken'
  <2>1. CASE x.new = 0
    BY <1>0, <1>2, <2>1, Committed DEF OneLiveToken, Token
  <2>2. CASE x.new # 0
    <3>1. ASSUME NEW u \in Token \ {x.new}, tok'[u] = "live", root[u] = root[x.new]
          PROVE  FALSE
      <4>1. u # x.old /\ tok[u] = "live"
        BY <1>2, <3>1, Committed DEF Token
      <4>2. CASE x.old = 0
        BY <1>0, <3>1, <4>1, <4>2 DEF TxFits, Used
      <4>3. CASE x.old # 0
        BY <1>0, <1>2, <2>2, <3>1, <4>1, <4>3, Committed DEF TxFits, OneLiveToken
      <4> QED
        BY <4>2, <4>3
    <3>2. \A u \in Token \ {x.new} : tok'[u] = "live" => tok[u] = "live"
      BY <1>2, Committed DEF Token
    <3> QED
      BY <1>0, <1>2, <3>1, <3>2, Committed DEF OneLiveToken
  <2> QED
    BY <2>1, <2>2
<1>3. ASSUME NEW b \in Tab, RefreshServe(b) \/ LogoutServe(b) \/ Login(b)
      PROVE  \A t \in Token : tok'[t] = "live" => tok[t] = "live" /\ root'[t] = root[t]
  BY <1>3, Served, Revokes, LoggedIn
<1>4. ASSUME NEW x \in txs, Rollback(x)
      PROVE  \A t \in Token : tok'[t] = "live" => tok[t] = "live" /\ root'[t] = root[t]
  BY <1>4, RolledBack DEF Token
<1>5. ASSUME NEW t \in Token, TokenExpires(t)
      PROVE  \A u \in Token : tok'[u] = "live" => tok[u] = "live" /\ root'[u] = root[u]
  BY <1>5, Expired
<1> QED
  BY <1>1, <1>2, <1>3, <1>4, <1>5, TableSteps

-----------------------------------------------------------------------------
(* The parts about calls.  CallsTakeTurns is split into what it says of calls
   and what it says of the tip. *)

OneCall == \A b, c \in Tab : Calling(b) /\ Calling(c) => b = c

TabFits(b) ==
  /\ ~(Refreshing(b) /\ LoggingOut(b))
  /\ refresh[b].pc = "sent" => txs = {} /\ refresh[b].tok = cookie
  /\ logout[b].pc = "sent" => txs = {}
  /\ LoggingOut(b) => logout[b].tok = cookie
  /\ logout[b].pc = "ok" /\ cookie # 0 /\ Valid(cookie) => Locked(cookie)

TipIsLast ==
  \A t, u \in Token : IsTip(t) /\ Valid(u) /\ root[u] = root[t] => u = t \/ Locked(u)

LEMMA Turns ==
  CallsTakeTurns <=> (upset # "disturbed" => OneCall /\ (\A b \in Tab : TabFits(b)) /\ TipIsLast)
BY DEF CallsTakeTurns, OneCall, TabFits, TipIsLast

(* Nothing ends a disturbance. *)
LEMMA StaysDisturbed ==
  ASSUME SessionsInv, [Next]_vars, upset' # "disturbed"
  PROVE  upset # "disturbed" /\ (upset' = "no" => upset = "no")
<1>1. CASE UNCHANGED tokenVars
  BY <1>1 DEF tokenVars
<1>2. ASSUME NEW b \in Tab, RefreshSteps(b) PROVE UNCHANGED upset
  BY <1>2, Starts, Served, Refuses, Answers, Fails, Loses DEF RefreshSteps, Alone
<1>3. ASSUME NEW b \in Tab, LogoutSteps(b)
      PROVE  upset # "disturbed" /\ (upset' = "no" => upset = "no")
  BY <1>3, Leaves, Revokes, Ending, Unheard DEF LogoutSteps, LoggedOut, Ends
<1>4. ASSUME NEW b \in Tab, Login(b) PROVE UNCHANGED upset
  BY <1>4, LoggedIn DEF DisturbsIfBusy, Disturbs
<1>5. ASSUME NEW x \in txs, Commit(x) \/ Rollback(x) PROVE UNCHANGED upset
  BY <1>5, Committed, RolledBack
<1>6. ASSUME NEW t \in Token, TokenExpires(t)
      PROVE  upset # "disturbed" /\ (upset' = "no" => upset = "no")
  BY <1>6, Expired DEF TokenExpires, Ends
<1> QED
  BY <1>1, <1>2, <1>3, <1>4, <1>5, <1>6, Steps

LEMMA CallsStep ==
  ASSUME SessionsInv, [Next]_vars, upset' # "disturbed"
  PROVE  OneCall' /\ \A b \in Tab : TabFits(b)'
<1> USE DEF Calling, Refreshing, LoggingOut, Becomes
<1>0. OneCall /\ (\A b \in Tab : TabFits(b)) /\ TransactionsFit /\ TypeOK
  BY Turns, StaysDisturbed DEF SessionsInv
<1>1. CASE UNCHANGED tokenVars
  BY <1>0, <1>1 DEF tokenVars, OneCall, TabFits, Valid, Locked
<1>2. ASSUME NEW b \in Tab, StartCall(b) PROVE OneCall' /\ \A c \in Tab : TabFits(c)'
  BY <1>0, <1>2, Starts DEF OneCall, TabFits, Alone
<1>3. ASSUME NEW b \in Tab, RefreshServe(b) PROVE OneCall' /\ \A c \in Tab : TabFits(c)'
  BY <1>0, <1>3, Served DEF OneCall, TabFits
<1>4. ASSUME NEW b \in Tab, RefreshRefuse(b) PROVE OneCall' /\ \A c \in Tab : TabFits(c)'
  BY <1>0, <1>4, Refuses DEF OneCall, TabFits
<1>5. ASSUME NEW b \in Tab, Refreshed(b) PROVE OneCall' /\ \A c \in Tab : TabFits(c)'
  BY <1>0, <1>5, Answers DEF OneCall, TabFits
<1>6. ASSUME NEW b \in Tab, RefreshFailed(b) PROVE OneCall' /\ \A c \in Tab : TabFits(c)'
  BY <1>0, <1>6, Fails DEF OneCall, TabFits
<1>7. ASSUME NEW b \in Tab, LogoutSend(b) PROVE OneCall' /\ \A c \in Tab : TabFits(c)'
  BY <1>0, <1>7, Leaves DEF OneCall, TabFits
<1>8. ASSUME NEW b \in Tab, LogoutServe(b) PROVE OneCall' /\ \A c \in Tab : TabFits(c)'
  <2>1. /\ logout[b].pc = "sent" /\ logout[b].tok = cookie /\ txs = {}
        /\ \A c \in Tab \ {b} : ~Calling(c)
        /\ ~Refreshing(b)
    BY <1>0, <1>8, Revokes DEF OneCall, TabFits
  <2>2. cookie # 0 /\ Valid(cookie)' => Locked(cookie)'
    <3>1. ASSUME cookie # 0, Valid(cookie)' PROVE tok[cookie] = "live"
      <4>1. cookie \in Token /\ tok' = tok /\ cookie' = cookie
        BY <1>0, <1>8, <3>1, TokenAssumption, Revokes DEF TypeOK, Token
      <4> QED
        BY <1>0, <2>1, <3>1, <4>1 DEF TransactionsFit, Valid
    <3>2. ASSUME tok[cookie] = "live", cookie # 0 PROVE Locked(cookie)'
      <4>1. [old |-> cookie, new |-> 0] \in txs' /\ cookie' = cookie
        BY <1>8, <2>1, <3>2, Revokes
      <4>2. [old |-> cookie, new |-> 0].old = cookie
        OBVIOUS
      <4> QED
        BY <4>1, <4>2 DEF Locked
    <3> QED
      BY <3>1, <3>2
  <2> QED
    BY <1>8, <2>1, <2>2, Revokes DEF OneCall, TabFits
<1>9. ASSUME NEW b \in Tab, LoggedOut(b) PROVE OneCall' /\ \A c \in Tab : TabFits(c)'
  BY <1>0, <1>9, Ending DEF OneCall, TabFits
<1>10. ASSUME NEW b \in Tab, RefreshLost(b) \/ LogoutLost(b) PROVE FALSE
  BY <1>10, Loses, Unheard
<1>11. ASSUME NEW b \in Tab, Login(b) PROVE OneCall' /\ \A c \in Tab : TabFits(c)'
  BY <1>0, <1>11, LoggedIn DEF OneCall, TabFits, DisturbsIfBusy, Disturbs
<1>12. ASSUME NEW x \in txs, Commit(x) PROVE OneCall' /\ \A c \in Tab : TabFits(c)'
  <2>1. OneCall' /\ UNCHANGED <<refresh, logout, cookie>> /\ txs' \subseteq txs
    BY <1>0, <1>12, Committed DEF OneCall
  <2>2. ASSUME NEW c \in Tab, logout[c].pc = "ok", cookie # 0, Valid(cookie)'
        PROVE  Locked(cookie)'
    <3>1. cookie \in Token /\ cookie # x.old /\ Valid(cookie)
      BY <1>0, <1>12, <2>1, <2>2, TokenAssumption, Committed DEF TypeOK, Token, Valid
    <3>2. PICK y \in txs : y.old = cookie
      BY <1>0, <2>2, <3>1 DEF TabFits, Locked
    <3>3. y \in txs'
      BY <1>12, <3>1, <3>2, Committed
    <3> QED
      BY <2>1, <3>2, <3>3 DEF Locked
  <2> QED
    BY <1>0, <2>1, <2>2 DEF TabFits
<1>13. ASSUME NEW x \in txs, Rollback(x) PROVE FALSE
  BY <1>13, RolledBack
<1>14. ASSUME NEW t \in Token, TokenExpires(t) PROVE OneCall' /\ \A c \in Tab : TabFits(c)'
  <2>1. cookie # 0 /\ Valid(cookie)' => Valid(cookie)
    BY <1>0, <1>14, TokenAssumption, Expired DEF Valid, TypeOK, Token
  <2> QED
    BY <1>0, <1>14, <2>1, Expired DEF OneCall, TabFits, Locked
<1> QED
  BY <1>1, <1>2, <1>3, <1>4, <1>5, <1>6, <1>7, <1>8, <1>9, <1>10, <1>11, <1>12, <1>13,
     <1>14, Steps DEF RefreshSteps, LogoutSteps

(* Nobody but the caller has a call that was answered. *)
LEMMA TipStep ==
  ASSUME SessionsInv, [Next]_vars, upset' # "disturbed"
  PROVE  TipIsLast'
<1> USE DEF Calling, Refreshing, LoggingOut, Becomes
<1>0. /\ OneCall /\ (\A b \in Tab : TabFits(b)) /\ TransactionsFit /\ TypeOK
      /\ TipIsLast /\ KnownTokens
  BY Turns, StaysDisturbed DEF SessionsInv
<1>1. ASSUME UNCHANGED <<tok, txs, root>>, \A t \in Token : IsTip(t)' => IsTip(t)
      PROVE  TipIsLast'
  BY <1>0, <1>1 DEF TipIsLast, Valid, Locked
<1>2. CASE UNCHANGED tokenVars
  BY <1>1, <1>2 DEF tokenVars, IsTip
<1>3. ASSUME NEW b \in Tab, StartCall(b) PROVE TipIsLast'
  BY <1>1, <1>3, Starts DEF IsTip
<1>4. ASSUME NEW b \in Tab, RefreshRefuse(b) PROVE TipIsLast'
  BY <1>1, <1>4, Refuses DEF IsTip
<1>5. ASSUME NEW b \in Tab, Refreshed(b) PROVE TipIsLast'
  <2>1. \A t \in Token : IsTip(t)' => t = refresh[b].new
    BY <1>0, <1>5, Answers DEF IsTip, OneCall
  <2>2. IsTip(refresh[b].new)
    BY <1>5, Answers DEF IsTip
  <2>3. UNCHANGED <<tok, txs, root>>
    BY <1>5, Answers
  <2> QED
    BY <1>1, <2>1, <2>2, <2>3
<1>6. ASSUME NEW b \in Tab, RefreshFailed(b) PROVE TipIsLast'
  <2>1. \A t \in Token : IsTip(t)' => IsTip(t)
    BY <1>0, <1>6, Fails DEF IsTip, OneCall, Token
  <2> QED
    BY <1>1, <1>6, <2>1, Fails
<1>7. ASSUME NEW b \in Tab, LogoutSend(b) PROVE TipIsLast'
  BY <1>1, <1>7, Leaves DEF IsTip
<1>8. ASSUME NEW b \in Tab, LogoutServe(b) PROVE TipIsLast'
  <2>1. UNCHANGED <<tok, root, cookie, refresh>> /\ txs \subseteq txs'
    BY <1>8, Revokes
  <2> QED
    BY <1>0, <2>1 DEF TipIsLast, IsTip, Valid, Locked
<1>9. ASSUME NEW b \in Tab, LoggedOut(b) PROVE TipIsLast'
  <2>1. \A t \in Token : ~IsTip(t)'
    BY <1>0, <1>9, Ending DEF IsTip, OneCall, TabFits, Token
  <2> QED
    BY <2>1 DEF TipIsLast
<1>10. ASSUME NEW b \in Tab, RefreshLost(b) \/ LogoutLost(b) PROVE FALSE
  BY <1>10, Loses, Unheard
<1>11. ASSUME NEW b \in Tab, RefreshServe(b) PROVE TipIsLast'
  <2>0. PICK t \in Token : t = refresh[b].tok /\ tok[t] = "live" /\ cookie = t
    BY <1>0, <1>11, Served DEF TabFits
  <2>1. PICK n \in Token :
          /\ ~Used(n) /\ tok'[n] = "pending" /\ root'[n] = root[t]
          /\ \A u \in Token \ {n} : tok'[u] = tok[u] /\ root'[u] = root[u]
          /\ txs' = txs \cup {[old |-> t, new |-> n]}
          /\ refresh'[b].pc = "ok" /\ refresh'[b].new = n
          /\ \A c \in Tab \ {b} : refresh'[c] = refresh[c]
    BY <1>11, <2>0, Served
  <2>2. IsTip(t) /\ \A u \in Token : IsTip(u)' => u = n
    <3>1. \A c \in Tab \ {b} : refresh[c].pc = "none"
      BY <1>0, <1>11, Served DEF OneCall
    <3> QED
      BY <1>11, <2>0, <2>1, <3>1, Served DEF IsTip
  <2>3. Locked(t)'
    <3>1. [old |-> t, new |-> n] \in txs' /\ [old |-> t, new |-> n].old = t
      BY <2>1
    <3> QED
      BY <3>1 DEF Locked
  <2>4. ASSUME NEW u \in Token \ {n}, Valid(u)', root'[u] = root'[n] PROVE Locked(u)'
    <3>1. Valid(u) /\ root[u] = root[t]
      BY <2>1, <2>4 DEF Valid
    <3>2. u = t \/ Locked(u)
      BY <1>0, <2>2, <3>1 DEF TipIsLast
    <3> QED
      BY <2>1, <2>3, <3>2 DEF Locked
  <2> QED
    BY <2>2, <2>4 DEF TipIsLast
<1>12. ASSUME NEW b \in Tab, Login(b) PROVE TipIsLast'
  <2>1. PICK n \in Token :
          /\ ~Used(n) /\ tok'[n] = "pending" /\ root'[n] = n /\ cookie' = n
          /\ \A u \in Token \ {n} : tok'[u] = tok[u] /\ root'[u] = root[u]
    BY <1>12, LoggedIn
  <2>2. \A c \in Tab : ~Calling(c) /\ refresh' = refresh
    BY <1>12, LoggedIn DEF DisturbsIfBusy, Disturbs
  <2>3. \A u \in Token : IsTip(u)' => u = n
    BY <2>1, <2>2 DEF IsTip
  <2>4. \A u \in Token \ {n} : Valid(u)' => root'[u] # n
    BY <1>0, <2>1 DEF KnownTokens, Valid, Used
  <2> QED
    BY <2>1, <2>3, <2>4 DEF TipIsLast
<1>13. ASSUME NEW x \in txs, Commit(x) PROVE TipIsLast'
  <2>1. \A t \in Token : IsTip(t)' => IsTip(t)
    BY <1>13, Committed DEF IsTip
  <2>2. ASSUME NEW u \in Token, Valid(u)', Locked(u) PROVE Locked(u)'
    <3>1. u # x.old
      BY <1>13, <2>2, Committed DEF Valid, Token
    <3> QED
      BY <1>13, <2>2, <3>1, Committed DEF Locked
  <2>3. \A u \in Token : Valid(u)' => Valid(u)
    BY <1>13, Committed DEF Valid, Token
  <2> QED
    BY <1>0, <1>13, <2>1, <2>2, <2>3, Committed DEF TipIsLast
<1>14. ASSUME NEW x \in txs, Rollback(x) PROVE FALSE
  BY <1>14, RolledBack
<1>15. ASSUME NEW t \in Token, TokenExpires(t) PROVE TipIsLast'
  <2>1. \A u \in Token : Valid(u)' => Valid(u)
    BY <1>15, Expired DEF Valid
  <2> QED
    BY <1>0, <1>15, <2>1, Expired DEF TipIsLast, IsTip, Locked
<1> QED
  BY <1>2, <1>3, <1>4, <1>5, <1>6, <1>7, <1>8, <1>9, <1>10, <1>11, <1>12, <1>13, <1>14,
     <1>15, Steps DEF RefreshSteps, LogoutSteps

Leaving == \E b \in Tab : logout[b].pc = "ok"

LEMMA TipWorksIs ==
  TipWorks <=>
    (upset = "no" => /\ \A t \in Token : IsTip(t) => Valid(t) \/ Leaving
                     /\ \A x \in txs : IF x.new # 0 THEN IsTip(x.new) ELSE Leaving)
BY DEF TipWorks, Leaving

LEMMA TipWorksStep ==
  ASSUME SessionsInv, [Next]_vars
  PROVE  TipWorks'
<1> USE DEF Calling, Refreshing, LoggingOut, Becomes
<1> DEFINE Valids == \A t \in Token : IsTip(t) => Valid(t) \/ Leaving
           News   == \A x \in txs : IF x.new # 0 THEN IsTip(x.new) ELSE Leaving
<1> SUFFICES ASSUME upset' = "no" PROVE Valids' /\ News'
  BY DEF TipWorks, Leaving
<1>0. /\ upset = "no" /\ OneCall /\ (\A b \in Tab : TabFits(b)) /\ TypeOK /\ Valids /\ News
      /\ \A b \in Tab : refresh[b].pc # "refused"
  BY Turns, TipWorksIs, StaysDisturbed DEF SessionsInv, SessionEndsForAReason
<1>1. ASSUME UNCHANGED <<tok, txs>>, Leaving => Leaving',
             \A t \in Token : IsTip(t)' <=> IsTip(t)
      PROVE  Valids' /\ News'
  <2>1. \A x \in txs : x.new # 0 => x.new \in Token
    BY <1>0, TokenAssumption DEF TypeOK, Token
  <2> QED
    BY <1>0, <1>1, <2>1 DEF Valid
<1>2. CASE UNCHANGED tokenVars
  BY <1>1, <1>2 DEF tokenVars, IsTip, Leaving
<1>3. ASSUME NEW b \in Tab, StartCall(b) PROVE Valids' /\ News'
  BY <1>1, <1>3, Starts DEF IsTip, Leaving
<1>4. ASSUME NEW b \in Tab, RefreshRefuse(b) PROVE Valids' /\ News'
  BY <1>1, <1>4, Refuses DEF IsTip, Leaving
<1>5. ASSUME NEW b \in Tab, Refreshed(b) PROVE Valids' /\ News'
  <2>1. \A t \in Token : IsTip(t)' <=> t = refresh[b].new
    BY <1>0, <1>5, Answers DEF IsTip, OneCall
  <2>2. \A t \in Token : IsTip(t) <=> t = refresh[b].new
    BY <1>0, <1>5, Answers DEF IsTip, OneCall
  <2> QED
    BY <1>1, <1>5, <2>1, <2>2, Answers DEF Leaving
<1>6. ASSUME NEW b \in Tab, RefreshFailed(b) PROVE Valids' /\ News'
  BY <1>0, <1>1, <1>6, Fails DEF IsTip, Leaving
<1>7. ASSUME NEW b \in Tab, LogoutSend(b) PROVE Valids' /\ News'
  <2>1. ~Leaving
    BY <1>0, <1>7, Leaves DEF Leaving
  <2> QED
    BY <1>1, <1>7, <2>1, Leaves DEF IsTip
<1>8. ASSUME NEW b \in Tab, LogoutServe(b) PROVE Valids' /\ News'
  <2>1. Leaving'
    BY <1>8, Revokes DEF Leaving
  <2>2. txs = {}
    BY <1>0, <1>8, Revokes DEF TabFits
  <2>3. \A x \in txs' : x.new = 0
    BY <1>8, <2>2, Revokes
  <2> QED
    BY <2>1, <2>3
<1>9. ASSUME NEW b \in Tab, LoggedOut(b) \/ RefreshLost(b) \/ LogoutLost(b) PROVE FALSE
  BY <1>9, Ending, Loses, Unheard
<1>10. ASSUME NEW b \in Tab, RefreshServe(b) PROVE Valids' /\ News'
  <2>1. txs = {} /\ \A c \in Tab \ {b} : refresh[c].pc = "none"
    BY <1>0, <1>10, Served DEF TabFits, OneCall
  <2>2. PICK n \in Token :
          /\ tok'[n] = "pending" /\ txs' = {[old |-> refresh[b].tok, new |-> n]}
          /\ refresh'[b].pc = "ok" /\ refresh'[b].new = n
          /\ \A c \in Tab \ {b} : refresh'[c] = refresh[c]
    BY <1>10, <2>1, Served
  <2>3. \A t \in Token : IsTip(t)' <=> t = n
    BY <2>1, <2>2 DEF IsTip
  <2>4. \A x \in txs' : x.new = n /\ n # 0
    BY <2>2 DEF Token
  <2>5. Valids'
    BY <2>2, <2>3 DEF Valid
  <2>6. News'
    BY <2>3, <2>4
  <2> QED
    BY <2>5, <2>6
<1>11. ASSUME NEW b \in Tab, Login(b) PROVE Valids' /\ News'
  <2>1. txs = {} /\ (\A c \in Tab : ~Calling(c)) /\ refresh' = refresh
    BY <1>11, LoggedIn DEF DisturbsIfBusy, Disturbs
  <2>2. PICK n \in Token :
          /\ tok'[n] = "pending" /\ txs' = {[old |-> 0, new |-> n]} /\ cookie' = n
    BY <1>11, <2>1, LoggedIn
  <2>3. \A t \in Token : IsTip(t)' <=> t = n
    BY <2>1, <2>2 DEF IsTip
  <2>4. \A x \in txs' : x.new = n /\ n # 0
    BY <2>2 DEF Token
  <2>5. Valids'
    BY <2>2, <2>3 DEF Valid
  <2>6. News'
    BY <2>3, <2>4
  <2> QED
    BY <2>5, <2>6
<1>12. ASSUME NEW x \in txs, Commit(x) PROVE Valids' /\ News'
  <2>1. \A t : IsTip(t)' <=> IsTip(t)
    BY <1>12, Committed DEF IsTip
  <2>2. Leaving' <=> Leaving
    BY <1>12, Committed DEF Leaving
  <2>3. \A t, u : IsTip(t) /\ IsTip(u) => t = u
    BY <1>0 DEF IsTip, OneCall
  <2>4. ASSUME NEW t \in Token, IsTip(t), Valid(t), ~Leaving PROVE Valid(t)'
    <3>1. x.new # 0 /\ x.new = t
      BY <1>0, <2>3, <2>4
    <3> QED
      BY <1>12, <3>1, Committed DEF Valid
  <2>5. Valids'
    BY <1>0, <2>1, <2>2, <2>4
  <2>6. txs' \subseteq txs
    BY <1>12, Committed
  <2> QED
    BY <1>0, <2>1, <2>2, <2>5, <2>6
<1>13. ASSUME NEW x \in txs, Rollback(x) PROVE FALSE
  BY <1>13, RolledBack
<1>14. ASSUME NEW t \in Token, TokenExpires(t) PROVE FALSE
  BY <1>14, Expired
<1> QED
  BY <1>2, <1>3, <1>4, <1>5, <1>6, <1>7, <1>8, <1>9, <1>10, <1>11, <1>12, <1>13, <1>14, Steps
     DEF RefreshSteps, LogoutSteps

LEMMA ReasonStep ==
  ASSUME SessionsInv, [Next]_vars
  PROVE  SessionEndsForAReason'
<1> USE DEF Calling, Refreshing, LoggingOut, Becomes
<1> SUFFICES ASSUME upset' = "no", NEW c \in Tab, refresh'[c].pc = "refused" PROVE FALSE
  BY DEF SessionEndsForAReason
<1>0. /\ upset = "no" /\ OneCall /\ (\A b \in Tab : TabFits(b)) /\ TransactionsFit
      /\ \A t \in Token : IsTip(t) => Valid(t) \/ Leaving
      /\ \A b \in Tab : refresh[b].pc # "refused"
  BY Turns, TipWorksIs, StaysDisturbed DEF SessionsInv, SessionEndsForAReason
<1>1. ASSUME NEW b \in Tab, RefreshRefuse(b) PROVE FALSE
  <2>1. /\ refresh[b].pc = "sent" /\ refresh[b].tok \in Token /\ tok[refresh[b].tok] # "live"
    BY <1>0, <1>1, Refuses
  <2>2. refresh[b].tok = cookie /\ txs = {}
    BY <1>0, <2>1 DEF TabFits
  <2>3. IsTip(cookie) /\ ~Leaving
    BY <1>0, <2>1 DEF IsTip, Leaving, OneCall, TabFits
  <2> QED
    BY <1>0, <2>1, <2>2, <2>3 DEF Valid, TransactionsFit
<1>2. CASE UNCHANGED refresh
  BY <1>0, <1>2
<1>3. ASSUME NEW b \in Tab,
             StartCall(b) \/ RefreshServe(b) \/ Refreshed(b) \/ RefreshFailed(b) \/ RefreshLost(b)
      PROVE  FALSE
  BY <1>0, <1>3, Starts, Served, Answers, Fails, Loses
<1>4. ASSUME NEW b \in Tab, LogoutSteps(b) \/ Login(b) PROVE UNCHANGED refresh
  BY <1>4, Leaves, Revokes, Ending, Unheard, LoggedIn DEF LogoutSteps
<1>5. ASSUME NEW x \in txs, Commit(x) \/ Rollback(x) PROVE UNCHANGED refresh
  BY <1>5, Committed, RolledBack
<1>6. ASSUME NEW t \in Token, TokenExpires(t) PROVE UNCHANGED refresh
  BY <1>6, Expired
<1> QED
  BY <1>1, <1>2, <1>3, <1>4, <1>5, <1>6, Steps DEF RefreshSteps, tokenVars

LEMMA FinalStep ==
  ASSUME SessionsInv, [Next]_vars
  PROVE  LogoutIsFinal'
<1>0. /\ LogoutIsFinal /\ TypeOK /\ KnownTokens /\ (\A x \in txs : TxFits(x))
      /\ \A t \in ended : t \in Token /\ Used(t)
      /\ \A t \in Token : Valid(t) <=> tok[t] \in {"live", "pending"}
  BY DEF SessionsInv, TypeOK, KnownTokens, TransactionsFit, Valid
<1>1. CASE UNCHANGED <<tok, txs, root, ended>>
  BY <1>0, <1>1 DEF LogoutIsFinal, Locked
<1>2. ASSUME NEW b \in Tab, RefreshServe(b) PROVE LogoutIsFinal'
  <2>0. PICK t \in Token : t = refresh[b].tok /\ tok[t] = "live" /\ ~Locked(t)
    BY <1>2, Served
  <2>1. PICK n \in Token :
          /\ root'[n] = root[t] /\ txs' = txs \cup {[old |-> t, new |-> n]} /\ ended' = ended
          /\ \A u \in Token \ {n} : tok'[u] = tok[u] /\ root'[u] = root[u]
    BY <1>2, <2>0, Served
  <2>2. root[t] \notin ended
    BY <1>0, <2>0 DEF LogoutIsFinal
  <2> QED
    BY <1>0, <2>1, <2>2 DEF LogoutIsFinal, Locked
<1>3. ASSUME NEW b \in Tab, Login(b) PROVE LogoutIsFinal'
  <2>1. PICK n \in Token :
          /\ ~Used(n) /\ root'[n] = n /\ txs' = txs \cup {[old |-> 0, new |-> n]}
          /\ \A u \in Token \ {n} : tok'[u] = tok[u] /\ root'[u] = root[u]
          /\ ended' = ended
    BY <1>3, LoggedIn
  <2> QED
    BY <1>0, <2>1 DEF LogoutIsFinal, Locked
<1>4. ASSUME NEW b \in Tab, LogoutServe(b) PROVE LogoutIsFinal'
  <2>1. UNCHANGED <<tok, root, ended>> /\ txs \subseteq txs'
    BY <1>4, Revokes
  <2> QED
    BY <1>0, <2>1 DEF LogoutIsFinal, Locked
<1>5. ASSUME NEW b \in Tab, LoggedOut(b) PROVE LogoutIsFinal'
  <2>1. CASE logout[b].tok = 0 \/ upset = "disturbed"
    BY <1>1, <1>5, <2>1, Ending
  <2>2. CASE logout[b].tok # 0 /\ upset # "disturbed"
    <3>1. OneCall /\ TabFits(b) /\ TipIsLast /\ logout[b].pc = "ok"
      BY <1>5, <2>2, Turns, Ending DEF SessionsInv
    <3>2. logout[b].tok = cookie /\ cookie \in Token /\ cookie # 0
      BY <1>5, <2>2, <3>1, Ending DEF TabFits, LoggingOut
    <3>3. IsTip(cookie)
      BY <3>1 DEF IsTip, OneCall, TabFits, Calling, Refreshing, LoggingOut
    <3>4. \A u \in Token : Valid(u) /\ root[u] = root[cookie] => Locked(u)
      BY <3>1, <3>2, <3>3 DEF TipIsLast, TabFits
    <3>5. ended' = ended \cup {root[cookie]} /\ UNCHANGED <<tok, txs, root>>
      BY <1>5, <2>2, <3>2, Ending
    <3> QED
      BY <1>0, <3>4, <3>5 DEF LogoutIsFinal, Locked
  <2> QED
    BY <2>1, <2>2
<1>6. ASSUME NEW x \in txs, Commit(x) PROVE LogoutIsFinal'
  <2>1. ASSUME NEW t \in Token, root[t] \in ended, tok'[t] \in {"live", "pending"}
        PROVE  Locked(t)'
    <3>1. t # x.old /\ tok[t] \in {"live", "pending"}
      BY <1>6, <2>1, Committed DEF Token
    <3>2. PICK y \in txs : y.old = t
      BY <1>0, <2>1, <3>1 DEF LogoutIsFinal, Locked
    <3>3. y \in txs'
      BY <1>6, <3>1, <3>2, Committed
    <3> QED
      BY <3>2, <3>3 DEF Locked
  <2> QED
    BY <1>6, <2>1, Committed DEF LogoutIsFinal
<1>7. ASSUME NEW x \in txs, Rollback(x) PROVE LogoutIsFinal'
  <2>1. ASSUME NEW t \in Token, root[t] \in ended', tok'[t] \in {"live", "pending"}
        PROVE  Locked(t)'
    <3>1. root[t] \in ended /\ tok[t] \in {"live", "pending"} /\ t # x.old
      BY <1>7, <2>1, RolledBack DEF Token
    <3>2. PICK y \in txs : y.old = t
      BY <1>0, <2>1, <3>1 DEF LogoutIsFinal, Locked
    <3>3. y \in txs'
      BY <1>7, <3>1, <3>2, RolledBack
    <3> QED
      BY <3>2, <3>3 DEF Locked
  <2> QED
    BY <1>7, <2>1, RolledBack DEF LogoutIsFinal
<1>8. ASSUME NEW t \in Token, TokenExpires(t) PROVE LogoutIsFinal'
  BY <1>0, <1>8, Expired DEF LogoutIsFinal, Locked
<1>9. ASSUME NEW b \in Tab,
             StartCall(b) \/ RefreshRefuse(b) \/ Refreshed(b) \/ RefreshFailed(b)
               \/ RefreshLost(b) \/ LogoutSend(b) \/ LogoutLost(b)
      PROVE  UNCHANGED <<tok, txs, root, ended>>
  BY <1>9, Starts, Refuses, Answers, Fails, Loses, Leaves, Unheard
<1> QED
  BY <1>1, <1>2, <1>3, <1>4, <1>5, <1>6, <1>7, <1>8, <1>9, Steps
     DEF RefreshSteps, LogoutSteps, tokenVars

-----------------------------------------------------------------------------
(* Requests *)

LEMMA RequestsStep ==
  ASSUME SessionsInv, [Next]_vars
  PROVE  RequestsFit'
<1>0. TypeOK /\ RequestsFit
  BY DEF SessionsInv
<1>1. CASE UNCHANGED req
  BY <1>0, <1>1 DEF RequestsFit
<1>2. ASSUME NEW q \in Req, NEW b \in Tab, Make(q, b) PROVE RequestsFit'
  BY <1>0, <1>2 DEF Make, Request, RequestsFit, TypeOK
<1>3. ASSUME NEW q \in Req, Cancelled(q) \/ Answered(q) \/ Refused(q) PROVE RequestsFit'
  <2>1. \A pc \in {"done", "rejected"} : [NoRequest EXCEPT !.pc = pc].pc = pc
    BY DEF NoRequest, Request
  <2> QED
    BY <1>0, <1>3, <2>1 DEF Cancelled, Answered, Refused, Dispose, RequestsFit, TypeOK
<1>4. ASSUME NEW q \in Req, Denied(q) PROVE RequestsFit'
  BY <1>0, <1>4 DEF Denied, RequestsFit, TypeOK, Requests
<1>5. ASSUME NEW b \in Tab, Refreshed(b) PROVE RequestsFit'
  <2>1. [NoRequest EXCEPT !.pc = "rejected"].pc = "rejected"
    BY DEF NoRequest, Request
  <2>2. ASSUME NEW q \in Req, q \in Waiting(b), ~ContextChanged(q)
        PROVE  req[q].tab = b /\ req[q].org = tab[b].org
    BY <2>2 DEF Waiting, ContextChanged
  <2>3. ASSUME NEW q \in Req, req'[q].pc \in {"sent", "waiting"}
        PROVE  req'[q].tab \in Tab /\ req'[q].hdr = req'[q].org
    <3>1. CASE q \notin Waiting(b)
      BY <1>0, <1>5, <2>3, <3>1 DEF Refreshed, RequestsFit
    <3>2. CASE q \in Waiting(b) /\ ContextChanged(q)
      BY <1>5, <2>1, <2>3, <3>2 DEF Refreshed
    <3>3. CASE q \in Waiting(b) /\ ~ContextChanged(q)
      <4>1. req'[q] = [req[q] EXCEPT !.pc = "sent", !.hdr = tab[b].org]
        BY <1>5, <3>3 DEF Refreshed
      <4> QED
        BY <1>0, <2>2, <3>3, <4>1 DEF TypeOK, Requests
    <3> QED
      BY <3>1, <3>2, <3>3
  <2> QED
    BY <2>3 DEF RequestsFit
<1>6. ASSUME NEW b \in Tab, req' = Moved(b, req) PROVE RequestsFit'
  BY <1>0, <1>6, MovedType DEF RequestsFit, TypeOK
<1>7. ASSUME NEW b \in Tab, RefreshFailed(b) PROVE RequestsFit'
  <2>1. [NoRequest EXCEPT !.pc = "rejected"].pc = "rejected"
    BY DEF NoRequest, Request
  <2> QED
    BY <1>0, <1>7, <2>1, MovedType DEF RefreshFailed, RequestsFit, TypeOK
<1>8. ASSUME NEW b \in Tab,
             LoggedOut(b) \/ Login(b) \/ \E o \in Organization : Switch(b, o)
      PROVE  req' = Moved(b, req)
  BY <1>8 DEF LoggedOut, Login, Switch
<1>9. ASSUME NEW b \in Tab,
             RefreshServe(b) \/ RefreshRefuse(b) \/ RefreshLost(b) \/ LogoutServe(b)
               \/ LogoutLost(b) \/ LogoutSend(b)
      PROVE  UNCHANGED req
  BY <1>9 DEF RefreshServe, RefreshRefuse, RefreshLost, LogoutServe, LogoutLost, LogoutSend
<1>10. ASSUME \/ \E x \in txs : Commit(x) \/ Rollback(x)
              \/ \E t \in Token : TokenExpires(t)
              \/ UNCHANGED vars
       PROVE  UNCHANGED req
  BY <1>10 DEF Commit, Rollback, TokenExpires, vars
<1> QED
  BY <1>1, <1>2, <1>3, <1>4, <1>5, <1>6, <1>7, <1>8, <1>9, <1>10
     DEF Next, RequestStep, RefreshStep, LogoutStep, UserStep

LEMMA WaitersStep ==
  ASSUME SessionsInv, [Next]_vars
  PROVE  WaitersAreWoken'
<1> USE DEF Refreshing, Becomes, Waiting
<1> DEFINE Waits(q) == req[q].pc = "waiting"
<1>0. /\ TypeOK /\ RequestsFit
      /\ \A q \in Req : Waits(q) => req[q].tab \in Tab /\ Refreshing(req[q].tab)
  BY DEF SessionsInv, WaitersAreWoken, RequestsFit
<1>1. ASSUME \A q \in Req : Waits(q)' => Waits(q) /\ req'[q].tab = req[q].tab,
             \A b \in Tab : Refreshing(b) => Refreshing(b)'
      PROVE  WaitersAreWoken'
  BY <1>0, <1>1 DEF WaitersAreWoken
<1>2. ASSUME NEW q \in Req, Denied(q) PROVE WaitersAreWoken'
  <2>1. PICK c \in Tab : c = req[q].tab
    BY <1>0, <1>2 DEF Denied, RequestsFit
  <2>2. Refreshing(c)' /\ \A b \in Tab : Refreshing(b) => Refreshing(b)'
    <3>1. CASE UNCHANGED refresh /\ Refreshing(c)
      BY <3>1
    <3>2. CASE refresh' = [refresh EXCEPT ![c] = Call("sent", cookie, 0)]
      <4>1. Call("sent", cookie, 0).pc = "sent"
        BY DEF Call
      <4> QED
        BY <1>0, <2>1, <3>2, <4>1 DEF TypeOK
    <3> QED
      BY <1>2, <2>1, <3>1, <3>2 DEF Denied, Join, StartRefresh
  <2>3. \A p \in Req : req'[p].tab = req[p].tab /\ (p # q => req'[p] = req[p])
    BY <1>0, <1>2 DEF Denied, TypeOK, Requests
  <2> QED
    BY <1>0, <2>1, <2>2, <2>3 DEF WaitersAreWoken
<1>3. ASSUME NEW b \in Tab, Refreshed(b) \/ RefreshFailed(b) PROVE WaitersAreWoken'
  <2>1. [NoRequest EXCEPT !.pc = "rejected"].pc = "rejected"
    BY DEF NoRequest, Request
  <2>2. ASSUME NEW q \in Req, Waits(q)'
        PROVE  Waits(q) /\ req[q].tab # b /\ req'[q].tab = req[q].tab
    <3>1. CASE Refreshed(b)
      <4>1. q \notin Waiting(b)
        BY <1>0, <2>1, <2>2, <3>1 DEF Refreshed, TypeOK, Requests
      <4> QED
        BY <2>2, <3>1, <4>1 DEF Refreshed
    <3>2. CASE RefreshFailed(b)
      <4>1. q \notin Waiting(b)
        BY <2>1, <2>2, <3>2 DEF RefreshFailed
      <4> QED
        BY <1>0, <2>2, <3>2, <4>1, MovedType DEF RefreshFailed, TypeOK
    <3> QED
      BY <1>3, <3>1, <3>2
  <2>3. \A c \in Tab \ {b} : refresh'[c] = refresh[c]
    BY <1>3, Answers, Fails
  <2> QED
    BY <1>0, <2>2, <2>3 DEF WaitersAreWoken
<1>4. ASSUME UNCHANGED <<req, refresh>> PROVE WaitersAreWoken'
  BY <1>1, <1>4
<1>5. ASSUME NEW q \in Req, NEW b \in Tab, Make(q, b) PROVE WaitersAreWoken'
  BY <1>0, <1>1, <1>5 DEF Make, Request, TypeOK
<1>6. ASSUME NEW q \in Req, Cancelled(q) \/ Answered(q) \/ Refused(q) PROVE WaitersAreWoken'
  <2>1. \A pc \in {"done", "rejected"} : [NoRequest EXCEPT !.pc = pc].pc = pc
    BY DEF NoRequest, Request
  <2> QED
    BY <1>0, <1>1, <1>6, <2>1 DEF Cancelled, Answered, Refused, Dispose, TypeOK
<1>7. ASSUME NEW b \in Tab,
             LoggedOut(b) \/ Login(b) \/ \E o \in Organization : Switch(b, o)
      PROVE  WaitersAreWoken'
  <2>1. req' = Moved(b, req) /\ UNCHANGED refresh
    BY <1>7 DEF LoggedOut, Login, Switch
  <2> QED
    BY <1>0, <1>1, <2>1, MovedType DEF TypeOK
<1>8. ASSUME NEW b \in Tab, RefreshServe(b) PROVE WaitersAreWoken'
  <2>1. UNCHANGED req /\ \A c \in Tab : Refreshing(c) => Refreshing(c)'
    BY <1>8, Served DEF RefreshServe
  <2> QED
    BY <1>1, <2>1
<1>9. ASSUME NEW b \in Tab, RefreshRefuse(b) \/ RefreshLost(b) PROVE WaitersAreWoken'
  <2>1. UNCHANGED req /\ \A c \in Tab : Refreshing(c) => Refreshing(c)'
    BY <1>9, Refuses, Loses DEF RefreshRefuse, RefreshLost
  <2> QED
    BY <1>1, <2>1
<1>10. ASSUME NEW b \in Tab, LogoutServe(b) \/ LogoutLost(b) \/ LogoutSend(b)
       PROVE  UNCHANGED <<req, refresh>>
  BY <1>10 DEF LogoutServe, LogoutLost, LogoutSend
<1>11. ASSUME \/ \E x \in txs : Commit(x) \/ Rollback(x)
              \/ \E t \in Token : TokenExpires(t)
              \/ UNCHANGED vars
       PROVE  UNCHANGED <<req, refresh>>
  BY <1>11 DEF Commit, Rollback, TokenExpires, vars
<1> HIDE DEF Waits
<1> QED
  BY <1>2, <1>3, <1>4, <1>5, <1>6, <1>7, <1>8, <1>9, <1>10, <1>11
     DEF Next, RequestStep, RefreshStep, LogoutStep, UserStep

-----------------------------------------------------------------------------
LEMMA Beginning == Init => SessionsInv
<1> SUFFICES ASSUME Init PROVE SessionsInv
  OBVIOUS
<1>1. 1 \in Token /\ 0 \in 0 .. MaxToken /\ 1 \in 0 .. MaxToken
  BY TokenAssumption DEF Token
<1>2. TypeOK
  <2>1. NoRequest \in Requests
    BY DEF NoRequest, Request, Requests
  <2> QED
    BY <1>1, <2>1, NoCallType, BoundAssumption DEF Init, TypeOK, TokenStates
<1>3. \A b \in Tab :
        /\ refresh[b].pc = "none" /\ refresh[b].tok = 0 /\ refresh[b].new = 0
        /\ logout[b].pc = "none" /\ logout[b].tok = 0
  BY NoCallType DEF Init
<1>4. \A q \in Req : req[q].pc = "none"
  BY DEF Init, NoRequest, Request
<1>5. OneLiveToken /\ KnownTokens /\ TransactionsFit
  BY <1>1, <1>3 DEF Init, OneLiveToken, KnownTokens, TransactionsFit, Used
<1>6. CallsTakeTurns /\ TipWorks
  BY <1>1, <1>3
     DEF Init, CallsTakeTurns, TipWorks, IsTip, Valid, Calling, Refreshing, LoggingOut
<1>7. RequestsFit /\ SessionEndsForAReason /\ LogoutIsFinal /\ WaitersAreWoken
  BY <1>3, <1>4
     DEF Init, RequestsFit, SessionEndsForAReason, LogoutIsFinal, WaitersAreWoken, Waiting
<1> QED
  BY <1>2, <1>5, <1>6, <1>7 DEF SessionsInv

LEMMA Keeps ==
  ASSUME SessionsInv, [Next]_vars
  PROVE  SessionsInv'
<1>1. CallsTakeTurns'
  <2>1. upset' # "disturbed" => OneCall' /\ (\A b \in Tab : TabFits(b)') /\ TipIsLast'
    BY CallsStep, TipStep
  <2> QED
    BY <2>1 DEF CallsTakeTurns, OneCall, TabFits, TipIsLast
<1> QED
  BY <1>1, TokensType, LiveStep, KnownStep, TransactionsStep, TipWorksStep, RequestsStep,
     ReasonStep, FinalStep, WaitersStep DEF SessionsInv

(* refresh_service.py and interceptors.ts: what tabs and transactions know of
   tokens fits the table, however many of them compete. *)
THEOREM SessionsHold == Spec => []SessionsInv
<1> QED
  BY Beginning, Keeps, PTL DEF Spec

(* rotate: a session that was not ended nor disturbed is refreshed, never
   refused. *)
THEOREM RefusalsHaveReasons == Spec => []SessionEndsForAReason
<1>1. SessionsInv => SessionEndsForAReason
  BY DEF SessionsInv
<1> QED
  BY <1>1, SessionsHold, PTL

(* revoke: after an undisturbed logout no token of its login works. *)
THEOREM LogoutsAreFinal == Spec => []LogoutIsFinal
<1>1. SessionsInv => LogoutIsFinal
  BY DEF SessionsInv
<1> QED
  BY <1>1, SessionsHold, PTL

(* refreshAccessToken: no request waits for a refresh that is not under way. *)
THEOREM NobodyIsForgotten == Spec => []WaitersAreWoken
<1>1. SessionsInv => WaitersAreWoken
  BY DEF SessionsInv
<1> QED
  BY <1>1, SessionsHold, PTL

(* contextHasChanged: no request is repeated in another organization, and no
   answer reaches a page of another one. *)
THEOREM RequestsStay == Spec => StaysInOrganization
<1> DEFINE Stays ==
      \A q \in Req :
        /\ req'[q].pc = "sent" => req'[q].hdr = req'[q].org
        /\ req'[q].pc = "done" /\ req[q].pc # "done" =>
             req[q].hdr = tab[req[q].tab].org /\ ~req[q].moved
<1>1. ASSUME SessionsInv, [Next]_vars PROVE Stays
  <2>0. TypeOK /\ RequestsFit /\ RequestsFit'
    BY <1>1, RequestsStep DEF SessionsInv
  <2>1. ASSUME NEW q \in Req, req'[q].pc = "done", req[q].pc # "done"
        PROVE  Answered(q)
    <3>1. \A p \in Req : Cancelled(p) \/ Refused(p) => ~(req'[q].pc = "done")
      BY <2>0, <2>1 DEF Cancelled, Refused, Dispose, TypeOK, NoRequest, Request
    <3>2. \A p \in Req : Answered(p) => p = q
      BY <2>0, <2>1 DEF Answered, Dispose, TypeOK
    <3>3. \A p \in Req : Denied(p) \/ (\E b \in Tab : Make(p, b)) => ~(req'[q].pc = "done")
      BY <2>0, <2>1 DEF Denied, Make, Request, TypeOK, Requests
    <3>4. \A b \in Tab :
            Refreshed(b) \/ RefreshFailed(b) \/ LoggedOut(b) \/ Login(b)
              \/ (\E o \in Organization : Switch(b, o)) => ~(req'[q].pc = "done")
      <4>1. [NoRequest EXCEPT !.pc = "rejected"].pc = "rejected"
        BY DEF NoRequest, Request
      <4>2. ASSUME NEW b \in Tab, Refreshed(b) PROVE ~(req'[q].pc = "done")
        BY <2>0, <2>1, <4>1, <4>2 DEF Refreshed, TypeOK, Requests
      <4>3. ASSUME NEW b \in Tab, RefreshFailed(b) PROVE ~(req'[q].pc = "done")
        BY <2>0, <2>1, <4>1, <4>3, MovedType DEF RefreshFailed, TypeOK
      <4>4. ASSUME NEW b \in Tab,
                   LoggedOut(b) \/ Login(b) \/ \E o \in Organization : Switch(b, o)
            PROVE  ~(req'[q].pc = "done")
        <5>1. req' = Moved(b, req)
          BY <4>4 DEF LoggedOut, Login, Switch
        <5> QED
          BY <2>0, <2>1, <5>1, MovedType DEF TypeOK
      <4> QED
        BY <4>2, <4>3, <4>4
    <3>5. \A b \in Tab :
            RefreshServe(b) \/ RefreshRefuse(b) \/ RefreshLost(b) \/ LogoutServe(b)
              \/ LogoutLost(b) \/ LogoutSend(b) => UNCHANGED req
      BY DEF RefreshServe, RefreshRefuse, RefreshLost, LogoutServe, LogoutLost, LogoutSend
    <3>6. (\E x \in txs : Commit(x) \/ Rollback(x)) \/ (\E t \in Token : TokenExpires(t))
            \/ UNCHANGED vars => UNCHANGED req
      BY DEF Commit, Rollback, TokenExpires, vars
    <3> QED
      BY <1>1, <2>1, <3>1, <3>2, <3>3, <3>4, <3>5, <3>6
         DEF Next, RequestStep, RefreshStep, LogoutStep, UserStep
  <2>2. ASSUME NEW q \in Req, Answered(q)
        PROVE  req[q].hdr = tab[req[q].tab].org /\ ~req[q].moved
    BY <2>0, <2>2 DEF Answered, ContextChanged, RequestsFit
  <2> QED
    BY <2>0, <2>1, <2>2 DEF RequestsFit
<1>2. SessionsInv /\ [Next]_vars => [Stays]_vars
  BY <1>1
<1> QED
  BY <1>2, SessionsHold, PTL DEF Spec, StaysInOrganization
=============================================================================
