------------------------- MODULE RefreshTokensProofs -------------------------
(* Proofs about RefreshTokens, for every value of its constants.           *)
EXTENDS RefreshTokens, TLAPS

\* The invariant that does not depend on how many requests a browser has in
\* flight: types, and the links between rows, requests and cookies.
Links == TypeOK /\ LineageInv

USE NoneAssumption, LegacyAssumption

\* Initial states satisfy the types and the links.
LEMMA InitLinks == Init => Links
<1> SUFFICES ASSUME Init PROVE Links
  OBVIOUS
<1>1. TypeOK
  BY DEF Init, TypeOK, Rec, Idle, Pcs, Answers
<1>2. LineageInv
  BY DEF Init, LineageInv, TokenLinks, RequestLinks, LogoutPcs, PendingLinks, JarLinks, Idle
<1> QED BY <1>1, <1>2 DEF Links

\* The steps of a browser keep the types and the links.
LEMMA BrowserLinks ==
  ASSUME Links, NEW b \in Browsers, NEW r \in Requests, BrowserStep(b, r)
  PROVE  Links'
<1> USE DEF Links
<1>1. ASSUME NEW pc \in {"find", "issueRoot", "logoutFind", "deleteAll"},
             NEW u \in Users \cup {NONE}, Send(b, r, pc, u),
             pc = "logoutFind" => jar[b] # NONE,
             pc \in {"issueRoot", "deleteAll"} => u \in Users
      PROVE  Links'
  <2>1. TypeOK'
    BY <1>1 DEF Send, TypeOK, Rec, Idle, Pcs, Answers, tokenVars, historyVars
  <2>2. TokenLinks' /\ JarLinks'
    BY <1>1 DEF Send, LineageInv, TokenLinks, JarLinks, tokenVars, historyVars
  <2>3. RequestLinks'
    BY <1>1 DEF Send, TypeOK, LineageInv, RequestLinks, LogoutPcs, JarLinks, Idle, tokenVars, historyVars
  <2>4. PendingLinks'
    BY <1>1 DEF Send, TypeOK, LineageInv, PendingLinks, Idle, tokenVars, historyVars
  <2> QED BY <2>1, <2>2, <2>3, <2>4 DEF LineageInv
<1>2. CASE SendRefresh(b, r)
  BY <1>1, <1>2 DEF SendRefresh
<1>3. CASE SendLogout(b, r)
  BY <1>1, <1>3 DEF SendLogout
<1>4. CASE \E u \in Users : SendSignIn(b, r, u) \/ SendPassword(b, r, u)
  BY <1>1, <1>4 DEF SendSignIn, SendPassword
<1>5. CASE Abandon(b, r)
  <2>1. TypeOK'
    BY <1>5 DEF Abandon, TypeOK, Rec, tokenVars, historyVars
  <2>2. LineageInv'
    BY <1>5 DEF Abandon, TypeOK, LineageInv, TokenLinks, RequestLinks, LogoutPcs, PendingLinks,
                JarLinks, tokenVars, historyVars
  <2> QED BY <2>1, <2>2
<1>6. CASE Deliver(b, r)
  <2>1. TypeOK'
    BY <1>6 DEF Deliver, TypeOK, LineageInv, PendingLinks, Rec, Idle, Pcs, Answers,
                tokenVars
  <2>2. TokenLinks'
    BY <1>6 DEF Deliver, TypeOK, LineageInv, TokenLinks, tokenVars
  <2>3. RequestLinks'
    BY <1>6 DEF Deliver, TypeOK, LineageInv, RequestLinks, LogoutPcs, Idle, tokenVars
  <2>4. PendingLinks'
    BY <1>6 DEF Deliver, TypeOK, LineageInv, PendingLinks, Idle, tokenVars
  <2>5. JarLinks'
    BY <1>6 DEF Deliver, TypeOK, LineageInv, JarLinks, tokenVars
  <2> QED BY <2>1, <2>2, <2>3, <2>4, <2>5 DEF LineageInv
<1> QED BY <1>2, <1>3, <1>4, <1>5, <1>6 DEF BrowserStep

\* Steps that only move a request along, keeping its token and its answer.
LEMMA MoveLinks ==
  ASSUME Links, NEW r \in Requests,
         \/ RefreshFind(r) \/ AccountOk(r) \/ AccountBarred(r) \/ AccountUnavailable(r)
         \/ LogoutFind(r) \/ LogoutChain(r) \/ Fail(r) \/ Drop(r)
  PROVE  Links'
<1> USE DEF Links
<1> DEFINE same == UNCHANGED <<issued, rows, owner, parent, root, lapsed, barred, jar,
                               held, loggedOut, reset>>
<1>1. same
  BY DEF RefreshFind, AccountOk, AccountBarred, AccountUnavailable, LogoutFind,
         LogoutChain, Fail, Drop, tokenVars, historyVars
<1>2. TokenLinks' /\ JarLinks'
  BY <1>1 DEF LineageInv, TokenLinks, JarLinks
<1>3. TypeOK'
  <2> SUFFICES req' \in [Requests -> Rec]
    BY <1>1 DEF TypeOK
  <2>1. CASE RefreshFind(r)
    BY <2>1 DEF RefreshFind, Usable, Goto, TypeOK, Rec, Pcs, Answers
  <2>2. CASE AccountOk(r) \/ AccountBarred(r) \/ AccountUnavailable(r)
    BY <2>2 DEF AccountOk, AccountBarred, AccountUnavailable, Goto, TypeOK, Rec, Pcs, Answers
  <2>3. CASE LogoutFind(r)
    BY <2>3 DEF LogoutFind, Goto, TypeOK, Rec, Pcs, Answers
  <2>4. CASE LogoutChain(r)
    BY <2>4 DEF LogoutChain, Goto, TypeOK, Rec, Pcs
  <2>5. CASE Fail(r)
    BY <2>5 DEF Fail, Goto, TypeOK, Rec, Pcs, Answers
  <2>6. CASE Drop(r)
    BY <2>6 DEF Drop, Idle, TypeOK, Rec, Pcs
  <2> QED BY <2>1, <2>2, <2>3, <2>4, <2>5, <2>6
<1>4. RequestLinks'
  <2> USE DEF TypeOK, Rec, LineageInv, RequestLinks, LogoutPcs
  <2>1. CASE RefreshFind(r)
    <3>1. CASE req[r].token # NONE /\ Usable(req[r].token)
      BY <1>1, <2>1, <3>1 DEF RefreshFind
    <3>2. CASE ~(req[r].token # NONE /\ Usable(req[r].token))
      BY <1>1, <2>1, <3>2 DEF RefreshFind, Goto
    <3> QED BY <3>1, <3>2
  <2>2. CASE AccountOk(r) \/ AccountBarred(r) \/ AccountUnavailable(r)
    BY <1>1, <2>2 DEF AccountOk, AccountBarred, AccountUnavailable, Goto
  <2>3. CASE LogoutFind(r)
    <3>1. CASE req[r].token \in rows
      BY <1>1, <2>3, <3>1 DEF LogoutFind
    <3>2. CASE req[r].token \notin rows
      BY <1>1, <2>3, <3>2 DEF LogoutFind, Goto
    <3> QED BY <3>1, <3>2
  <2>4. CASE LogoutChain(r)
    BY <1>1, <2>4 DEF LogoutChain, Goto
  <2>5. CASE Fail(r)
    BY <1>1, <2>5 DEF Fail, Goto
  <2>6. CASE Drop(r)
    BY <1>1, <2>6 DEF Drop, Idle
  <2> QED BY <2>1, <2>2, <2>3, <2>4, <2>5, <2>6
<1>5. PendingLinks'
  BY <1>1 DEF RefreshFind, AccountOk, AccountBarred, AccountUnavailable, LogoutFind,
         LogoutChain, Fail, Drop, Goto, Idle, Answers, TypeOK, Rec, LineageInv, PendingLinks
<1> QED BY <1>2, <1>3, <1>4, <1>5 DEF LineageInv

\* Steps that only remove rows and end a stage of a request.
LEMMA RemoveLinks ==
  ASSUME Links, NEW r \in Requests,
         RetireAncestors(r) \/ LogoutDelete(r) \/ DeleteAllForUser(r)
  PROVE  Links'
<1> USE DEF Links
<1>1. UNCHANGED <<issued, owner, parent, root, lapsed, barred, jar, held>>
  BY DEF RetireAncestors, LogoutDelete, DeleteAllForUser, tokenVars, historyVars
<1>2. TokenLinks' /\ JarLinks'
  BY <1>1 DEF LineageInv, TokenLinks, JarLinks
<1>3. TypeOK'
  <2>1. rows' \subseteq issued'
    BY <1>1 DEF RetireAncestors, LogoutDelete, DeleteAllForUser, TypeOK
  <2>2. req' \in [Requests -> Rec]
    <3>1. PICK pc \in Answers : Goto(r, pc)
      BY DEF RetireAncestors, LogoutDelete, DeleteAllForUser, Answers
    <3>2. [req[r] EXCEPT !.pc = pc] \in Rec
      BY DEF TypeOK, Rec, Pcs
    <3> QED BY <3>1, <3>2 DEF Goto, TypeOK
  <2>3. loggedOut' \subseteq Tokens \cup {NONE}
    BY DEF RetireAncestors, LogoutDelete, DeleteAllForUser, historyVars, TypeOK, LogoutRows,
           LineageInv, RequestLinks, LogoutPcs
  <2>4. reset' \subseteq Tokens \cup {NONE}
    BY DEF RetireAncestors, LogoutDelete, DeleteAllForUser, historyVars, TypeOK
  <2> QED BY <1>1, <2>1, <2>2, <2>3, <2>4 DEF TypeOK
<1>4. RequestLinks'
  BY <1>1 DEF RetireAncestors, LogoutDelete, DeleteAllForUser, Goto, TypeOK, Rec,
         LineageInv, RequestLinks, LogoutPcs
<1>5. PendingLinks'
  BY <1>1 DEF RetireAncestors, LogoutDelete, DeleteAllForUser, Goto, TypeOK, Rec,
         LineageInv, PendingLinks
<1> QED BY <1>2, <1>3, <1>4, <1>5 DEF LineageInv

\* A new row: its links are right when its parent was delivered and its owner
\* is the parent's.
LEMMA CreateLinks ==
  ASSUME Links, NEW t \in Tokens \ issued, NEW u \in Users, NEW p \in Tokens \cup {NONE},
         Create(t, u, p), p # NONE => p \in held /\ u = owner[p],
         UNCHANGED <<jar, held>>
  PROVE  /\ TokenLinks' /\ JarLinks'
         /\ issued' = issued \cup {t}
         /\ rows' \subseteq issued' /\ held' \subseteq issued'
         /\ owner' \in [Tokens -> Users \cup {NONE}]
         /\ parent' \in [Tokens -> Tokens \cup {NONE}]
         /\ root' \in [Tokens -> Tokens \cup {NONE}]
         /\ \A s \in issued : /\ owner'[s] = owner[s] /\ parent'[s] = parent[s]
                              /\ root'[s] = root[s]
         /\ parent'[t] = p
<1> USE DEF Links, Create, TypeOK
<1>1. /\ issued' = issued \cup {t}
      /\ rows' \subseteq issued' /\ held' \subseteq issued'
      /\ owner' \in [Tokens -> Users \cup {NONE}]
      /\ parent' \in [Tokens -> Tokens \cup {NONE}]
      /\ parent'[t] = p
      /\ \A s \in Tokens \ {t} : /\ owner'[s] = owner[s] /\ parent'[s] = parent[s]
                                 /\ root'[s] = root[s]
  OBVIOUS
<1>2. root' \in [Tokens -> Tokens \cup {NONE}]
  OBVIOUS
<1>3. TokenLinks'
  BY <1>1, <1>2 DEF LineageInv, TokenLinks
<1>4. JarLinks'
  BY DEF LineageInv, JarLinks
<1> QED BY <1>1, <1>2, <1>3, <1>4

\* Issuing a child or a root keeps the types and the links.
LEMMA IssueLinks ==
  ASSUME Links, NEW r \in Requests, IssueChild(r) \/ IssueRoot(r)
  PROVE  Links'
<1> USE DEF Links
<1>1. PICK t \in Tokens \ issued, p \in Tokens \cup {NONE}, pc \in {"retire", "cookie"} :
          /\ Create(t, req[r].user, p)
          /\ p \in {NONE, req[r].token}
          /\ pc = "retire" => req[r].pc = "issueChild"
          /\ req' = [req EXCEPT ![r] = [@ EXCEPT !.pc = pc, !.new = t]]
          /\ req[r].user \in Users
          /\ p # NONE => p \in held /\ req[r].user = owner[p]
  <2>1. CASE IssueChild(r)
    <3>1. PICK t \in Tokens \ issued :
             /\ Create(t, req[r].user, req[r].token)
             /\ req' = [req EXCEPT ![r] = [@ EXCEPT !.pc = "retire", !.new = t]]
      BY <2>1 DEF IssueChild
    <3>2. /\ req[r].pc = "issueChild"
          /\ req[r].token \in Tokens /\ req[r].token \in held
          /\ req[r].user = owner[req[r].token] /\ req[r].user \in Users
      BY <2>1 DEF IssueChild, TypeOK, Rec, LineageInv, RequestLinks, LogoutPcs, TokenLinks
    <3> QED BY <3>1, <3>2
  <2>2. CASE IssueRoot(r)
    <3>1. PICK t \in Tokens \ issued :
             /\ Create(t, req[r].user, NONE)
             /\ req' = [req EXCEPT ![r] = [@ EXCEPT !.pc = "cookie", !.new = t]]
      BY <2>2 DEF IssueRoot
    <3>2. req[r].user \in Users
      BY <2>2 DEF IssueRoot, TypeOK, Rec, LineageInv, RequestLinks, LogoutPcs, TokenLinks
    <3> QED BY <3>1, <3>2
  <2> QED BY <2>1, <2>2
<1>2. UNCHANGED <<lapsed, barred, jar, held, loggedOut, reset>>
  BY DEF IssueChild, IssueRoot, historyVars
<1>3. /\ TokenLinks' /\ JarLinks'
      /\ issued' = issued \cup {t}
      /\ rows' \subseteq issued' /\ held' \subseteq issued'
      /\ owner' \in [Tokens -> Users \cup {NONE}]
      /\ parent' \in [Tokens -> Tokens \cup {NONE}]
      /\ root' \in [Tokens -> Tokens \cup {NONE}]
      /\ \A s \in issued : /\ owner'[s] = owner[s] /\ parent'[s] = parent[s]
                           /\ root'[s] = root[s]
      /\ parent'[t] = p
  BY <1>1, <1>2, CreateLinks
<1>4. /\ req' \in [Requests -> Rec]
      /\ \A q \in Requests : q # r => req'[q] = req[q]
      /\ req'[r].pc = pc /\ req'[r].new = t
      /\ req'[r].token = req[r].token /\ req'[r].user = req[r].user
  <2>1. req \in [Requests -> Rec]
    BY DEF TypeOK
  <2>2. req' = [req EXCEPT ![r] = [@ EXCEPT !.pc = pc, !.new = t]]
    BY <1>1
  <2>3. pc \in Pcs /\ t \in Tokens
    BY DEF Pcs, Answers
  <2> HIDE DEF Links
  <2>4. [req[r] EXCEPT !.pc = pc, !.new = t] \in Rec
    <3>1. \A q \in Rec, a \in Pcs, u \in Tokens \cup {NONE} :
            [q EXCEPT !.pc = a, !.new = u] \in Rec
      BY DEF Rec
    <3>2. req[r] \in Rec
      BY <2>1
    <3> QED BY <3>1, <3>2, <2>3
  <2>5. req' \in [Requests -> Rec]
    BY <2>1, <2>2, <2>4
  <2>6. /\ req'[r].pc = pc /\ req'[r].new = t
        /\ req'[r].token = req[r].token /\ req'[r].user = req[r].user
    BY <2>1, <2>2 DEF Rec
  <2>7. \A q \in Requests : q # r => req'[q] = req[q]
    BY <2>1, <2>2
  <2> QED BY <2>5, <2>6, <2>7
<1>5. TypeOK'
  BY <1>1, <1>2, <1>3, <1>4 DEF TypeOK
<1>6. RequestLinks'
  <2> SUFFICES ASSUME NEW q \in Requests
               PROVE  /\ req'[q].token # NONE => req'[q].token \in held'
                      /\ req'[q].pc \in {"account", "issueChild", "retire"}
                                         \cup LogoutPcs => req'[q].token # NONE
                      /\ req'[q].pc \in {"account", "issueChild", "retire", "logoutChain",
                                         "deleteChain", "deleteToken"} => req'[q].user = owner'[req'[q].token]
                      /\ req'[q].pc \in {"issueRoot", "deleteAll"} => req'[q].user \in Users
    BY DEF RequestLinks, LogoutPcs
  <2>1. /\ req[q].token \in Tokens \cup {NONE}
        /\ req[q].token # NONE => /\ req[q].token \in held /\ req[q].token \in issued
                                  /\ owner'[req[q].token] = owner[req[q].token]
    BY <1>3 DEF TypeOK, Rec, LineageInv, RequestLinks, LogoutPcs
  <2>2. CASE q # r
    BY <2>1, <2>2, <1>2, <1>4 DEF LineageInv, RequestLinks, LogoutPcs
  <2>3. CASE q = r
    BY <2>1, <2>3, <1>1, <1>2, <1>4 DEF LineageInv, RequestLinks, LogoutPcs
  <2> QED BY <2>2, <2>3
<1>7. PendingLinks'
  <2>1. \A q \in Requests \ {r} : req[q].pc \in {"retire", "cookie"} =>
             req[q].new \in issued /\ req[q].new # t
    BY DEF LineageInv, PendingLinks
  <2>2. t \in issued' \ held'
    BY <1>2, <1>3 DEF TypeOK
  <2> QED BY <1>1, <1>2, <1>3, <1>4, <2>1, <2>2 DEF LineageInv, PendingLinks
<1> QED BY <1>3, <1>5, <1>6, <1>7 DEF LineageInv

\* Time and administrators touch no link.
LEMMA EnvironmentLinks == Links /\ Environment => Links'
<1> SUFFICES ASSUME Links, Environment PROVE Links'
  OBVIOUS
<1>1. UNCHANGED <<issued, rows, owner, parent, root, jar, req, held, loggedOut, reset>>
      /\ lapsed' \subseteq Tokens /\ barred' \subseteq Users
  BY DEF Environment, Lapse, BarAccount, ReinstateAccount, tokenVars, historyVars,
         Links, TypeOK
<1> QED BY <1>1 DEF Links, TypeOK, LineageInv, TokenLinks, RequestLinks, LogoutPcs, PendingLinks, JarLinks

\* Every step keeps the types and the links.
LEMMA NextLinks == Links /\ [Next]_vars => Links'
<1> SUFFICES ASSUME Links, [Next]_vars PROVE Links'
  OBVIOUS
<1>1. CASE UNCHANGED vars
  BY <1>1 DEF vars, Links, TypeOK, LineageInv, TokenLinks, RequestLinks, LogoutPcs, PendingLinks,
              JarLinks
<1>2. ASSUME NEW b \in Browsers, NEW r \in Requests, BrowserStep(b, r) PROVE Links'
  BY <1>2, BrowserLinks
<1>3. ASSUME NEW r \in Requests, ServerStep(r) PROVE Links'
  BY <1>3, MoveLinks, RemoveLinks, IssueLinks DEF ServerStep
<1>4. CASE Environment
  BY <1>4, EnvironmentLinks
<1> QED BY <1>1, <1>2, <1>3, <1>4 DEF Next

\* Types and links hold in every reachable state.
THEOREM LinksInvariant == Spec => [](TypeOK /\ LineageInv)
<1>1. Spec => []Links
  BY InitLinks, NextLinks, PTL DEF Spec
<1>2. Links => TypeOK /\ LineageInv
  BY DEF Links
<1> QED BY <1>1, <1>2, PTL

\* The types of the model (TypeOK) hold in every reachable state.
THEOREM TypeInvariant == Spec => []TypeOK
BY LinksInvariant, PTL

-----------------------------------------------------------------------------
(* Retiring and logging out stay within one lineage.                       *)

\* The rows retireAncestors removes are of the presented token's lineage.
LEMMA AncestorsLineage ==
  ASSUME Links, NEW t \in held, NEW s \in Ancestors(t)
  PROVE  root[s] = root[t]
BY DEF Ancestors, Links, TypeOK, LineageInv, TokenLinks

\* The rows a logout removes are of its token's lineage, or soft-revoked rows
\* of the same user.
LEMMA LogoutLineage ==
  ASSUME Links, NEW r \in Requests, req[r].token \in held,
         req[r].user = owner[req[r].token], NEW s \in LogoutRows(req[r])
  PROVE  root[s] = root[req[r].token] \/ (s \in Legacy /\ owner[s] = owner[req[r].token])
BY DEF LogoutRows, Chain, Links, TypeOK, LineageInv, TokenLinks

\* Rows disappear in three kinds of step only.
LEMMA RemovalStep ==
  ASSUME [Next]_vars, NEW s \in rows \ rows'
  PROVE  \E r \in Requests : RetireAncestors(r) \/ LogoutDelete(r) \/ DeleteAllForUser(r)
<1>1. ASSUME NEW b \in Browsers, NEW r \in Requests, BrowserStep(b, r)
      PROVE  rows' = rows
  BY <1>1 DEF BrowserStep, SendRefresh, SendLogout, SendSignIn, SendPassword, Send,
              Abandon, Deliver
<1>2. ASSUME NEW r \in Requests, ServerStep(r),
             ~(RetireAncestors(r) \/ LogoutDelete(r) \/ DeleteAllForUser(r))
      PROVE  rows \subseteq rows'
  BY <1>2 DEF ServerStep, RefreshFind, AccountOk, AccountBarred, AccountUnavailable,
              IssueChild, IssueRoot, Create, LogoutFind, LogoutChain, Fail, Drop
<1>3. Environment \/ UNCHANGED vars => rows' = rows
  BY DEF Environment, Lapse, BarAccount, ReinstateAccount, vars
<1> QED BY <1>1, <1>2, <1>3 DEF Next

\* What one step may remove, with or without concurrent tabs.
THEOREM OneDevice == Spec => OneDeviceOnly
<1> DEFINE Cause(s, r) ==
      \/ /\ req[r].pc \in {"retire", "deleteChain", "deleteToken"}
         /\ root[s] = root[req[r].token]
      \/ /\ req[r].pc \in {"deleteChain", "deleteToken"}
         /\ s \in Legacy
         /\ owner[s] = owner[req[r].token]
      \/ /\ req[r].pc = "deleteAll"
         /\ owner[s] = req[r].user
<1>1. ASSUME Links, [Next]_vars, NEW s \in rows \ rows'
      PROVE  \E r \in Requests : Cause(s, r)
  <2>1. PICK r \in Requests : RetireAncestors(r) \/ LogoutDelete(r) \/ DeleteAllForUser(r)
    BY <1>1, RemovalStep
  <2>2. CASE RetireAncestors(r)
    <3>1. req[r].token \in held /\ req[r].pc = "retire" /\ s \in Ancestors(req[r].token)
      BY <1>1, <2>2 DEF RetireAncestors, Links, LineageInv, RequestLinks
    <3> QED BY <1>1, <3>1, AncestorsLineage
  <2>3. CASE LogoutDelete(r)
    <3>1. /\ req[r].token \in held /\ req[r].user = owner[req[r].token]
          /\ req[r].pc \in {"deleteChain", "deleteToken"} /\ s \in LogoutRows(req[r])
      BY <1>1, <2>3 DEF LogoutDelete, Links, LineageInv, RequestLinks, LogoutPcs
    <3> QED BY <1>1, <3>1, LogoutLineage
  <2>4. CASE DeleteAllForUser(r)
    BY <1>1, <2>4 DEF DeleteAllForUser, OwnedRows
  <2> QED BY <2>1, <2>2, <2>3, <2>4
<1>2. Links /\ [Next]_vars => [\A s \in rows \ rows' : \E r \in Requests : Cause(s, r)]_vars
  BY <1>1
<1>3. Spec => []Links
  BY InitLinks, NextLinks, PTL DEF Spec
<1>4. Spec => [][\A s \in rows \ rows' : \E r \in Requests : Cause(s, r)]_vars
  BY <1>2, <1>3, PTL DEF Spec
<1> QED BY <1>4 DEF OneDeviceOnly

-----------------------------------------------------------------------------
(* Rotation never logs a device out, when a browser's requests take turns. *)

LEMMA InitRotation == Init => RotationInv
BY DEF Init, RotationInv, OneRequest, OneHeir, PendingUsable, CookieUsable, Idle

\* A browser's step: sending copies the cookie into the request, an answer
\* moves the cookie to a child nobody had seen.
LEMMA BrowserRotation ==
  ASSUME ~ConcurrentTabs, Links, RotationInv,
         NEW b \in Browsers, NEW r \in Requests, BrowserStep(b, r)
  PROVE  RotationInv'
<1>0. UNCHANGED <<issued, rows, owner, parent, root, loggedOut, reset>>
  BY DEF BrowserStep, SendRefresh, SendLogout, SendSignIn, SendPassword, Send, Abandon,
         Deliver, tokenVars, historyVars
<1>1. ASSUME NEW pc \in {"find", "issueRoot", "logoutFind", "deleteAll"},
             NEW u \in Users \cup {NONE}, Send(b, r, pc, u)
      PROVE  RotationInv'
  <2>1. /\ \A q \in Requests : q # r => req'[q] = req[q] /\ req[q].by # b
        /\ req'[r].by = b /\ req'[r].token = jar[b] /\ req'[r].pc = pc
        /\ jar' = jar /\ held' = held
    BY <1>1 DEF Send, MaySend, Waiting, Links, TypeOK, Idle, historyVars
  <2>2. OneRequest'
    BY <2>1 DEF RotationInv, OneRequest
  <2>3. OneHeir' /\ CookieUsable'
    BY <1>0, <2>1 DEF RotationInv, OneHeir, CookieUsable, Ended
  <2>4. PendingUsable'
    BY <1>0, <2>1 DEF RotationInv, PendingUsable, Ended
  <2> QED BY <2>2, <2>3, <2>4 DEF RotationInv
<1>2. CASE SendRefresh(b, r) \/ SendLogout(b, r)
           \/ \E u \in Users : SendSignIn(b, r, u) \/ SendPassword(b, r, u)
  BY <1>1, <1>2 DEF SendRefresh, SendLogout, SendSignIn, SendPassword
<1>3. CASE Abandon(b, r)
  <2>1. /\ \A q \in Requests : q # r => req'[q] = req[q]
        /\ req'[r].by = NONE
        /\ jar' = jar /\ held' = held
    BY <1>3 DEF Abandon, Links, TypeOK, Rec, historyVars
  <2>2. OneRequest'
    BY <2>1 DEF RotationInv, OneRequest
  <2>3. OneHeir' /\ CookieUsable'
    BY <1>0, <2>1 DEF RotationInv, OneHeir, CookieUsable, Ended
  <2>4. PendingUsable'
    BY <1>0, <2>1 DEF RotationInv, PendingUsable, Ended
  <2> QED BY <2>2, <2>3, <2>4 DEF RotationInv
<1>4. CASE Deliver(b, r)
  <2>1. /\ \A q \in Requests : q # r => req'[q] = req[q]
        /\ \A q \in Requests : req[q].by \in Browsers \cup {NONE}
        /\ req'[r].by = NONE /\ req[r].by = b
        /\ \A a \in Browsers : a # b => jar'[a] = jar[a]
    BY <1>4 DEF Deliver, Links, TypeOK, Rec, Idle
  <2>2. \A q \in Requests : q # r => req[q].by # b
    BY <2>1, NoneAssumption DEF RotationInv, OneRequest
  <2>3. CASE req[r].pc = "cookie"
    <3> DEFINE c == req[r].new
    <3>1. jar'[b] = c /\ held' = held \cup {c} /\ c \in issued \ held /\ c # NONE
      BY <1>4, <2>3 DEF Deliver, Links, TypeOK, LineageInv, PendingLinks
    <3>2. parent[c] = NONE \/ (parent[c] = jar[b] /\ jar[b] # NONE)
      BY <2>1, <2>3, NoneAssumption DEF Links, LineageInv, PendingLinks, RotationInv, OneRequest
    <3>3. root[c] \notin Ended => c \in rows
      BY <2>1, <2>3, NoneAssumption DEF RotationInv, PendingUsable
    <3>4. \A a \in Browsers : jar[a] # NONE => jar[a] \in held
      BY DEF Links, LineageInv, JarLinks
    <3>5. \A s \in held \cup {c} : parent[s] # c
      BY <3>1 DEF Links, TypeOK, LineageInv, TokenLinks
    <3>6. OneRequest'
      BY <2>1, <2>2, <3>1, <3>4 DEF RotationInv, OneRequest
    <3>7. OneHeir'
      <4>1. \A s \in held : parent[s] = parent[c] /\ parent[c] # NONE => FALSE
        BY <3>2 DEF RotationInv, OneHeir
      <4>2. \A s, t \in held' : parent[s] = parent[t] /\ parent[s] # NONE => s = t
        BY <3>1, <4>1 DEF RotationInv, OneHeir
      <4>3. ASSUME NEW s \in held', NEW a \in Browsers, jar'[a] # NONE
            PROVE  parent[s] # jar'[a]
        <5>1. CASE a = b
          BY <3>1, <3>5, <4>3, <5>1
        <5>2. CASE a # b /\ s \in held
          BY <2>1, <4>3, <5>2 DEF RotationInv, OneHeir
        <5>3. CASE a # b /\ s = c
          BY <2>1, <3>2, <4>3, <5>3 DEF RotationInv, OneRequest
        <5> QED BY <3>1, <5>1, <5>2, <5>3
      <4> QED BY <1>0, <4>2, <4>3 DEF OneHeir
    <3>8. CookieUsable'
      BY <1>0, <2>1, <3>1, <3>3 DEF RotationInv, CookieUsable, Ended
    <3>9. PendingUsable'
      BY <1>0, <2>1 DEF RotationInv, PendingUsable, Ended
    <3> QED BY <3>6, <3>7, <3>8, <3>9 DEF RotationInv
  <2>4. CASE req[r].pc # "cookie"
    <3>1. (jar'[b] = NONE \/ jar'[b] = jar[b]) /\ held' = held
      BY <1>4, <2>4 DEF Deliver, Links, TypeOK
    <3>2. OneRequest'
      BY <2>1, <2>2, <3>1 DEF RotationInv, OneRequest
    <3>3. OneHeir' /\ CookieUsable'
      BY <1>0, <2>1, <3>1 DEF RotationInv, OneHeir, CookieUsable, Ended
    <3>4. PendingUsable'
      BY <1>0, <2>1 DEF RotationInv, PendingUsable, Ended
    <3> QED BY <3>2, <3>3, <3>4 DEF RotationInv
  <2> QED BY <2>3, <2>4
<1> QED BY <1>2, <1>3, <1>4 DEF BrowserStep

\* Retiring ancestors spares every cookie and every replacement awaited.
LEMMA RetireRotation ==
  ASSUME ~ConcurrentTabs, Links, RotationInv, NEW r \in Requests, RetireAncestors(r)
  PROVE  RotationInv'
<1> DEFINE t == req[r].token
<1>1. /\ t \in held
      /\ rows' = rows \ Ancestors(t)
      /\ UNCHANGED <<issued, owner, parent, root, jar, held, loggedOut, reset>>
  BY DEF RetireAncestors, Links, LineageInv, RequestLinks, tokenVars, historyVars
<1>2. /\ \A q \in Requests : /\ req'[q].by = req[q].by /\ req'[q].token = req[q].token
                             /\ req'[q].new = req[q].new
                             /\ req'[q].pc \in {"retire", "cookie"}
                                  => req[q].pc \in {"retire", "cookie"}
  BY DEF RetireAncestors, Goto, Links, TypeOK, Rec
<1>3. OneRequest' /\ OneHeir'
  BY <1>1, <1>2 DEF RotationInv, OneRequest, OneHeir
<1>4. \A b \in Browsers : jar[b] # NONE => jar[b] \notin Ancestors(t)
  BY <1>1 DEF Ancestors, RotationInv, OneHeir, Links, LineageInv, JarLinks
<1>5. CookieUsable'
  BY <1>1, <1>4 DEF RotationInv, CookieUsable, Ended
<1>6. ASSUME NEW q \in Requests, req[q].by # NONE, req[q].pc \in {"retire", "cookie"}
      PROVE  req[q].new \notin Ancestors(t)
  <2>1. /\ req[q].new \in issued \ held
        /\ parent[req[q].new] \in {NONE, req[q].token}
        /\ req[q].token = jar[req[q].by] /\ req[q].by \in Browsers
    BY <1>6 DEF Links, TypeOK, Rec, LineageInv, PendingLinks, RotationInv, OneRequest
  <2>2. req[q].new # parent[t] \/ parent[t] = NONE
    BY <1>1, <2>1 DEF Links, TypeOK, LineageInv, TokenLinks
  <2>3. parent[req[q].new] # parent[t] \/ parent[t] = NONE
    BY <1>1, <2>1 DEF RotationInv, OneHeir
  <2> QED BY <2>2, <2>3 DEF Ancestors
<1>7. PendingUsable'
  BY <1>1, <1>2, <1>6 DEF RotationInv, PendingUsable, Ended
<1> QED BY <1>3, <1>5, <1>7 DEF RotationInv

\* Every other step of the server keeps cookies and answers as they were.
LEMMA ServerRotation ==
  ASSUME ~ConcurrentTabs, Links, RotationInv, NEW r \in Requests, ServerStep(r)
  PROVE  RotationInv'
<1>1. CASE RetireAncestors(r)
  BY <1>1, RetireRotation
<1>2. CASE \/ RefreshFind(r) \/ AccountOk(r) \/ AccountBarred(r) \/ AccountUnavailable(r)
           \/ LogoutFind(r) \/ LogoutChain(r) \/ Fail(r) \/ Drop(r)
  <2>1. UNCHANGED <<issued, rows, owner, parent, root, jar, held, loggedOut, reset>>
    BY <1>2 DEF RefreshFind, AccountOk, AccountBarred, AccountUnavailable, LogoutFind,
           LogoutChain, Fail, Drop, tokenVars, historyVars
  <2>2. \A q \in Requests :
           \/ /\ req'[q].by = req[q].by /\ req'[q].token = req[q].token
              /\ req'[q].new = req[q].new
              /\ req'[q].pc \in {"retire", "cookie"} => req[q].pc \in {"retire", "cookie"}
           \/ req[q].by = NONE /\ req'[q].by = NONE
    <3> USE DEF Links, TypeOK, Rec
    <3>1. CASE RefreshFind(r)
      BY <3>1 DEF RefreshFind, Goto
    <3>2. CASE AccountOk(r) \/ AccountBarred(r) \/ AccountUnavailable(r)
      BY <3>2 DEF AccountOk, AccountBarred, AccountUnavailable, Goto
    <3>3. CASE LogoutFind(r) \/ LogoutChain(r)
      BY <3>3 DEF LogoutFind, LogoutChain, Goto
    <3>4. CASE Fail(r)
      BY <3>4 DEF Fail, Goto
    <3>5. CASE Drop(r)
      BY <3>5 DEF Drop, Idle
    <3> QED BY <1>2, <3>1, <3>2, <3>3, <3>4, <3>5
  <2>3. OneRequest' /\ OneHeir' /\ CookieUsable'
    BY <2>1, <2>2 DEF RotationInv, OneRequest, OneHeir, CookieUsable, Ended
  <2>4. PendingUsable'
    BY <2>1, <2>2 DEF RotationInv, PendingUsable, Ended
  <2> QED BY <2>3, <2>4 DEF RotationInv
<1>3. CASE IssueChild(r) \/ IssueRoot(r)
  <2>1. PICK t \in Tokens \ issued :
           /\ rows' = rows \cup {t}
           /\ \A s \in issued : parent'[s] = parent[s] /\ root'[s] = root[s]
           /\ req'[r].by = req[r].by /\ req'[r].token = req[r].token
           /\ req'[r].new = t
           /\ \A q \in Requests : q # r => req'[q] = req[q]
    <3>1. CASE IssueChild(r)
      BY <3>1 DEF IssueChild, Create, Links, TypeOK, Rec
    <3>2. CASE IssueRoot(r)
      BY <3>2 DEF IssueRoot, Create, Links, TypeOK, Rec
    <3> QED BY <1>3, <3>1, <3>2
  <2>2. UNCHANGED <<jar, held, loggedOut, reset>>
    BY <1>3 DEF IssueChild, IssueRoot, historyVars
  <2>3. \A s \in held : parent'[s] = parent[s] /\ root'[s] = root[s]
    BY <2>1 DEF Links, TypeOK
  <2>4. \A b \in Browsers : jar[b] # NONE => jar[b] \in held
    BY DEF Links, LineageInv, JarLinks
  <2>5. OneRequest' /\ OneHeir'
    BY <2>1, <2>2, <2>3 DEF RotationInv, OneRequest, OneHeir
  <2>6. CookieUsable'
    BY <2>1, <2>2, <2>3, <2>4 DEF RotationInv, CookieUsable, Ended
  <2>7. \A q \in Requests : req[q].pc \in {"retire", "cookie"} => req[q].new \in issued
    BY DEF Links, LineageInv, PendingLinks
  <2>8. PendingUsable'
    BY <2>1, <2>2, <2>7 DEF RotationInv, PendingUsable, Ended
  <2> QED BY <2>5, <2>6, <2>8 DEF RotationInv
<1>4. CASE LogoutDelete(r) \/ DeleteAllForUser(r)
  <2>1. /\ UNCHANGED <<issued, owner, parent, root, jar, held>>
        /\ loggedOut \subseteq loggedOut' /\ reset \subseteq reset'
        /\ \A s \in rows \ rows' : root[s] \in Ended'
    BY <1>4 DEF LogoutDelete, DeleteAllForUser, OwnedRows, Ended, Links, TypeOK,
                tokenVars, historyVars
  <2>2. \A q \in Requests : /\ req'[q].by = req[q].by /\ req'[q].token = req[q].token
                            /\ req'[q].new = req[q].new
                            /\ req'[q].pc \in {"retire", "cookie"}
                                 => req[q].pc \in {"retire", "cookie"}
    BY <1>4 DEF LogoutDelete, DeleteAllForUser, Goto, Links, TypeOK, Rec
  <2>3. OneRequest' /\ OneHeir'
    BY <2>1, <2>2 DEF RotationInv, OneRequest, OneHeir
  <2>4. CookieUsable' /\ PendingUsable'
    BY <2>1, <2>2 DEF RotationInv, CookieUsable, PendingUsable, Ended
  <2> QED BY <2>3, <2>4 DEF RotationInv
<1> QED BY <1>1, <1>2, <1>3, <1>4 DEF ServerStep

LEMMA NextRotation ==
  ~ConcurrentTabs /\ Links /\ RotationInv /\ [Next]_vars => RotationInv'
<1> SUFFICES ASSUME ~ConcurrentTabs, Links, RotationInv, [Next]_vars PROVE RotationInv'
  OBVIOUS
<1>1. CASE Environment \/ UNCHANGED vars
  <2>1. UNCHANGED <<rows, parent, root, jar, req, held, loggedOut, reset>>
    BY <1>1 DEF Environment, Lapse, BarAccount, ReinstateAccount, vars, tokenVars,
                historyVars
  <2> QED BY <2>1 DEF RotationInv, OneRequest, OneHeir, PendingUsable, CookieUsable, Ended
<1> QED BY <1>1, BrowserRotation, ServerRotation DEF Next

\* CookieUsable: a device whose requests take turns is never logged out by
\* rotation, whatever answers are lost and wherever the server stops.
THEOREM CookieStaysUsable == ~ConcurrentTabs => (Spec => []CookieUsable)
<1> SUFFICES ASSUME ~ConcurrentTabs PROVE Spec => []CookieUsable
  OBVIOUS
<1>1. Init => Links /\ RotationInv
  BY InitLinks, InitRotation
<1>2. Links /\ RotationInv /\ [Next]_vars => (Links /\ RotationInv)'
  BY NextLinks, NextRotation
<1>3. Links /\ RotationInv => CookieUsable
  BY DEF RotationInv
<1> QED BY <1>1, <1>2, <1>3, PTL DEF Spec

\* Who refuses a refresh, and when.
LEMMA RefusedStep ==
  ASSUME Links, [Next]_vars, NEW r \in Requests,
         req'[r].pc = "unauthorized", req[r].pc # "unauthorized"
  PROVE  RefreshFind(r) \/ AccountBarred(r)
<1> USE DEF Links, TypeOK, Rec
<1>1. ASSUME NEW b \in Browsers, NEW q \in Requests, BrowserStep(b, q) PROVE FALSE
  <2>1. ASSUME NEW pc \in {"find", "issueRoot", "logoutFind", "deleteAll"},
               NEW u \in Users \cup {NONE}, Send(b, q, pc, u)
        PROVE  FALSE
    BY <2>1 DEF Send, Idle
  <2>2. ~Abandon(b, q)
    BY DEF Abandon
  <2>3. ~(req' = [req EXCEPT ![q] = Idle])
    BY DEF Idle
  <2>4. ~Deliver(b, q)
    BY <2>3 DEF Deliver
  <2> QED BY <1>1, <2>1, <2>2, <2>4 DEF BrowserStep, SendRefresh, SendLogout, SendSignIn,
                                  SendPassword
<1>2. ASSUME NEW q \in Requests, ServerStep(q), ~(RefreshFind(q) \/ AccountBarred(q))
      PROVE  FALSE
  <2>1. ~AccountOk(q) /\ ~AccountUnavailable(q)
    BY DEF AccountOk, AccountUnavailable, Goto
  <2> DEFINE Answer(pc, t) == req' = [req EXCEPT ![q] = [@ EXCEPT !.pc = pc, !.new = t]]
  <2>2. ASSUME NEW pc \in {"retire", "cookie"}, NEW t \in Tokens, Answer(pc, t) PROVE FALSE
    <3>1. q # r => req'[r] = req[r]
      BY <2>2
    <3>2. req'[q].pc = pc
      BY <2>2
    <3> QED BY <3>1, <3>2
  <2>3. ~IssueChild(q) /\ ~IssueRoot(q)
    BY <2>2 DEF IssueChild, IssueRoot
  <2>4. ~RetireAncestors(q) /\ ~LogoutDelete(q) /\ ~DeleteAllForUser(q)
    BY DEF RetireAncestors, LogoutDelete, DeleteAllForUser, Goto
  <2>5. ~LogoutFind(q) /\ ~LogoutChain(q)
    BY DEF LogoutFind, LogoutChain, Goto
  <2>6. ~Fail(q) /\ ~Drop(q)
    BY DEF Fail, Drop, Goto, Idle
  <2> QED BY <1>2, <2>1, <2>2, <2>3, <2>4, <2>5, <2>6 DEF ServerStep
<1>3. ASSUME NEW q \in Requests, RefreshFind(q) \/ AccountBarred(q), q # r PROVE FALSE
  BY <1>3 DEF RefreshFind, AccountBarred, Goto, Links, TypeOK, Rec
<1>4. Environment \/ UNCHANGED vars => FALSE
  BY DEF Environment, Lapse, BarAccount, ReinstateAccount, vars
<1> QED BY <1>1, <1>2, <1>3, <1>4 DEF Next

\* UnauthorizedMeansDead: a 401, which clears the cookie, is given only for a
\* token that was ended, that lapsed, or whose account is barred.
THEOREM RefusedOnlyWhenDead == ~ConcurrentTabs => (Spec => UnauthorizedMeansDead)
<1> SUFFICES ASSUME ~ConcurrentTabs PROVE Spec => UnauthorizedMeansDead
  OBVIOUS
<1> DEFINE Dead(t) == root[t] \in Ended \/ t \in lapsed \/ owner[t] \in barred
           Excused(r) ==
             LET t == req[r].token IN
             req'[r].pc = "unauthorized" /\ req[r].pc # "unauthorized"
               /\ req[r].by # NONE /\ t # NONE
             => root[t] \in Ended \/ t \in lapsed \/ owner[t] \in barred
<1>1. ASSUME Links, RotationInv, [Next]_vars, NEW r \in Requests PROVE Excused(r)
  <2> SUFFICES ASSUME req'[r].pc = "unauthorized", req[r].pc # "unauthorized",
                      req[r].by # NONE, req[r].token # NONE
               PROVE  Dead(req[r].token)
    OBVIOUS
  <2>1. RefreshFind(r) \/ AccountBarred(r)
    BY <1>1, RefusedStep
  <2>2. CASE RefreshFind(r)
    <3>1. ~Usable(req[r].token)
      BY <1>1, <2>2 DEF RefreshFind, Links, TypeOK, Rec
    <3>2. req[r].by \in Browsers /\ req[r].token = jar[req[r].by]
      BY <1>1 DEF Links, TypeOK, Rec, RotationInv, OneRequest
    <3> QED BY <1>1, <3>1, <3>2 DEF Usable, RotationInv, CookieUsable
  <2>3. CASE AccountBarred(r)
    BY <1>1, <2>3 DEF AccountBarred, Links, LineageInv, RequestLinks
  <2> QED BY <2>1, <2>2, <2>3
<1>2. Links /\ RotationInv /\ [Next]_vars => [\A r \in Requests : Excused(r)]_vars
  BY <1>1
<1>3. Spec => [](Links /\ RotationInv)
  <2>1. Init => Links /\ RotationInv
    BY InitLinks, InitRotation
  <2>2. Links /\ RotationInv /\ [Next]_vars => (Links /\ RotationInv)'
    BY NextLinks, NextRotation
  <2> QED BY <2>1, <2>2, PTL DEF Spec
<1>4. Spec => [][\A r \in Requests : Excused(r)]_vars
  BY <1>2, <1>3, PTL DEF Spec
<1> QED BY <1>4 DEF UnauthorizedMeansDead

\* RotatedStaysUsable: a rotated token goes only after one of its replacements
\* reached a browser.
THEOREM RotatedToken == ~ConcurrentTabs => (Spec => RotatedStaysUsable)
<1> SUFFICES ASSUME ~ConcurrentTabs PROVE Spec => RotatedStaysUsable
  OBVIOUS
<1> DEFINE Kept(p) == (\E c \in issued : parent[c] = p) /\ root[p] \notin Ended'
                      => \E c \in held : parent[c] = p
<1>1. ASSUME Links, RotationInv, [Next]_vars, NEW p \in rows \ rows' PROVE Kept(p)
  <2> SUFFICES ASSUME NEW d \in issued, parent[d] = p, root[p] \notin Ended'
               PROVE  \E c \in held : parent[c] = p
    OBVIOUS
  <2>1. PICK r \in Requests : RetireAncestors(r) \/ LogoutDelete(r) \/ DeleteAllForUser(r)
    BY <1>1, RemovalStep
  <2>2. CASE RetireAncestors(r)
    <3>1. p \in Ancestors(req[r].token) /\ req[r].token \in held
      BY <1>1, <2>2 DEF RetireAncestors, Links, LineageInv, RequestLinks
    <3>2. p \in held
      BY <1>1 DEF Links, TypeOK, LineageInv, TokenLinks
    <3> QED BY <1>1, <3>1, <3>2 DEF Ancestors, RotationInv, OneHeir
  <2>3. CASE LogoutDelete(r) \/ DeleteAllForUser(r)
    <3>1. root[p] \in Ended'
      BY <1>1, <2>3 DEF LogoutDelete, DeleteAllForUser, OwnedRows, Ended, Links, TypeOK
    <3> QED BY <3>1
  <2> QED BY <2>1, <2>2, <2>3
<1>2. Links /\ RotationInv /\ [Next]_vars => [\A p \in rows \ rows' : Kept(p)]_vars
  BY <1>1
<1>3. Spec => [](Links /\ RotationInv)
  <2>1. Init => Links /\ RotationInv
    BY InitLinks, InitRotation
  <2>2. Links /\ RotationInv /\ [Next]_vars => (Links /\ RotationInv)'
    BY NextLinks, NextRotation
  <2> QED BY <2>1, <2>2, PTL DEF Spec
<1>4. Spec => [][\A p \in rows \ rows' : Kept(p)]_vars
  BY <1>2, <1>3, PTL DEF Spec
<1> QED BY <1>4 DEF RotatedStaysUsable

=============================================================================
