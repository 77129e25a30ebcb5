---------------------------- MODULE RefreshTokens ----------------------------
(***************************************************************************)
(* Rotating refresh tokens: auth.service.ts and                            *)
(* refresh-tokens.repository.ts, with the httpOnly cookie that             *)
(* auth.controller.ts sets and clears.                                     *)
(*                                                                         *)
(* A token row is identified by its id; its hash determines the id, so a   *)
(* cookie holds the id.  `refresh` issues a CHILD of the presented token   *)
(* and deletes the token's parent and siblings, never the token itself.    *)
(*                                                                         *)
(* Every await of a handler is a step of its own, so the steps of several  *)
(* requests, of one browser or of several, interleave freely.  A browser   *)
(* may give up on a request at any moment (tab closed, network gone): the  *)
(* server still finishes it, and its answer reaches nobody.                *)
(***************************************************************************)
EXTENDS FiniteSets, Naturals

CONSTANTS
    Users,           \* accounts
    Browsers,        \* cookie jars (devices)
    Requests,        \* server-side slots for requests in progress
    Tokens,          \* ids of refresh-token rows: the bound on rows ever created
    Legacy,          \* rows soft-revoked by an earlier version of the code
    Operations,      \* what browsers ask for: bounds the mix of requests of an instance
    MaxOutages,      \* bound on lapsed rows and barred accounts together
    ConcurrentTabs,  \* TRUE: a browser may have several auth requests in flight
    NONE             \* null

ASSUME LegacyAssumption == Legacy \subseteq Tokens
ASSUME OperationsAssumption ==
    Operations \subseteq {"find", "issueRoot", "logoutFind", "deleteAll"}
ASSUME TabsAssumption == ConcurrentTabs \in BOOLEAN /\ MaxOutages \in Nat
ASSUME NoneAssumption == NONE \notin Users \cup Browsers \cup Requests \cup Tokens

VARIABLES
    issued,     \* ids ever created
    rows,       \* ids whose row is in refresh_tokens
    owner,      \* user_id of a row
    parent,     \* parent_id of a row, NONE for a token issued by a login
    lapsed,     \* past expires_at, or soft-revoked longer ago than the grace
    barred,     \* accounts missing from Supabase or not approved
    jar,        \* the cf_rt cookie of each browser
    req,        \* the request in each slot
    root,       \* history: the login token a token descends from
    held,       \* history: tokens that reached a cookie jar
    loggedOut,  \* history: roots whose logout has deleted rows
    reset       \* history: roots that existed when deleteAllForUser ran

tokenVars == <<issued, owner, parent, root>>
historyVars == <<held, loggedOut, reset>>
vars == <<issued, rows, owner, parent, lapsed, barred, jar, req, root, held,
          loggedOut, reset>>

Answers == {"cookie", "unauthorized", "loggedOut", "other"}
Pcs == {"idle", "find", "account", "issueChild", "retire", "issueRoot",
        "logoutFind", "logoutChain", "deleteChain", "deleteToken", "deleteAll"}
       \cup Answers

LogoutPcs == {"logoutFind", "logoutChain", "deleteChain", "deleteToken"}

Idle == [pc |-> "idle", by |-> NONE, token |-> NONE, user |-> NONE,
         new |-> NONE]

-----------------------------------------------------------------------------
(* Row sets the repository's queries select.                               *)

\* findUsableByHash: present, unexpired and not revoked before the grace.
Usable(t) == t \in rows /\ t \notin lapsed

\* Variant: rotation that revokes the presented token at once.
PresentedToken(t) == rows \cap {t}

\* retireAncestors: the parent and the other children of the parent.
Ancestors(t) ==
    IF parent[t] = NONE THEN {}
    ELSE {s \in rows : s = parent[t] \/ (parent[s] = parent[t] /\ s # t)}

\* The `chain` of deleteForLogout: children, parent and siblings of the token.
Chain(t) ==
    {s \in rows : \/ parent[s] = t
                  \/ parent[t] # NONE /\ (s = parent[t] \/ parent[s] = parent[t])}

\* Variant: the delete of the soft-revoked rows without its user filter.
LogoutRowsOfAnyUser(q) ==
    {s \in rows : \/ s = q.token
                  \/ s \in Legacy
                  \/ q.pc = "deleteChain" /\ s \in Chain(q.token)}

\* deleteForLogout: the token, the user's soft-revoked rows and the chain
\* when the token was still there to be looked up.
LogoutRows(q) ==
    {s \in rows : /\ owner[s] = q.user
                  /\ \/ s = q.token
                     \/ s \in Legacy
                     \/ q.pc = "deleteChain" /\ s \in Chain(q.token)}

OwnedRows(u) == {s \in rows : owner[s] = u}

-----------------------------------------------------------------------------
Init ==
    /\ issued = Legacy
    /\ rows = Legacy
    /\ owner \in {f \in [Tokens -> Users \cup {NONE}] :
                    \A t \in Tokens : f[t] = NONE <=> t \notin Legacy}
    /\ parent = [t \in Tokens |-> NONE]
    /\ lapsed = {}
    /\ barred = {}
    /\ jar \in {f \in [Browsers -> Legacy \cup {NONE}] :
                  \A a, b \in Browsers : f[a] = f[b] /\ f[a] # NONE => a = b}
    /\ req = [r \in Requests |-> Idle]
    /\ root = [t \in Tokens |-> IF t \in Legacy THEN t ELSE NONE]
    /\ held = Legacy
    /\ loggedOut = {}
    /\ reset = {}

-----------------------------------------------------------------------------
(* Browser side.                                                           *)

Waiting(b) == {r \in Requests : req[r].by = b}
MaySend(b) == ConcurrentTabs \/ Waiting(b) = {}

\* A request enters the server; the cookie travels with every auth request.
Send(b, r, pc, u) ==
    /\ pc \in Operations
    /\ req[r].pc = "idle"
    /\ MaySend(b)
    /\ req' = [req EXCEPT ![r] = [Idle EXCEPT !.pc = pc, !.by = b,
                                              !.token = jar[b], !.user = u]]
    /\ UNCHANGED <<tokenVars, rows, lapsed, barred, jar, historyVars>>

SendRefresh(b, r) == Send(b, r, "find", NONE)

\* Only a request with a token does any work in the logout handler.
SendLogout(b, r) == jar[b] # NONE /\ Send(b, r, "logoutFind", NONE)

\* Password or Google sign-in accepted by Supabase and the approval gate, or
\* GET session?issue_refresh=1 with a valid access token: both issue a root.
SendSignIn(b, r, u) == u \notin barred /\ Send(b, r, "issueRoot", u)

\* update-password, once Supabase has taken the new password.  Its access
\* token belongs to a user who signed in before.
SendPassword(b, r, u) ==
    /\ \E t \in held : owner[t] = u
    /\ Send(b, r, "deleteAll", u)

\* The browser gives up on a request; whatever the server answers is dropped.
Abandon(b, r) ==
    /\ req[r].by = b
    /\ req' = [req EXCEPT ![r].by = NONE]
    /\ UNCHANGED <<tokenVars, rows, lapsed, barred, jar, historyVars>>

\* The answer arrives: Set-Cookie stores the new token or clears the cookie.
Deliver(b, r) ==
    /\ req[r].by = b
    /\ req[r].pc \in Answers
    /\ jar' = [jar EXCEPT ![b] =
                 CASE req[r].pc = "cookie" -> req[r].new
                   [] req[r].pc \in {"unauthorized", "loggedOut"} -> NONE
                   [] OTHER -> @]
    /\ held' = IF req[r].pc = "cookie" THEN held \cup {req[r].new} ELSE held
    /\ req' = [req EXCEPT ![r] = Idle]
    /\ UNCHANGED <<tokenVars, rows, lapsed, barred, loggedOut, reset>>

\* An answer nobody waits for.
Drop(r) ==
    /\ req[r].by = NONE
    /\ req[r].pc \in Answers
    /\ req' = [req EXCEPT ![r] = Idle]
    /\ UNCHANGED <<tokenVars, rows, lapsed, barred, jar, historyVars>>

-----------------------------------------------------------------------------
(* refresh                                                                 *)

Goto(r, pc) == req' = [req EXCEPT ![r].pc = pc]

\* No cookie, unknown, retired or lapsed token: 401, which clears the cookie.
RefreshFind(r) ==
    /\ req[r].pc = "find"
    /\ LET t == req[r].token IN
       IF t # NONE /\ Usable(t)
       THEN req' = [req EXCEPT ![r].pc = "account", ![r].user = owner[t]]
       ELSE Goto(r, "unauthorized")
    /\ UNCHANGED <<tokenVars, rows, lapsed, barred, jar, historyVars>>

\* Supabase getUserById and the approval gate on the profile.
AccountOk(r) ==
    /\ req[r].pc = "account"
    /\ req[r].user \notin barred
    /\ Goto(r, "issueChild")
    /\ UNCHANGED <<tokenVars, rows, lapsed, barred, jar, historyVars>>

\* Deleted account, or profile pending or rejected: 401.
AccountBarred(r) ==
    /\ req[r].pc = "account"
    /\ req[r].user \in barred
    /\ Goto(r, "unauthorized")
    /\ UNCHANGED <<tokenVars, rows, lapsed, barred, jar, historyVars>>

\* Variant: every error of Supabase is a 401.
AccountUnavailableAs401(r) ==
    /\ req[r].pc = "account"
    /\ Goto(r, "unauthorized")
    /\ UNCHANGED <<tokenVars, rows, lapsed, barred, jar, historyVars>>

\* Supabase cannot be reached: 503, the cookie stays.
AccountUnavailable(r) ==
    /\ req[r].pc = "account"
    /\ Goto(r, "other")
    /\ UNCHANGED <<tokenVars, rows, lapsed, barred, jar, historyVars>>

\* Variant: user and parent swapped in the create call.
CreateSwapped(t, u, p) ==
    /\ issued' = issued \cup {t}
    /\ rows' = rows \cup {t}
    /\ owner' = [owner EXCEPT ![t] = p]
    /\ parent' = [parent EXCEPT ![t] = u]
    /\ root' = [root EXCEPT ![t] = IF p = NONE THEN t ELSE root[p]]

\* issueRefreshToken: a fresh row owned by u.
Create(t, u, p) ==
    /\ issued' = issued \cup {t}
    /\ rows' = rows \cup {t}
    /\ owner' = [owner EXCEPT ![t] = u]
    /\ parent' = [parent EXCEPT ![t] = p]
    /\ root' = [root EXCEPT ![t] = IF p = NONE THEN t ELSE root[p]]

IssueChild(r) ==
    /\ req[r].pc = "issueChild"
    /\ \E t \in Tokens \ issued :
         /\ Create(t, req[r].user, req[r].token)
         /\ req' = [req EXCEPT ![r] = [@ EXCEPT !.pc = "retire", !.new = t]]
    /\ UNCHANGED <<lapsed, barred, jar, historyVars>>

RetireAncestors(r) ==
    /\ req[r].pc = "retire"
    /\ rows' = rows \ Ancestors(req[r].token)
    /\ Goto(r, "cookie")
    /\ UNCHANGED <<tokenVars, lapsed, barred, jar, historyVars>>

-----------------------------------------------------------------------------
(* login, Google callback, session: a token without a parent.              *)

IssueRoot(r) ==
    /\ req[r].pc = "issueRoot"
    /\ \E t \in Tokens \ issued :
         /\ Create(t, req[r].user, NONE)
         /\ req' = [req EXCEPT ![r] = [@ EXCEPT !.pc = "cookie", !.new = t]]
    /\ UNCHANGED <<lapsed, barred, jar, historyVars>>

-----------------------------------------------------------------------------
(* logout: look the token up, look it up again for its chain, delete.      *)

LogoutFind(r) ==
    /\ req[r].pc = "logoutFind"
    /\ LET t == req[r].token IN
       IF t \in rows
       THEN req' = [req EXCEPT ![r].pc = "logoutChain", ![r].user = owner[t]]
       ELSE Goto(r, "loggedOut")
    /\ UNCHANGED <<tokenVars, rows, lapsed, barred, jar, historyVars>>

LogoutChain(r) ==
    /\ req[r].pc = "logoutChain"
    /\ Goto(r, IF req[r].token \in rows THEN "deleteChain" ELSE "deleteToken")
    /\ UNCHANGED <<tokenVars, rows, lapsed, barred, jar, historyVars>>

LogoutDelete(r) ==
    /\ req[r].pc \in {"deleteChain", "deleteToken"}
    /\ rows' = rows \ LogoutRows(req[r])
    /\ loggedOut' = loggedOut \cup {root[s] : s \in LogoutRows(req[r])}
                              \cup {root[req[r].token]}
    /\ Goto(r, "loggedOut")
    /\ UNCHANGED <<tokenVars, lapsed, barred, jar, held, reset>>

-----------------------------------------------------------------------------
(* update-password: every row of the user.                                 *)

DeleteAllForUser(r) ==
    /\ req[r].pc = "deleteAll"
    /\ rows' = rows \ OwnedRows(req[r].user)
    /\ reset' = reset \cup {root[s] : s \in {t \in issued : owner[t] = req[r].user}}
    /\ Goto(r, "other")
    /\ UNCHANGED <<tokenVars, lapsed, barred, jar, held, loggedOut>>

-----------------------------------------------------------------------------
(* A database error or a restart of the server ends a request between any  *)
(* two awaits.  The logout handler has put Clear-Cookie on the response    *)
(* before its first await, so its error answer clears the cookie too.      *)

Fail(r) ==
    /\ req[r].pc \notin Answers \cup {"idle"}
    /\ Goto(r, IF req[r].pc \in LogoutPcs
               THEN "loggedOut" ELSE "other")
    /\ UNCHANGED <<tokenVars, rows, lapsed, barred, jar, historyVars>>

(* Time and administrators.                                                *)

MayWorsen == Cardinality(lapsed) + Cardinality(barred) < MaxOutages

Lapse(t) ==
    /\ t \in rows \ lapsed
    /\ MayWorsen
    /\ lapsed' = lapsed \cup {t}
    /\ UNCHANGED <<tokenVars, rows, barred, jar, req, historyVars>>

BarAccount(u) ==
    /\ u \notin barred
    /\ MayWorsen
    /\ barred' = barred \cup {u}
    /\ UNCHANGED <<tokenVars, rows, lapsed, jar, req, historyVars>>

ReinstateAccount(u) ==
    /\ u \in barred
    /\ barred' = barred \ {u}
    /\ UNCHANGED <<tokenVars, rows, lapsed, jar, req, historyVars>>

-----------------------------------------------------------------------------
BrowserStep(b, r) ==
    \/ SendRefresh(b, r)
    \/ SendLogout(b, r)
    \/ \E u \in Users : SendSignIn(b, r, u) \/ SendPassword(b, r, u)
    \/ Abandon(b, r)
    \/ Deliver(b, r)

ServerStep(r) ==
    \/ RefreshFind(r)
    \/ AccountOk(r)
    \/ AccountBarred(r)
    \/ AccountUnavailable(r)
    \/ IssueChild(r)
    \/ RetireAncestors(r)
    \/ IssueRoot(r)
    \/ LogoutFind(r)
    \/ LogoutChain(r)
    \/ LogoutDelete(r)
    \/ DeleteAllForUser(r)
    \/ Fail(r)
    \/ Drop(r)

Environment ==
    \/ \E t \in Tokens : Lapse(t)
    \/ \E u \in Users : BarAccount(u) \/ ReinstateAccount(u)

Next ==
    \/ \E b \in Browsers, r \in Requests : BrowserStep(b, r)
    \/ \E r \in Requests : ServerStep(r)
    \/ Environment

Spec == Init /\ [][Next]_vars

-----------------------------------------------------------------------------
(* Properties.                                                             *)

Rec == [pc : Pcs, by : Browsers \cup {NONE}, token : Tokens \cup {NONE},
        user : Users \cup {NONE}, new : Tokens \cup {NONE}]

\* Types of the table, the cookies and the requests.
TypeOK ==
    /\ issued \subseteq Tokens
    /\ rows \subseteq issued
    /\ owner \in [Tokens -> Users \cup {NONE}]
    /\ parent \in [Tokens -> Tokens \cup {NONE}]
    /\ root \in [Tokens -> Tokens \cup {NONE}]
    /\ lapsed \subseteq Tokens
    /\ barred \subseteq Users
    /\ jar \in [Browsers -> Tokens \cup {NONE}]
    /\ req \in [Requests -> Rec]
    /\ held \subseteq issued
    /\ loggedOut \subseteq Tokens \cup {NONE}
    /\ reset \subseteq Tokens \cup {NONE}

\* Lineages ended on purpose: by a logout or by a password change.
Ended == loggedOut \cup reset

\* Rotation never logs a device out: the row behind the cookie a browser holds
\* is still in the table unless its lineage was ended on purpose, whatever
\* answers were lost and wherever the server stopped between creating the
\* replacement and retiring the ancestors (auth.service.ts refresh).
CookieUsable ==
    \A b \in Browsers :
        jar[b] # NONE /\ root[jar[b]] \notin Ended => jar[b] \in rows

\* A refresh is refused with 401, which clears the cookie, only for a token
\* whose lineage was ended, which lapsed, or whose account is barred: a
\* failure of the server or of Supabase never logs anybody out.
UnauthorizedMeansDead ==
    [][\A r \in Requests :
         LET t == req[r].token IN
         req'[r].pc = "unauthorized" /\ req[r].pc # "unauthorized"
           /\ req[r].by # NONE /\ t # NONE
         => root[t] \in Ended \/ t \in lapsed \/ owner[t] \in barred]_vars

\* A token that was rotated stays in the table until one of its replacements
\* has reached a browser, or its lineage is ended on purpose
\* (refresh-tokens-parent-migration.sql, retireAncestors).
RotatedStaysUsable ==
    [][\A p \in rows \ rows' :
         (\E c \in issued : parent[c] = p) /\ root[p] \notin Ended'
         => \E c \in held : parent[c] = p]_vars

\* Retiring ancestors and logging out remove rows of the presented token's
\* own lineage only (one device), and on logout the user's soft-revoked rows;
\* a password change removes rows of that user only.
OneDeviceOnly ==
    [][\A s \in rows \ rows' : \E r \in Requests :
         \/ /\ req[r].pc \in {"retire", "deleteChain", "deleteToken"}
            /\ root[s] = root[req[r].token]
         \/ /\ req[r].pc \in {"deleteChain", "deleteToken"}
            /\ s \in Legacy
            /\ owner[s] = owner[req[r].token]
         \/ /\ req[r].pc = "deleteAll"
            /\ owner[s] = req[r].user]_vars

-----------------------------------------------------------------------------
(* The inductive strengthening of the properties above.                    *)

\* A row that was never created has no links; a child belongs to the lineage
\* and the account of its parent, and its parent had reached a browser.
TokenLinks ==
    /\ \A t \in Tokens \ issued : parent[t] = NONE
    /\ \A t \in issued :
         /\ owner[t] \in Users
         /\ root[t] \in issued
         /\ parent[t] # NONE => /\ parent[t] \in held
                               /\ root[t] = root[parent[t]]
                               /\ owner[t] = owner[parent[t]]

\* What a request knows of the token it presented.
RequestLinks ==
    \A r \in Requests :
        /\ req[r].token # NONE => req[r].token \in held
        /\ req[r].pc \in {"account", "issueChild", "retire"} \cup LogoutPcs => req[r].token # NONE
        /\ req[r].pc \in {"account", "issueChild", "retire", "logoutChain",
                           "deleteChain", "deleteToken"} => req[r].user = owner[req[r].token]
        /\ req[r].pc \in {"issueRoot", "deleteAll"} => req[r].user \in Users

\* A token issued and not yet delivered: unknown to every browser, and a child
\* of the presented token or a login token.
PendingLinks ==
    /\ \A r \in Requests :
        /\ req[r].pc \in {"retire", "cookie"} =>
              /\ req[r].new \in issued \ held
              /\ parent[req[r].new] \in {NONE, req[r].token}
    /\ \A r, q \in Requests :
        req[r].pc \in {"retire", "cookie"} /\ req[q].pc \in {"retire", "cookie"}
          /\ req[r].new = req[q].new => r = q

\* A cookie was delivered.
JarLinks == \A b \in Browsers : jar[b] # NONE => jar[b] \in held

LineageInv == TokenLinks /\ RequestLinks /\ PendingLinks /\ JarLinks

\* With one request per browser at a time the presented token is the cookie.
OneRequest ==
    /\ \A r, q \in Requests : req[r].by = req[q].by /\ req[r].by # NONE => r = q
    /\ \A r \in Requests : req[r].by # NONE => req[r].token = jar[req[r].by]
    /\ \A a, b \in Browsers : jar[a] = jar[b] /\ jar[a] # NONE => a = b

\* A lineage is a line of delivered tokens that ends in the cookie.
OneHeir ==
    /\ \A s, t \in held : parent[s] = parent[t] /\ parent[s] # NONE => s = t
    /\ \A s \in held, b \in Browsers : jar[b] # NONE => parent[s] # jar[b]

\* The replacement a browser is waiting for has not been retired.
PendingUsable ==
    \A r \in Requests :
        req[r].by # NONE /\ req[r].pc \in {"retire", "cookie"}
          /\ root[req[r].new] \notin Ended => req[r].new \in rows

\* What keeps rotation from logging a device out, when its requests take turns.
RotationInv == OneRequest /\ OneHeir /\ PendingUsable /\ CookieUsable

=============================================================================
