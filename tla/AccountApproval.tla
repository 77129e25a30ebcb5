---------------------------- MODULE AccountApproval ----------------------------
(***************************************************************************)
(* One e-mail address on its way to an account: registration, password     *)
(* login and Google sign-in (auth.service.ts, google-oauth.service.ts),    *)
(* the administrator who approves it, and what is done with the account's  *)
(* access tokens: REST requests (jwt.strategy.ts) and the sockets of watch *)
(* parties (watch-party.gateway.ts), which look at the signature only.     *)
(*                                                                         *)
(* Users live in Supabase, profiles in the database.  A trigger of the     *)
(* database, which is not in the repository, may insert an approved        *)
(* profile together with the user.  Every action is one await of a         *)
(* handler; a handler may fail at each of them.  Refresh tokens are the    *)
(* subject of RefreshTokens.                                               *)
(***************************************************************************)
EXTENDS Naturals

CONSTANTS
    SignIns,        \* requests in progress
    OAuthStates     \* values of the state parameter handed out

VARIABLES
    user,           \* Supabase knows the address
    status,         \* of its profile, or "none" without one
    oauth,          \* the map of states: "unknown", "live", "expired", "gone"
    signIn,         \* requests: where they are and what they have read
    token,          \* someone holds an access token of the account
    socket,         \* a socket of the account is connected
    served,         \* what the last step served: "nobody", a "request", the "socket"
    held,           \* history: pending was answered, and nobody approved since
    exchanges       \* history: sign-ins that went on with each state

approvalVars == <<user, status, oauth, signIn, token, socket, served, held, exchanges>>

NoSignIn == [pc |-> "idle", by |-> "login", new |-> FALSE]
SignInPcs == {"idle", "find", "create", "again", "profile", "rename", "insert", "reread",
              "force", "check", "exchange", "issue"}
Statuses == {"approved", "pending", "rejected"}

\* assertAccountApproved; a missing profile is one from before the approval gate.
Approved(s) == s \in {"none", "approved"}

ApprovalInit ==
    /\ user \in BOOLEAN
    /\ status \in {"none", "approved"} /\ (status = "approved" => user)
    /\ oauth = [s \in OAuthStates |-> "unknown"]
    /\ signIn = [r \in SignIns |-> NoSignIn]
    /\ token = FALSE
    /\ socket = FALSE
    /\ served = "nobody"
    /\ held = FALSE
    /\ exchanges = [s \in OAuthStates |-> 0]

accountVars == <<user, status, held>>
sessionVars == <<token, socket>>
stateVars == <<oauth, exchanges>>

At(r, pc) == signIn[r].pc = pc
Done(r) == signIn' = [signIn EXCEPT ![r] = NoSignIn]
Step(r, pc) == IF pc = "idle" THEN Done(r) ELSE signIn' = [signIn EXCEPT ![r].pc = pc]

-----------------------------------------------------------------------------
(* Entering.                                                               *)

Register(r) ==
    /\ At(r, "idle")
    /\ signIn' = [signIn EXCEPT ![r] = [NoSignIn EXCEPT !.pc = "find", !.by = "register"]]
    /\ served' = "nobody"
    /\ UNCHANGED <<accountVars, sessionVars, stateVars>>

\* signInWithPassword needs a user; a wrong password changes nothing.
Login(r) ==
    /\ At(r, "idle")
    /\ user
    /\ Step(r, "check")
    /\ served' = "nobody"
    /\ UNCHANGED <<accountVars, sessionVars, stateVars>>

\* buildAuthorizationUrl, with cleanupStates.
GoogleStart(s) ==
    /\ oauth[s] = "unknown"
    /\ oauth' = [t \in OAuthStates |->
                    IF t = s THEN "live" ELSE IF oauth[t] = "expired" THEN "gone" ELSE oauth[t]]
    /\ served' = "nobody"
    /\ UNCHANGED <<accountVars, sessionVars, signIn, exchanges>>

\* Variant: the state is looked up but not taken out of the map.
LeaveState(s) == UNCHANGED oauth

TakeState(s) == oauth' = [oauth EXCEPT ![s] = IF @ = "unknown" THEN @ ELSE "gone"]

\* The callback takes the state out before its first await.
GoogleCallback(r, s) ==
    /\ At(r, "idle")
    /\ TakeState(s)
    /\ IF oauth[s] = "live"
       THEN /\ signIn' = [signIn EXCEPT ![r] = [NoSignIn EXCEPT !.pc = "exchange", !.by = "google"]]
            /\ exchanges' = [exchanges EXCEPT ![s] = @ + 1]
       ELSE UNCHANGED <<signIn, exchanges>>
    /\ served' = "nobody"
    /\ UNCHANGED <<accountVars, sessionVars>>

Exchange(r) == At(r, "exchange") /\ Step(r, "find") /\ UNCHANGED <<accountVars, sessionVars, stateVars>>

-----------------------------------------------------------------------------
(* The user and the profile.                                               *)

FindUser(r) ==
    /\ At(r, "find")
    /\ CASE ~user -> Step(r, "create")
         [] user /\ signIn[r].by = "google" -> Step(r, "profile")
         [] OTHER -> Done(r)
    /\ UNCHANGED <<accountVars, sessionVars, stateVars>>

\* createUser fails when another request made the user meanwhile.
CreateUser(r) ==
    /\ At(r, "create")
    /\ IF ~user
       THEN /\ user' = TRUE
            /\ status' \in {status, "approved"}
            /\ signIn' = [signIn EXCEPT ![r].pc = "profile", ![r].new = TRUE]
       ELSE /\ IF signIn[r].by = "google" THEN Step(r, "again") ELSE Done(r)
            /\ UNCHANGED <<user, status>>
    /\ UNCHANGED <<held, sessionVars, stateVars>>

FindAgain(r) ==
    /\ At(r, "again")
    /\ IF user THEN Step(r, "profile") ELSE Done(r)
    /\ UNCHANGED <<accountVars, sessionVars, stateVars>>

\* Variant: the status asked of ensureProfile is taken for granted.
AfterEnsureTrusting(r, s) ==
    IF signIn[r].by = "google" /\ Approved(s) THEN "issue" ELSE "idle"

\* What follows ensureProfile, which returned a profile with status s.
AfterEnsure(r, s) ==
    IF signIn[r].by = "register" \/ (signIn[r].new /\ s # "pending")
    THEN "force"
    ELSE IF Approved(s) THEN "issue" ELSE "idle"

\* A handler that ends here answers that the account waits for approval, or
\* that it is rejected.
Ensured(r, s) ==
    /\ Step(r, AfterEnsure(r, s))
    /\ held' = (held \/ /\ AfterEnsure(r, s) = "idle"
                        /\ signIn[r].by = "register" \/ s = "pending")

\* ensureProfile: an existing profile is returned as it was read, or updated
\* when its name, address or picture changed.
FindProfile(r) ==
    /\ At(r, "profile")
    /\ \/ status = "none" /\ Step(r, "insert") /\ UNCHANGED held
       \/ status # "none" /\ Step(r, "rename") /\ UNCHANGED held
       \/ status # "none" /\ Ensured(r, status)
    /\ UNCHANGED <<user, status, sessionVars, stateVars>>

Rename(r) ==
    /\ At(r, "rename")
    /\ Ensured(r, status)
    /\ UNCHANGED <<user, status, sessionVars, stateVars>>

InsertProfile(r) ==
    /\ At(r, "insert")
    /\ LET s == IF signIn[r].new THEN "pending" ELSE "approved" IN
       IF status = "none"
       THEN /\ status' = s
            /\ Ensured(r, s)
       ELSE Step(r, "reread") /\ UNCHANGED <<status, held>>
    /\ UNCHANGED <<user, sessionVars, stateVars>>

Reread(r) ==
    /\ At(r, "reread")
    /\ Ensured(r, status)
    /\ UNCHANGED <<user, status, sessionVars, stateVars>>

\* The account just created is made to wait, whatever the trigger inserted.
ForcePending(r) ==
    /\ At(r, "force")
    /\ status' = "pending"
    /\ held' = TRUE
    /\ Done(r)
    /\ UNCHANGED <<user, sessionVars, stateVars>>

CheckLogin(r) ==
    /\ At(r, "check")
    /\ IF Approved(status) THEN Step(r, "issue") ELSE Done(r)
    /\ UNCHANGED <<accountVars, sessionVars, stateVars>>

Issue(r) ==
    /\ At(r, "issue")
    /\ token' = TRUE
    /\ Done(r)
    /\ UNCHANGED <<accountVars, socket, stateVars>>

HandlerFails(r) ==
    /\ ~At(r, "idle")
    /\ Done(r)
    /\ UNCHANGED <<accountVars, sessionVars, stateVars>>

-----------------------------------------------------------------------------
(* The rest of the world.                                                  *)

\* validate reads the profile on every REST request.
Admits == token /\ Approved(status)

UseToken ==
    /\ Admits
    /\ served' = "request"
    /\ UNCHANGED <<accountVars, sessionVars, stateVars, signIn>>

TokenExpires ==
    /\ token
    /\ token' = FALSE
    /\ served' = "nobody"
    /\ UNCHANGED <<accountVars, socket, stateVars, signIn>>

\* handleConnection verifies the signature and reads no profile; a socket outlives
\* its token.
SocketConnect ==
    /\ token
    /\ socket' = TRUE
    /\ served' = "nobody"
    /\ UNCHANGED <<accountVars, token, stateVars, signIn>>

\* join, broadcast, commands of playback, reactions: by the user of the socket.
SocketMessage ==
    /\ socket
    /\ served' = "socket"
    /\ UNCHANGED <<accountVars, sessionVars, stateVars, signIn>>

SocketCloses ==
    /\ socket
    /\ socket' = FALSE
    /\ served' = "nobody"
    /\ UNCHANGED <<accountVars, token, stateVars, signIn>>

\* updateUserStatus.
Decide(s) ==
    /\ status # "none"
    /\ s \in {"approved", "rejected"}
    /\ status' = s
    /\ held' = (held /\ s # "approved")
    /\ served' = "nobody"
    /\ UNCHANGED <<user, sessionVars, stateVars, signIn>>

StateExpires(s) ==
    /\ oauth[s] = "live"
    /\ oauth' = [oauth EXCEPT ![s] = "expired"]
    /\ served' = "nobody"
    /\ UNCHANGED <<accountVars, sessionVars, signIn, exchanges>>

\* The states are in the memory of the process; a socket to another one stays.
AuthRestart ==
    /\ oauth' = [s \in OAuthStates |-> IF oauth[s] = "unknown" THEN "unknown" ELSE "gone"]
    /\ signIn' = [r \in SignIns |-> NoSignIn]
    /\ socket' \in {socket, FALSE}
    /\ served' = "nobody"
    /\ UNCHANGED <<accountVars, token, exchanges>>

SignInStep(r) ==
    /\ \/ Exchange(r) \/ FindUser(r) \/ CreateUser(r) \/ FindAgain(r) \/ FindProfile(r)
       \/ Rename(r) \/ InsertProfile(r) \/ Reread(r) \/ ForcePending(r) \/ CheckLogin(r)
       \/ Issue(r) \/ HandlerFails(r)
    /\ served' = "nobody"

ApprovalNext ==
    \/ \E r \in SignIns : Register(r) \/ Login(r) \/ SignInStep(r)
    \/ \E r \in SignIns, s \in OAuthStates : GoogleCallback(r, s)
    \/ \E s \in OAuthStates : GoogleStart(s) \/ StateExpires(s)
    \/ \E s \in Statuses : Decide(s)
    \/ UseToken \/ TokenExpires
    \/ SocketConnect \/ SocketMessage \/ SocketCloses
    \/ AuthRestart

ApprovalSpec == ApprovalInit /\ [][ApprovalNext]_approvalVars

-----------------------------------------------------------------------------
(* Properties.                                                             *)

ApprovalTypeOK ==
    /\ user \in BOOLEAN /\ token \in BOOLEAN /\ socket \in BOOLEAN /\ held \in BOOLEAN
    /\ served \in {"nobody", "request", "socket"}
    /\ status \in Statuses \cup {"none"}
    /\ status # "none" => user
    /\ oauth \in [OAuthStates -> {"unknown", "live", "expired", "gone"}]
    /\ signIn \in [SignIns -> [pc : SignInPcs, by : {"login", "register", "google"},
                               new : BOOLEAN]]
    /\ exchanges \in [OAuthStates -> Nat]

\* Once a new account was made to wait for approval, no REST request is served on it
\* before an administrator approves it: not with a session that a login or a
\* second sign-in obtained between createUser and the update to pending, nor
\* with a profile somebody else inserted meanwhile.
HeldBack == served = "request" => ~held

\* What account-status.util.ts says of the approval gate: it is "shared by every way
\* of getting (or using) a session".
EveryUseIsGated == served # "nobody" => Approved(status)

\* A state handed out by buildAuthorizationUrl lets one sign-in through,
\* however many callbacks present it and whenever it expires.
OneSignInPerState == \A s \in OAuthStates : exchanges[s] <= 1
=============================================================================
