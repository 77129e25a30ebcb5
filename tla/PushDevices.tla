----------------------------- MODULE PushDevices -----------------------------
(***************************************************************************)
(* Web push subscriptions and the sending of pushes (push.service.ts,      *)
(* push-subscriptions.repository.ts).                                      *)
(*                                                                         *)
(* An endpoint is one browser; whoever subscribes with it holds it.  A     *)
(* send reads the subscriptions of its users once and works through them   *)
(* (the code takes eight at a time); meanwhile people subscribe, and       *)
(* browsers drop their endpoint for good.                                  *)
(***************************************************************************)
EXTENDS Naturals, FiniteSets

CONSTANTS
    People,
    Browsers,
    MaxSubscriptions,   \* bound on subscribe requests
    MaxSends            \* bound on sends

Nobody == "nobody"

ASSUME PushAssumption ==
    /\ {MaxSubscriptions, MaxSends} \subseteq Nat
    /\ Nobody \notin People

VARIABLES
    sub,        \* push_subscriptions: browser -> <<>> or <<[id, user]>>
    holder,     \* who subscribed with a browser last and has not unsubscribed
    gone,       \* endpoints the push service no longer knows
    sending,    \* subscriptions the send under way has still to use, or <<>>
    requested,  \* subscribe requests so far, which number the rows
    sends,
    handed,     \* history: browsers that changed hands since the send began
    misled      \* history: browsers that showed somebody else's push

pushVars == <<sub, holder, gone, sending, requested, sends, handed, misled>>

PushInit ==
    /\ sub = [b \in Browsers |-> <<>>]
    /\ holder = [b \in Browsers |-> Nobody]
    /\ gone = {}
    /\ sending = <<>>
    /\ requested = 0
    /\ sends = 0
    /\ handed = {}
    /\ misled = {}

\* Variant: the upsert leaves an existing row to its owner.
KeepOwner(b, u) == IF sub[b] # <<>> THEN sub[b][1] ELSE [id |-> requested + 1, user |-> u]

\* upsertForUser: an endpoint belongs to whoever subscribed with it last.
TakeOver(b, u) == [id |-> IF sub[b] # <<>> THEN sub[b][1].id ELSE requested + 1, user |-> u]

Subscribe(b, u) ==
    /\ requested < MaxSubscriptions /\ b \notin gone
    /\ requested' = requested + 1
    /\ sub' = [sub EXCEPT ![b] = <<TakeOver(b, u)>>]
    /\ holder' = [holder EXCEPT ![b] = u]
    /\ handed' = handed \cup {b}
    /\ UNCHANGED <<gone, sending, sends, misled>>

Unsubscribe(b, u) ==
    /\ holder[b] = u
    /\ sub' = IF sub[b] # <<>> /\ sub[b][1].user = u THEN [sub EXCEPT ![b] = <<>>] ELSE sub
    /\ holder' = [holder EXCEPT ![b] = Nobody]
    /\ handed' = handed \cup {b}
    /\ UNCHANGED <<gone, sending, requested, sends, misled>>

DropEndpoint(b) ==
    /\ sub[b] # <<>> /\ b \notin gone
    /\ gone' = gone \cup {b}
    /\ UNCHANGED <<sub, holder, sending, requested, sends, handed, misled>>

Target(b) == [browser |-> b, id |-> sub[b][1].id, user |-> sub[b][1].user]

SendToUsers(us) ==
    /\ sending = <<>> /\ sends < MaxSends
    /\ sends' = sends + 1
    /\ sending' = <<{Target(b) : b \in {x \in Browsers : sub[x] # <<>> /\ sub[x][1].user \in us}}>>
    /\ handed' = {}
    /\ UNCHANGED <<sub, holder, gone, requested, misled>>

Tried(t) == sending' = <<sending[1] \ {t}>>

Deliver(t) ==
    /\ t.browser \notin gone
    /\ misled' = IF holder[t.browser] # t.user /\ t.browser \notin handed
                 THEN misled \cup {t.browser} ELSE misled
    /\ Tried(t)
    /\ UNCHANGED <<sub, holder, gone, requested, sends, handed>>

\* The push service is out of reach or refuses for now: the failure is logged.
Undelivered(t) ==
    /\ Tried(t)
    /\ UNCHANGED <<sub, holder, gone, requested, sends, handed, misled>>

\* 404 or 410: the row read for this send is deleted, by its id.
Expired(t) ==
    /\ t.browser \in gone
    /\ sub' = [sub EXCEPT ![t.browser] = IF @ # <<>> /\ @[1].id = t.id THEN <<>> ELSE @]
    /\ Tried(t)
    /\ UNCHANGED <<holder, gone, requested, sends, handed, misled>>

SendOne == sending # <<>> /\ \E t \in sending[1] : Deliver(t) \/ Undelivered(t) \/ Expired(t)

FinishSend ==
    /\ sending = <<{}>>
    /\ sending' = <<>>
    /\ UNCHANGED <<sub, holder, gone, requested, sends, handed, misled>>

PushNext ==
    \/ \E b \in Browsers, u \in People : Subscribe(b, u) \/ Unsubscribe(b, u)
    \/ \E b \in Browsers : DropEndpoint(b)
    \/ \E us \in (SUBSET People) \ {{}} : SendToUsers(us)
    \/ SendOne \/ FinishSend

PushSpec == PushInit /\ [][PushNext]_pushVars

-----------------------------------------------------------------------------
(* Properties.                                                             *)

\* Types; rows have ids of their own.
PushTypeOK ==
    /\ \A b \in Browsers :
         sub[b] \in {<<>>} \cup {<<r>> : r \in [id : 1..MaxSubscriptions, user : People]}
    /\ \A b, c \in Browsers : sub[b] # <<>> /\ sub[c] # <<>> /\ sub[b][1].id = sub[c][1].id => b = c
    /\ holder \in [Browsers -> People \cup {Nobody}]
    /\ requested \in 0..MaxSubscriptions /\ sends \in 0..MaxSends

\* "A browser endpoint belongs to whoever subscribed with it last": nobody reads
\* another's pushes on a shared browser, but for a send that had begun; and a
\* failed or expired delivery never takes a working subscription away.
PushesReachTheirHolder ==
    /\ misled = {}
    /\ \A b \in Browsers : b \notin gone =>
         IF holder[b] = Nobody THEN sub[b] = <<>>
         ELSE sub[b] # <<>> /\ sub[b][1].user = holder[b]

=============================================================================
