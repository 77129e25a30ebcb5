------------------------------ MODULE JobsProofs ------------------------------
(* Proofs about the job that pushes new episodes, the devices pushes go to  *)
(* and the predicted releases, for any number of instances, slugs, browsers *)
(* and people and any days, and about the types of all background jobs.     *)
EXTENDS MCJobs, RemindersProofs, FiniteSetTheorems, SequenceTheorems, WellFoundedInduction, TLAPS

-----------------------------------------------------------------------------
(* Push subscriptions.                                                     *)

SubRows == [id : 1..MaxSubscriptions, user : People]
Targets == [browser : Browsers, id : 1..MaxSubscriptions, user : People]

\* Rows are numbered by the requests that inserted them.
RowsNumbered ==
    /\ sub \in [Browsers -> {<<>>} \cup {<<r>> : r \in SubRows}]
    /\ \A b \in Browsers : sub[b] # <<>> => sub[b][1].id <= requested
    /\ \A b, c \in Browsers : sub[b] # <<>> /\ sub[c] # <<>> /\ sub[b][1].id = sub[c][1].id => b = c

\* A row names the holder of its browser, and only a browser the push service has
\* forgotten can be held without one.
RowsNameHolder ==
    \A b \in Browsers :
        /\ sub[b] # <<>> => sub[b][1].user = holder[b]
        /\ b \notin gone /\ holder[b] # Nobody => sub[b] # <<>>

\* What a send read at its start still names the holder, unless the browser has
\* changed hands since.
SendKnowsHolder ==
    /\ sending \in {<<>>} \cup {<<ts>> : ts \in SUBSET Targets}
    /\ sending # <<>> =>
         \A t \in sending[1] : t.browser \notin handed => holder[t.browser] = t.user

PushInv ==
    /\ holder \in [Browsers -> People \cup {Nobody}]
    /\ requested \in 0..MaxSubscriptions /\ sends \in 0..MaxSends
    /\ misled = {}
    /\ RowsNumbered /\ RowsNameHolder /\ SendKnowsHolder

LEMMA PushInitInv == PushInit => PushInv
<1> SUFFICES ASSUME PushInit PROVE PushInv
  OBVIOUS
<1> USE DEF PushInit
<1>1. RowsNumbered /\ RowsNameHolder /\ SendKnowsHolder
  BY DEF RowsNumbered, RowsNameHolder, SendKnowsHolder
<1>2. requested \in 0..MaxSubscriptions /\ sends \in 0..MaxSends
  BY PushAssumption
<1> QED BY <1>1, <1>2 DEF PushInv

\* A row that is there is a row of the table.
LEMMA RowOf ==
  ASSUME PushInv, NEW b \in Browsers, sub[b] # <<>>
  PROVE  /\ sub[b][1] \in SubRows
         /\ sub[b][1].id \in 1..requested /\ sub[b][1].user = holder[b] /\ holder[b] \in People
<1>1. sub[b] \in {<<r>> : r \in SubRows}
  BY DEF PushInv, RowsNumbered
<1>2. PICK r \in SubRows : sub[b] = <<r>>
  BY <1>1
<1>3. sub[b][1] = r
  BY <1>2
<1>4. r.id \in 1..MaxSubscriptions /\ r.user \in People
  BY DEF SubRows
<1>5. r.id \in 1..requested /\ r.user = holder[b]
  BY <1>3, <1>4 DEF PushInv, RowsNumbered, RowsNameHolder
<1> QED BY <1>3, <1>4, <1>5

LEMMA TakenOver ==
  ASSUME PushInv, NEW b \in Browsers, NEW u \in People, requested < MaxSubscriptions
  PROVE  /\ TakeOver(b, u) \in SubRows /\ TakeOver(b, u).user = u
         /\ TakeOver(b, u).id = IF sub[b] # <<>> THEN sub[b][1].id ELSE requested + 1
<1>1. requested + 1 \in 1..MaxSubscriptions
  BY PushAssumption DEF PushInv
<1>2. sub[b] # <<>> => sub[b][1].id \in 1..MaxSubscriptions
  BY RowOf DEF SubRows
<1> QED BY <1>1, <1>2 DEF TakeOver, SubRows

LEMMA SubscribeInv ==
  ASSUME PushInv, NEW b \in Browsers, NEW u \in People, Subscribe(b, u)
  PROVE  PushInv'
<1> DEFINE r == TakeOver(b, u)
<1>1. /\ r \in SubRows /\ r.user = u
      /\ r.id = IF sub[b] # <<>> THEN sub[b][1].id ELSE requested + 1
  BY TakenOver DEF Subscribe
<1>2. sub' = [sub EXCEPT ![b] = <<r>>]
  BY DEF Subscribe
<1> HIDE DEF r
<1>3. /\ requested' = requested + 1 /\ requested' \in 0..MaxSubscriptions /\ requested \in Nat
      /\ holder' = [holder EXCEPT ![b] = u] /\ handed' = handed \cup {b}
      /\ UNCHANGED <<gone, sending, sends, misled>>
  BY PushAssumption DEF Subscribe, PushInv
<1>4. sub \in [Browsers -> {<<>>} \cup {<<x>> : x \in SubRows}]
  BY DEF PushInv, RowsNumbered
<1>5. sub' \in [Browsers -> {<<>>} \cup {<<x>> : x \in SubRows}]
  BY <1>1, <1>2, <1>4
<1>6. sub'[b] # <<>> /\ sub'[b][1] = r /\ \A c \in Browsers \ {b} : sub'[c] = sub[c]
  BY <1>2, <1>4
<1>7. \A c \in Browsers : sub[c] # <<>> => sub[c][1].id \in 1..requested
  BY RowOf
<1>8. RowsNumbered'
  <2>1. \A c \in Browsers : sub'[c] # <<>> => sub'[c][1].id <= requested'
    BY <1>1, <1>3, <1>6, <1>7
  <2>2. \A c \in Browsers \ {b} : sub[c] # <<>> => sub[c][1].id # r.id
    BY <1>1, <1>3, <1>7 DEF PushInv, RowsNumbered
  <2>3. \A c, d \in Browsers :
          sub'[c] # <<>> /\ sub'[d] # <<>> /\ sub'[c][1].id = sub'[d][1].id => c = d
    BY <1>6, <2>2 DEF PushInv, RowsNumbered
  <2> QED BY <1>5, <2>1, <2>3 DEF RowsNumbered
<1>9. RowsNameHolder'
  BY <1>1, <1>3, <1>6 DEF PushInv, RowsNameHolder
<1>10. SendKnowsHolder'
  BY <1>3 DEF PushInv, SendKnowsHolder
<1> QED BY <1>3, <1>8, <1>9, <1>10 DEF PushInv

\* Taking rows away leaves the others as they are.
LEMMA FewerRows ==
  ASSUME PushInv, NEW b \in Browsers,
         sub' = [sub EXCEPT ![b] = <<>>] \/ sub' = sub,
         requested' = requested
  PROVE  /\ RowsNumbered'
         /\ \A c \in Browsers : sub'[c] # <<>> => sub'[c] = sub[c]
         /\ \A c \in Browsers \ {b} : sub'[c] = sub[c]
<1>1. sub \in [Browsers -> {<<>>} \cup {<<x>> : x \in SubRows}]
  BY DEF PushInv, RowsNumbered
<1>2. sub' \in [Browsers -> {<<>>} \cup {<<x>> : x \in SubRows}]
  BY <1>1
<1>3. \A c \in Browsers : sub'[c] # <<>> => sub'[c] = sub[c]
  BY <1>1
<1>4. \A c \in Browsers \ {b} : sub'[c] = sub[c]
  BY <1>1
<1> QED BY <1>2, <1>3, <1>4 DEF PushInv, RowsNumbered

LEMMA UnsubscribeInv ==
  ASSUME PushInv, NEW b \in Browsers, NEW u \in People, Unsubscribe(b, u)
  PROVE  PushInv'
<1>1. /\ holder[b] = u /\ holder' = [holder EXCEPT ![b] = Nobody]
      /\ handed' = handed \cup {b}
      /\ UNCHANGED <<gone, sending, requested, sends, misled>>
      /\ sub' = [sub EXCEPT ![b] = <<>>] \/ sub' = sub
  BY DEF Unsubscribe
<1>2. sub'[b] = <<>>
  <2>1. sub \in [Browsers -> {<<>>} \cup {<<x>> : x \in SubRows}]
    BY DEF PushInv, RowsNumbered
  <2>2. sub[b] # <<>> => sub[b][1].user = u
    BY <1>1 DEF PushInv, RowsNameHolder
  <2> QED BY <2>1, <2>2 DEF Unsubscribe
<1>3. /\ RowsNumbered'
      /\ \A c \in Browsers \ {b} : sub'[c] = sub[c]
  BY <1>1, FewerRows
<1>4. RowsNameHolder'
  BY <1>1, <1>2, <1>3 DEF PushInv, RowsNameHolder
<1>5. SendKnowsHolder'
  BY <1>1 DEF PushInv, SendKnowsHolder
<1> QED BY <1>1, <1>3, <1>4, <1>5 DEF PushInv

LEMMA DropEndpointInv ==
  ASSUME PushInv, NEW b \in Browsers, DropEndpoint(b)
  PROVE  PushInv'
BY DEF DropEndpoint, PushInv, RowsNumbered, RowsNameHolder, SendKnowsHolder

LEMMA SendToUsersInv ==
  ASSUME PushInv, NEW us, SendToUsers(us)
  PROVE  PushInv'
<1> DEFINE bs == {x \in Browsers : sub[x] # <<>> /\ sub[x][1].user \in us}
           ts == {Target(x) : x \in bs}
<1>1. sending' = <<ts>> /\ handed' = {} /\ sends' = sends + 1 /\ sends' \in 0..MaxSends
  BY PushAssumption DEF SendToUsers, PushInv
<1>2. UNCHANGED <<sub, holder, gone, requested, misled>>
  BY DEF SendToUsers
<1>3. \A x \in bs : /\ Target(x) \in Targets
                    /\ holder[Target(x).browser] = Target(x).user
  BY RowOf DEF Target, Targets, SubRows
<1> HIDE DEF bs
<1>4. ts \in SUBSET Targets /\ \A t \in ts : holder[t.browser] = t.user
  BY <1>3
<1> HIDE DEF ts
<1>5. SendKnowsHolder'
  BY <1>1, <1>2, <1>4 DEF SendKnowsHolder
<1> QED BY <1>1, <1>2, <1>5 DEF PushInv, RowsNumbered, RowsNameHolder

LEMMA SendOneInv ==
  ASSUME PushInv, SendOne
  PROVE  PushInv'
<1>1. PICK t \in sending[1] : Deliver(t) \/ Undelivered(t) \/ Expired(t)
  BY DEF SendOne
<1>2. PICK ts \in SUBSET Targets : sending = <<ts>>
  BY DEF PushInv, SendKnowsHolder, SendOne
<1>3. /\ sending[1] = ts /\ t \in ts /\ t.browser \in Browsers
      /\ \A x \in ts : x.browser \notin handed => holder[x.browser] = x.user
  BY <1>1, <1>2 DEF PushInv, SendKnowsHolder, Targets, SendOne
<1>4. sending' = <<ts \ {t}>> /\ UNCHANGED <<holder, gone, requested, sends, handed>>
  BY <1>1, <1>3 DEF Deliver, Undelivered, Expired, Tried
<1>5. SendKnowsHolder'
  <2>1. ts \ {t} \in SUBSET Targets
    OBVIOUS
  <2> QED BY <1>3, <1>4, <2>1 DEF SendKnowsHolder
<1>6. misled' = {}
  BY <1>1, <1>3 DEF Deliver, Undelivered, Expired, PushInv
<1>7. sub' = sub \/ (t.browser \in gone /\ sub' = [sub EXCEPT ![t.browser] = <<>>])
  <2>1. sub \in [Browsers -> {<<>>} \cup {<<x>> : x \in SubRows}]
    BY DEF PushInv, RowsNumbered
  <2> QED BY <1>1, <1>3, <2>1 DEF Deliver, Undelivered, Expired
<1>8. RowsNumbered' /\ RowsNameHolder'
  <2>1. /\ RowsNumbered'
        /\ \A c \in Browsers : sub'[c] # <<>> => sub'[c] = sub[c]
        /\ \A c \in Browsers \ {t.browser} : sub'[c] = sub[c]
    BY <1>3, <1>4, <1>7, FewerRows
  <2>2. \A c \in Browsers : c \notin gone => sub'[c] = sub[c]
    BY <1>7, <2>1
  <2> QED BY <1>4, <2>1, <2>2 DEF PushInv, RowsNameHolder
<1> QED BY <1>4, <1>5, <1>6, <1>8 DEF PushInv

LEMMA PushStepInv == PushInv /\ [PushNext]_pushVars => PushInv'
<1> SUFFICES ASSUME PushInv, [PushNext]_pushVars PROVE PushInv'
  OBVIOUS
<1>1. CASE \E b \in Browsers, u \in People : Subscribe(b, u) \/ Unsubscribe(b, u)
  BY <1>1, SubscribeInv, UnsubscribeInv
<1>2. CASE \E b \in Browsers : DropEndpoint(b)
  BY <1>2, DropEndpointInv
<1>3. CASE \E us \in (SUBSET People) \ {{}} : SendToUsers(us)
  BY <1>3, SendToUsersInv
<1>4. CASE SendOne
  BY <1>4, SendOneInv
<1>5. CASE FinishSend
  BY <1>5 DEF FinishSend, PushInv, RowsNumbered, RowsNameHolder, SendKnowsHolder
<1>6. CASE UNCHANGED pushVars
  BY <1>6 DEF pushVars, PushInv, RowsNumbered, RowsNameHolder, SendKnowsHolder
<1> QED BY <1>1, <1>2, <1>3, <1>4, <1>5, <1>6 DEF PushNext

\* The rows of push_subscriptions are numbered apart, and only they are sent to.
THEOREM PushTypes == PushSpec => []PushTypeOK
<1>1. PushInv => PushTypeOK
  BY DEF PushInv, RowsNumbered, PushTypeOK, SubRows
<1> QED BY <1>1, PushInitInv, PushStepInv, PTL DEF PushSpec

\* upsertForUser gives an endpoint to whoever subscribed last, so a push shows on a
\* browser of somebody else only when the browser changed hands while it was sent.
THEOREM PushesToHolders == PushSpec => []PushesReachTheirHolder
<1>1. PushInv => PushesReachTheirHolder
  <2> SUFFICES ASSUME PushInv, NEW b \in Browsers, b \notin gone
               PROVE  IF holder[b] = Nobody THEN sub[b] = <<>>
                      ELSE sub[b] # <<>> /\ sub[b][1].user = holder[b]
    BY DEF PushesReachTheirHolder, PushInv
  <2> QED BY RowOf, PushAssumption DEF PushInv, RowsNameHolder
<1> QED BY <1>1, PushInitInv, PushStepInv, PTL DEF PushSpec

-----------------------------------------------------------------------------
(* New episodes: what a check holds at each await.                         *)

CheckPcs == {"none", "detail", "find", "create", "event", "update", "mark", "push"}
Checks == [pc : CheckPcs, current : Releases, prev : Releases]
StateRows == [episode : Releases \ {0}, notified : Releases]

\* A check past its fetch has a number; past observe it has a row, which stays.
CheckSound(o, x) ==
    /\ check[o][x].pc = "none" => check[o][x] = NoCheck
    /\ check[o][x].pc \notin {"none", "detail"} => check[o][x].current # 0
    /\ check[o][x].pc \in {"event", "update", "mark", "push"} => series[x] # <<>>
    /\ check[o][x].pc \in {"mark", "push"} => o # Page

EpisodesInv ==
    /\ upstream \in [Slugs -> Releases \ {0}] /\ kept \in [Slugs -> Releases \ {0}]
    /\ \A x \in Slugs : kept[x] =< upstream[x]
    /\ series \in [Slugs -> {<<>>} \cup {<<r>> : r \in StateRows}]
    /\ run \in [Hosts -> {"idle", "pick", "checking"}]
    /\ check \in [Observers -> [Slugs -> Checks]]
    /\ \A o \in Observers, x \in Slugs : CheckSound(o, x)

CountsInv ==
    /\ events \in [Slugs -> [Releases -> 0..2]]
    /\ announced \in [Slugs -> [Releases -> 0..2]]
    /\ unsent \in [Slugs -> SUBSET Releases] /\ silent \in [Slugs -> SUBSET Releases]
    /\ first \in [Slugs -> Releases]

LEMMA EpisodeBounds ==
  /\ LastRelease \in Nat \ {0} /\ 0 \in Releases /\ 1 \in Releases \ {0} /\ Releases \subseteq Nat
  /\ NoCheck \in Checks /\ NoCheck.pc = "none" /\ NoCheck.current = 0 /\ NoCheck.prev = 0
  /\ Hosts \subseteq Observers /\ Page \in Observers /\ Page \notin Hosts
<1>1. LastRelease \in Nat \ {0}
  BY NewEpisodesAssumption
<1>2. 0 \in Releases /\ 1 \in Releases \ {0} /\ Releases \subseteq Nat
  BY <1>1 DEF Releases
<1>3. NoCheck \in Checks /\ NoCheck.pc = "none" /\ NoCheck.current = 0 /\ NoCheck.prev = 0
  BY <1>2 DEF NoCheck, Checks, CheckPcs
<1> QED BY <1>1, <1>2, <1>3, NewEpisodesAssumption DEF Observers

\* The check of one observer of one slug moves, and no other.
Moves(o, x) ==
    /\ check' \in [Observers -> [Slugs -> Checks]]
    /\ \A p \in Observers, y \in Slugs : p # o \/ y # x => check'[p][y] = check[p][y]

LEMMA CheckMoves ==
  ASSUME EpisodesInv, NEW o \in Observers, NEW x \in Slugs, NEW i \in Checks,
         check' = [check EXCEPT ![o][x] = i]
  PROVE  Moves(o, x) /\ check'[o][x] = i
BY DEF EpisodesInv, Moves

LEMMA EndCheckMoves ==
  ASSUME EpisodesInv, NEW o \in Observers, NEW x \in Slugs, EndCheck(o, x)
  PROVE  Moves(o, x) /\ check'[o][x] = NoCheck
<1>1. NoCheck \in Checks /\ check' = [check EXCEPT ![o][x] = NoCheck]
  BY EpisodeBounds DEF EndCheck
<1> QED BY <1>1, CheckMoves

LEMMA CheckGotoMoves ==
  ASSUME EpisodesInv, NEW o \in Observers, NEW x \in Slugs, NEW pc \in CheckPcs, CheckGoto(o, x, pc)
  PROVE  /\ Moves(o, x) /\ check'[o][x].pc = pc
         /\ check'[o][x].current = check[o][x].current /\ check'[o][x].prev = check[o][x].prev
<1> DEFINE i == [check[o][x] EXCEPT !.pc = pc]
<1>1. check[o][x] \in Checks
  BY DEF EpisodesInv
<1>2. i \in Checks /\ i.pc = pc /\ i.current = check[o][x].current /\ i.prev = check[o][x].prev
  BY <1>1 DEF Checks
<1>3. check' = [check EXCEPT ![o][x] = i]
  BY DEF CheckGoto
<1> HIDE DEF i
<1> QED BY <1>2, <1>3, CheckMoves

LEMMA ObservedMoves ==
  ASSUME EpisodesInv, NEW o \in Observers, NEW x \in Slugs, NEW n \in Releases, Observed(o, x, n)
  PROVE  /\ Moves(o, x)
         /\ \/ (o = Page \/ n = check[o][x].current) /\ check'[o][x] = NoCheck
            \/ /\ o # Page /\ n # check[o][x].current
               /\ check'[o][x].pc = "mark" /\ check'[o][x].current = check[o][x].current
               /\ check'[o][x].prev = n
<1> DEFINE i == [check[o][x] EXCEPT !.pc = "mark", !.prev = n]
<1>1. CASE o = Page \/ n = check[o][x].current
  BY <1>1, EndCheckMoves DEF Observed
<1>2. CASE ~(o = Page \/ n = check[o][x].current)
  <2>1. check[o][x] \in Checks
    BY DEF EpisodesInv
  <2>2. i \in Checks /\ i.pc = "mark" /\ i.current = check[o][x].current /\ i.prev = n
    BY <2>1 DEF Checks, CheckPcs
  <2>3. check' = [check EXCEPT ![o][x] = i]
    BY <1>2 DEF Observed
  <2> HIDE DEF i
  <2> QED BY <1>2, <2>2, <2>3, CheckMoves
<1> QED BY <1>1, <1>2

-----------------------------------------------------------------------------
(* What a row and a step make of it.                                       *)

\* What is stored of a slug; 0 as long as there is no row.
Stored(x) == IF series[x] = <<>> THEN 0 ELSE series[x][1].episode

LEMMA RowOfSlug ==
  ASSUME EpisodesInv, NEW x \in Slugs, series[x] # <<>>
  PROVE  /\ series[x] = <<series[x][1]>> /\ series[x][1] \in StateRows
         /\ series[x][1].episode \in Releases \ {0} /\ series[x][1].notified \in Releases
<1>1. PICK r \in StateRows : series[x] = <<r>>
  BY DEF EpisodesInv
<1> QED BY <1>1 DEF StateRows

LEMMA StoredKinds ==
  ASSUME EpisodesInv, NEW x \in Slugs
  PROVE  Stored(x) \in Releases /\ Notified(x) \in Releases
BY RowOfSlug, EpisodeBounds DEF Stored, Notified

\* The row of one slug becomes e and n.
Stores(x, e, n) ==
    /\ series' \in [Slugs -> {<<>>} \cup {<<r>> : r \in StateRows}]
    /\ \A y \in Slugs \ {x} : series'[y] = series[y]
    /\ series'[x] # <<>> /\ series'[x][1].episode = e /\ series'[x][1].notified = n

LEMMA RowStored ==
  ASSUME EpisodesInv, NEW x \in Slugs, NEW r \in StateRows, series' = [series EXCEPT ![x] = <<r>>]
  PROVE  Stores(x, r.episode, r.notified)
<1>1. series'[x] = <<r>> /\ series'[x] # <<>> /\ series'[x][1] = r
  BY DEF EpisodesInv
<1>2. series' \in [Slugs -> {<<>>} \cup {<<t>> : t \in StateRows}]
  BY DEF EpisodesInv
<1>3. \A y \in Slugs \ {x} : series'[y] = series[y]
  BY DEF EpisodesInv
<1> QED BY <1>1, <1>2, <1>3 DEF Stores

LEMMA EpisodeStored ==
  ASSUME EpisodesInv, NEW x \in Slugs, series[x] # <<>>, NEW e \in Releases \ {0},
         series' = [series EXCEPT ![x][1].episode = e]
  PROVE  Stores(x, e, series[x][1].notified)
<1> DEFINE old == series[x][1]
           r == [old EXCEPT !.episode = e]
<1>1. series[x] = <<old>> /\ old \in StateRows
  BY RowOfSlug
<1>2. r \in StateRows /\ r.episode = e /\ r.notified = old.notified
  BY <1>1 DEF StateRows
<1>3. series' = [series EXCEPT ![x] = [series[x] EXCEPT ![1].episode = e]]
  OBVIOUS
<1> HIDE DEF old
<1>4. [<<old>> EXCEPT ![1].episode = e] = [<<old>> EXCEPT ![1] = r]
  OBVIOUS
<1> HIDE DEF r
<1>5. [<<old>> EXCEPT ![1] = r] = <<r>>
  OBVIOUS
<1>6. series' = [series EXCEPT ![x] = <<r>>]
  BY <1>1, <1>3, <1>4, <1>5
<1> QED BY <1>2, <1>6, RowStored DEF old

LEMMA NotifiedStored ==
  ASSUME EpisodesInv, NEW x \in Slugs, series[x] # <<>>, NEW n \in Releases,
         series' = [series EXCEPT ![x][1].notified = n]
  PROVE  Stores(x, series[x][1].episode, n)
<1> DEFINE old == series[x][1]
           r == [old EXCEPT !.notified = n]
<1>1. series[x] = <<old>> /\ old \in StateRows
  BY RowOfSlug
<1>2. r \in StateRows /\ r.episode = old.episode /\ r.notified = n
  BY <1>1 DEF StateRows
<1>3. series' = [series EXCEPT ![x] = [series[x] EXCEPT ![1].notified = n]]
  OBVIOUS
<1> HIDE DEF old
<1>4. [<<old>> EXCEPT ![1].notified = n] = [<<old>> EXCEPT ![1] = r]
  OBVIOUS
<1> HIDE DEF r
<1>5. [<<old>> EXCEPT ![1] = r] = <<r>>
  OBVIOUS
<1>6. series' = [series EXCEPT ![x] = <<r>>]
  BY <1>1, <1>3, <1>4, <1>5
<1> QED BY <1>2, <1>6, RowStored DEF old

-----------------------------------------------------------------------------
(* A slug that one observer sees at a time, at one source.                 *)

Alone(x) ==
    \A o, p \in Observers : check[o][x].pc # "none" /\ check[p][x].pc # "none" => o = p

\* The job does not go back behind what it told, and marks what is newer.
Ahead(x) ==
    \A h \in Hosts : LET c == check[h][x] IN
        /\ c.pc \notin {"none", "detail"} => Notified(x) =< c.current
        /\ c.pc = "mark" => Notified(x) < c.current
        /\ c.pc = "push" => Notified(x) = c.current

\* No sighting moves the row back.
Steady(x) ==
    \A o \in Observers : LET c == check[o][x] IN
        /\ c.pc = "event" => Stored(x) < c.current
        /\ c.pc = "update" => Stored(x) =< c.current

\* The log runs ahead of the row by the release that is being stored.
Logged(x) ==
    \A e \in Releases :
        /\ events[x][e] \in {0, 1}
        /\ events[x][e] = 1 /\ Stored(x) < e =>
             \E o \in Observers : check[o][x].pc = "update" /\ check[o][x].current = e

InPush(x, e) == \E h \in Hosts : check[h][x].pc = "push" /\ check[h][x].current = e

\* Each episode up to the one that is marked had one fate at most, the marked one had one.
Pushed(x) ==
    \A e \in Releases \ {0} :
        /\ announced[x][e] \in {0, 1}
        /\ announced[x][e] = 1 => ~InPush(x, e) /\ e \notin unsent[x] /\ e \notin silent[x]
        /\ e \in unsent[x] => ~InPush(x, e) /\ e \notin silent[x]
        /\ InPush(x, e) => e \notin silent[x]
        /\ Notified(x) = e => announced[x][e] = 1 \/ InPush(x, e) \/ e \in unsent[x] \/ e \in silent[x]
        /\ Notified(x) < e => announced[x][e] = 0 /\ ~InPush(x, e) /\ e \notin unsent[x]
                          /\ e \notin silent[x]

\* No older detail was stored over the row so far.
InOrder(x) == x \notin behind => Steady(x) /\ Logged(x)

Clean(x) == Alone(x) /\ Ahead(x) /\ InOrder(x) /\ Pushed(x)

\* Nothing happens to a slug.
LEMMA CleanUntouched ==
  ASSUME EpisodesInv, EpisodesInv', NEW x \in Slugs, Clean(x),
         series'[x] = series[x], events'[x] = events[x], announced'[x] = announced[x],
         unsent'[x] = unsent[x], silent'[x] = silent[x], x \in behind => x \in behind',
         \A o \in Observers : check'[o][x] = check[o][x]
  PROVE  Clean(x)'
<1>0. Stored(x)' = Stored(x) /\ Notified(x)' = Notified(x)
  BY DEF Stored, Notified
<1>1. Alone(x)'
  BY DEF Clean, Alone
<1>2. Ahead(x)'
  BY <1>0, EpisodeBounds DEF Clean, Ahead
<1>3. InOrder(x)'
  BY <1>0 DEF Clean, InOrder, Steady, Logged
<1>4. \A e \in Releases : InPush(x, e)' <=> InPush(x, e)
  BY EpisodeBounds DEF InPush
<1>5. Pushed(x)'
  BY <1>0, <1>4 DEF Clean, Pushed, InPush
<1> QED BY <1>1, <1>2, <1>3, <1>5 DEF Clean

\* A check begins, of a slug nobody else is checking.
LEMMA CleanBegins ==
  ASSUME EpisodesInv, EpisodesInv', NEW x \in Slugs, Clean(x), NEW o \in Observers,
         UNCHANGED <<series, events, announced, unsent, silent, behind>>,
         \A p \in Observers \ {o} : check'[p][x] = check[p][x] /\ check[p][x].pc = "none",
         check[o][x].pc = "none",
         check'[o][x].pc = "detail" \/ (o = Page /\ check'[o][x].pc = "find")
  PROVE  Clean(x)'
<1>0. /\ Stored(x)' = Stored(x) /\ Notified(x)' = Notified(x)
      /\ Stored(x) \in Nat /\ Notified(x) \in Nat
  BY StoredKinds, EpisodeBounds DEF Stored, Notified, EpisodesInv
<1>1. Alone(x)'
  BY DEF Clean, Alone
<1>2. Ahead(x)'
  BY <1>0, EpisodeBounds DEF Clean, Ahead, Observers
<1>3. InOrder(x)'
  BY <1>0, EpisodeBounds DEF Clean, InOrder, Steady, Logged
<1>4. \A e \in Releases : ~InPush(x, e)' /\ ~InPush(x, e)
  BY EpisodeBounds DEF InPush
<1>5. Pushed(x)'
  BY <1>0, <1>4 DEF Clean, Pushed, InPush
<1> QED BY <1>1, <1>2, <1>3, <1>5 DEF Clean

\* A check ends early; its push is lost with it, and no update is under way.
LEMMA CleanEnds ==
  ASSUME EpisodesInv, EpisodesInv', CountsInv, NEW x \in Slugs, Clean(x), NEW o \in Observers,
         UNCHANGED <<series, events, announced, silent, behind>>,
         check'[o][x] = NoCheck,
         \A p \in Observers \ {o} : check'[p][x] = check[p][x],
         check[o][x].pc # "update",
         unsent'[x] = IF check[o][x].pc = "push" THEN unsent[x] \cup {check[o][x].current}
                      ELSE unsent[x]
  PROVE  Clean(x)'
<1>0. /\ Stored(x)' = Stored(x) /\ Notified(x)' = Notified(x)
      /\ Stored(x) \in Nat /\ Notified(x) \in Nat
      /\ check'[o][x].pc = "none"
  BY StoredKinds, EpisodeBounds DEF Stored, Notified, EpisodesInv
<1>1. Alone(x)'
  BY <1>0 DEF Clean, Alone
<1>2. Ahead(x)'
  BY <1>0, EpisodeBounds DEF Clean, Ahead, Observers
<1>3. InOrder(x)'
  BY <1>0, EpisodeBounds DEF Clean, InOrder, Steady, Logged
<1>4. CASE check[o][x].pc # "push"
  <2>1. \A e \in Releases : InPush(x, e)' <=> InPush(x, e)
    BY <1>0, <1>4, EpisodeBounds DEF InPush
  <2>2. Pushed(x)'
    BY <1>0, <1>4, <2>1 DEF Clean, Pushed, InPush
  <2> QED BY <1>1, <1>2, <1>3, <2>2 DEF Clean
<1>5. CASE check[o][x].pc = "push"
  <2> DEFINE n == check[o][x].current
  <2>1. o \in Hosts /\ n \in Releases \ {0} /\ Notified(x) = n
    <3>1. o # Page /\ n # 0
      BY <1>5 DEF EpisodesInv, CheckSound
    <3>2. n \in Releases
      BY DEF EpisodesInv, Checks
    <3>3. o \in Hosts
      BY <3>1 DEF Observers
    <3>4. Notified(x) = n
      BY <1>5, <3>3 DEF Clean, Ahead
    <3> QED BY <3>1, <3>2, <3>3, <3>4
  <2>2. \A e \in Releases : InPush(x, e) <=> e = n
    BY <1>5, <2>1, EpisodeBounds DEF Clean, Alone, InPush
  <2>3. \A e \in Releases : ~InPush(x, e)'
    BY <1>0, <1>5, EpisodeBounds DEF Clean, Alone, InPush
  <2>4. unsent'[x] = unsent[x] \cup {n}
    BY <1>5
  <2> HIDE DEF n
  <2>5. Pushed(x)'
    BY <1>0, <2>1, <2>2, <2>3, <2>4 DEF Clean, Pushed, InPush
  <2> QED BY <1>1, <1>2, <1>3, <2>5 DEF Clean
<1> QED BY <1>4, <1>5

\* The awaits of a check that change nothing but the check.
LEMMA CleanGoesOn ==
  ASSUME EpisodesInv, EpisodesInv', NEW x \in Slugs, Clean(x), NEW o \in Observers,
         UNCHANGED <<series, events, announced, unsent, silent>>, x \in behind => x \in behind',
         Moves(o, x),
         \/ check[o][x].pc = "detail" /\ check'[o][x].pc = "find"
            /\ Notified(x) =< check'[o][x].current
         \/ /\ check[o][x].pc = "find" /\ check'[o][x].current = check[o][x].current
            /\ x \notin behind' => Stored(x) =< check[o][x].current
            /\ \/ check'[o][x].pc = "create" /\ series[x] = <<>>
               \/ check'[o][x].pc = "event" /\ series[x] # <<>>
                  /\ series[x][1].episode # check[o][x].current
               \/ check'[o][x].pc = "update" /\ series[x] # <<>>
                  /\ series[x][1].episode = check[o][x].current
  PROVE  Clean(x)'
<1>0. /\ Stored(x)' = Stored(x) /\ Notified(x)' = Notified(x)
      /\ Stored(x) \in Nat /\ Notified(x) \in Nat
      /\ check[o][x].current \in Nat
      /\ \A p \in Observers \ {o} : check'[p][x] = check[p][x]
      /\ series[x] # <<>> => Stored(x) = series[x][1].episode
  <2>1. \A p \in Observers \ {o} : check'[p][x] = check[p][x]
    BY DEF Moves
  <2>2. check[o][x] \in Checks /\ check[o][x].current \in Nat
    <3>1. check[o][x] \in Checks
      BY DEF EpisodesInv
    <3> QED BY <3>1, EpisodeBounds DEF Checks
  <2> QED BY <2>1, <2>2, StoredKinds, EpisodeBounds DEF Stored, Notified
<1>1. Alone(x)'
  BY <1>0 DEF Clean, Alone
<1>2. Ahead(x)'
  <2> SUFFICES ASSUME NEW h \in Hosts
               PROVE  LET c == check'[h][x] IN
                      /\ c.pc \notin {"none", "detail"} => Notified(x) =< c.current
                      /\ c.pc = "mark" => Notified(x) < c.current
                      /\ c.pc = "push" => Notified(x) = c.current
    BY <1>0 DEF Ahead
  <2>1. CASE h = o
    BY <2>1 DEF Clean, Ahead
  <2>2. CASE h # o
    BY <1>0, <2>2, EpisodeBounds DEF Clean, Ahead
  <2> QED BY <2>1, <2>2
<1>3. InOrder(x)'
  <2> SUFFICES ASSUME x \notin behind' PROVE Steady(x)' /\ Logged(x)'
    BY DEF InOrder
  <2>1. Steady(x) /\ Logged(x)
    BY DEF Clean, InOrder
  <2>2. Steady(x)'
    BY <1>0, <2>1 DEF Steady
  <2>3. Logged(x)'
    BY <1>0, <2>1 DEF Logged
  <2> QED BY <2>2, <2>3
<1>4. \A e \in Releases : InPush(x, e)' <=> InPush(x, e)
  BY <1>0, EpisodeBounds DEF InPush
<1>5. Pushed(x)'
  BY <1>0, <1>4 DEF Clean, Pushed, InPush
<1> QED BY <1>1, <1>2, <1>3, <1>5 DEF Clean

\* The event of a release is new to the log.
LEMMA CleanEvent ==
  ASSUME EpisodesInv, EpisodesInv', CountsInv, NEW x \in Slugs, Clean(x), NEW o \in Observers,
         UNCHANGED <<series, announced, unsent, silent, behind>>, Moves(o, x),
         check[o][x].pc = "event", check'[o][x].pc = "update",
         check'[o][x].current = check[o][x].current,
         events' = [events EXCEPT ![x][check[o][x].current] = UpTo2(@)]
  PROVE  Clean(x)'
<1> DEFINE n == check[o][x].current
<1>0. /\ Stored(x)' = Stored(x) /\ Notified(x)' = Notified(x)
      /\ Stored(x) \in Nat /\ n \in Releases \ {0} /\ n \in Nat
      /\ \A p \in Observers \ {o} : check'[p][x] = check[p][x]
  <2>1. n \in Releases \ {0}
    BY DEF EpisodesInv, Checks, CheckSound
  <2>2. \A p \in Observers \ {o} : check'[p][x] = check[p][x]
    BY DEF Moves
  <2> QED BY <2>1, <2>2, StoredKinds, EpisodeBounds DEF Stored, Notified
<1>1. Alone(x)'
  BY <1>0 DEF Clean, Alone
<1>2. Ahead(x)'
  <2> SUFFICES ASSUME NEW h \in Hosts
               PROVE  LET c == check'[h][x] IN
                      /\ c.pc \notin {"none", "detail"} => Notified(x) =< c.current
                      /\ c.pc = "mark" => Notified(x) < c.current
                      /\ c.pc = "push" => Notified(x) = c.current
    BY <1>0 DEF Ahead
  <2>1. CASE h = o
    BY <2>1 DEF Clean, Ahead
  <2>2. CASE h # o
    BY <1>0, <2>2, EpisodeBounds DEF Clean, Ahead
  <2> QED BY <2>1, <2>2
<1> HIDE DEF n
<1>3. check'[o][x].current = n /\ n = check[o][x].current
  BY DEF n
<1>4. InOrder(x)'
  <2> SUFFICES ASSUME x \notin behind' PROVE Steady(x)' /\ Logged(x)'
    BY DEF InOrder
  <2>1. Steady(x) /\ Logged(x)
    BY DEF Clean, InOrder
  <2>2. Stored(x) < n
    BY <1>3, <2>1 DEF Steady
  <2>3. events[x][n] = 0
    BY <1>0, <2>1, <2>2 DEF Clean, Alone, Logged
  <2>4. events'[x][n] = 1 /\ \A e \in Releases \ {n} : events'[x][e] = events[x][e]
    BY <1>0, <1>3, <2>3 DEF CountsInv, UpTo2
  <2>5. Steady(x)'
    BY <1>0, <1>3, <2>1, <2>2 DEF Steady
  <2>6. Logged(x)'
    <3> SUFFICES ASSUME NEW e \in Releases
                 PROVE  /\ events'[x][e] \in {0, 1}
                        /\ events'[x][e] = 1 /\ Stored(x) < e => e = n
      BY <1>0, <1>3 DEF Logged
    <3>1. CASE e = n
      BY <2>4, <3>1
    <3>2. CASE e # n
      BY <2>1, <2>4, <3>2 DEF Clean, Logged, Alone
    <3> QED BY <3>1, <3>2
  <2> QED BY <2>5, <2>6
<1>5. \A e \in Releases : InPush(x, e)' <=> InPush(x, e)
  BY <1>0, EpisodeBounds DEF InPush
<1>6. Pushed(x)'
  BY <1>0, <1>5 DEF Clean, Pushed, InPush
<1> QED BY <1>1, <1>2, <1>4, <1>6 DEF Clean

\* The row takes the number of the check, and the job goes on to mark it.
LEMMA CleanStores ==
  ASSUME EpisodesInv, EpisodesInv', CountsInv, NEW x \in Slugs, Clean(x), NEW o \in Observers,
         UNCHANGED <<events, announced, unsent, silent, behind>>, Moves(o, x),
         check[o][x].pc \in {"create", "update"},
         check[o][x].pc = "create" => series[x] = <<>>,
         series'[x] # <<>>, series'[x][1].episode = check[o][x].current,
         series'[x][1].notified = Notified(x),
         \/ (o = Page \/ Notified(x) = check[o][x].current) /\ check'[o][x] = NoCheck
         \/ /\ o # Page /\ Notified(x) # check[o][x].current
            /\ check'[o][x].pc = "mark" /\ check'[o][x].current = check[o][x].current
            /\ check'[o][x].prev = Notified(x)
  PROVE  Clean(x)'
<1> DEFINE n == check[o][x].current
<1>0. /\ Stored(x)' = n /\ Notified(x)' = Notified(x)
      /\ Stored(x) \in Nat /\ Notified(x) \in Nat /\ n \in Releases \ {0} /\ n \in Nat
      /\ \A p \in Observers \ {o} : check'[p][x] = check[p][x] /\ check[p][x].pc = "none"
  <2>1. \A p \in Observers \ {o} : check'[p][x] = check[p][x] /\ check[p][x].pc = "none"
    BY DEF Moves, Clean, Alone
  <2>2. n \in Releases \ {0}
    BY DEF EpisodesInv, Checks, CheckSound
  <2>3. Stored(x)' = n /\ Notified(x)' = Notified(x)
    BY DEF Stored, Notified
  <2> QED BY <2>1, <2>2, <2>3, StoredKinds, EpisodeBounds
<1>1. check'[o][x].pc \in {"none", "mark"}
  BY EpisodeBounds
<1>2. Alone(x)'
  BY <1>0 DEF Alone
<1>3. Ahead(x)'
  <2>1. o \in Hosts => Notified(x) =< n
    BY DEF Clean, Ahead
  <2>2. o # Page => o \in Hosts
    BY DEF Observers
  <2>3. check'[o][x].pc = "mark" => Notified(x) < n /\ check'[o][x].current = n
    BY <1>0, <2>1, <2>2, EpisodeBounds
  <2> HIDE DEF n
  <2> QED BY <1>0, <1>1, <2>3, EpisodeBounds DEF Ahead
<1>4. InOrder(x)'
  <2> SUFFICES ASSUME x \notin behind' PROVE Steady(x)' /\ Logged(x)'
    BY DEF InOrder
  <2>1. Steady(x) /\ Logged(x)
    BY DEF Clean, InOrder
  <2>2. Steady(x)'
    BY <1>0, <1>1, EpisodeBounds DEF Steady
  <2>3. Stored(x) =< n
    <3>1. CASE check[o][x].pc = "create"
      BY <1>0, <3>1 DEF Stored
    <3>2. CASE check[o][x].pc = "update"
      BY <2>1, <3>2 DEF Steady
    <3> QED BY <3>1, <3>2
  <2>4. \A e \in Releases : events[x][e] \in {0, 1} /\ ~(events[x][e] = 1 /\ n < e)
    <3> SUFFICES ASSUME NEW e \in Releases, events[x][e] = 1, n < e PROVE FALSE
      BY <2>1 DEF Logged
    <3>0. e \in Nat
      BY EpisodeBounds
    <3>1. Stored(x) < e
      BY <1>0, <2>3, <3>0
    <3>2. PICK p \in Observers : check[p][x].pc = "update" /\ check[p][x].current = e
      BY <2>1, <3>1 DEF Logged
    <3>3. p = o
      BY <1>0, <3>2
    <3> QED BY <1>0, <3>2, <3>3
  <2>5. Logged(x)'
    BY <1>0, <1>1, <2>4 DEF Logged
  <2> QED BY <2>2, <2>5
<1>5. \A e \in Releases : ~InPush(x, e)' /\ ~InPush(x, e)
  BY <1>0, <1>1, EpisodeBounds DEF InPush
<1>6. Pushed(x)'
  BY <1>0, <1>5 DEF Clean, Pushed, InPush
<1> QED BY <1>2, <1>3, <1>4, <1>6 DEF Clean

\* The mark comes before the push; the first sighting only sets the baseline.
LEMMA CleanMarks ==
  ASSUME EpisodesInv, EpisodesInv', CountsInv, NEW x \in Slugs, Clean(x), NEW o \in Observers,
         UNCHANGED <<events, announced, unsent, behind>>, Moves(o, x),
         check[o][x].pc = "mark",
         series'[x] # <<>>, series'[x][1].episode = Stored(x),
         series'[x][1].notified = check[o][x].current,
         \/ check'[o][x] = NoCheck /\ silent' = [silent EXCEPT ![x] = @ \cup {check[o][x].current}]
         \/ /\ check'[o][x].pc = "push" /\ check'[o][x].current = check[o][x].current
            /\ UNCHANGED silent
  PROVE  Clean(x)'
<1> DEFINE n == check[o][x].current
<1>1. n \in Releases \ {0} /\ n \in Nat /\ o \in Hosts
  <2>1. o # Page /\ n # 0
    BY DEF EpisodesInv, CheckSound
  <2>2. n \in Releases
    BY DEF EpisodesInv, Checks
  <2> QED BY <2>1, <2>2, EpisodeBounds DEF Observers
<1>0. /\ Stored(x)' = Stored(x) /\ Notified(x)' = n /\ Notified(x) < n /\ Notified(x) \in Nat
      /\ \A p \in Observers \ {o} : check'[p][x] = check[p][x] /\ check[p][x].pc = "none"
  <2>1. \A p \in Observers \ {o} : check'[p][x] = check[p][x] /\ check[p][x].pc = "none"
    BY DEF Moves, Clean, Alone
  <2>2. Notified(x) < n
    BY <1>1 DEF Clean, Ahead
  <2> QED BY <2>1, <2>2, StoredKinds, EpisodeBounds DEF Stored, Notified
<1>2. Alone(x)'
  BY <1>0 DEF Alone
<1>3. Ahead(x)'
  BY <1>0, <1>1, EpisodeBounds DEF Ahead
<1>4. InOrder(x)'
  BY <1>0, EpisodeBounds DEF Clean, InOrder, Steady, Logged
<1>5. \A e \in Releases : ~InPush(x, e)
  BY <1>0, EpisodeBounds DEF InPush
<1>6. announced[x][n] = 0 /\ n \notin unsent[x] /\ n \notin silent[x]
  BY <1>0, <1>1 DEF Clean, Pushed
<1>7. CASE check'[o][x] = NoCheck /\ silent' = [silent EXCEPT ![x] = @ \cup {n}]
  <2>1. \A e \in Releases : ~InPush(x, e)'
    BY <1>0, <1>7, EpisodeBounds DEF InPush
  <2>2. silent'[x] = silent[x] \cup {n}
    BY <1>7 DEF CountsInv
  <2> HIDE DEF n
  <2>3. Pushed(x)'
    <3> SUFFICES ASSUME NEW e \in Releases \ {0}
                 PROVE  /\ announced[x][e] \in {0, 1}
                        /\ announced[x][e] = 1 => e \notin unsent[x] /\ e \notin silent'[x]
                        /\ e \in unsent[x] => e \notin silent'[x]
                        /\ n = e => e \in silent'[x]
                        /\ n < e => announced[x][e] = 0 /\ e \notin unsent[x] /\ e \notin silent'[x]
      BY <1>0, <2>1 DEF Pushed, InPush
    <3>0. e \in Nat
      BY EpisodeBounds
    <3>1. e \in Nat /\ (n < e => Notified(x) < e /\ e # n)
      BY <1>0, <1>1, <3>0
    <3> QED BY <1>6, <2>2, <3>1 DEF Clean, Pushed
  <2> QED BY <1>2, <1>3, <1>4, <2>3 DEF Clean
<1>8. CASE check'[o][x].pc = "push" /\ check'[o][x].current = n /\ UNCHANGED silent
  <2>1. \A e \in Releases : InPush(x, e)' <=> e = n
    BY <1>0, <1>1, <1>8, EpisodeBounds DEF InPush
  <2> HIDE DEF n
  <2>2. Pushed(x)'
    <3> SUFFICES ASSUME NEW e \in Releases \ {0}
                 PROVE  /\ announced[x][e] \in {0, 1}
                        /\ announced[x][e] = 1 => e # n /\ e \notin unsent[x] /\ e \notin silent[x]
                        /\ e \in unsent[x] => e # n /\ e \notin silent[x]
                        /\ e = n => e \notin silent[x]
                        /\ n < e => announced[x][e] = 0 /\ e \notin unsent[x] /\ e \notin silent[x]
      <4>1. n < n => FALSE
        BY <1>1
      <4> QED BY <1>0, <1>8, <2>1, <4>1 DEF Pushed, InPush
    <3>0. e \in Nat
      BY EpisodeBounds
    <3>1. e \in Nat /\ (n < e => Notified(x) < e)
      BY <1>0, <1>1, <3>0
    <3> QED BY <1>6, <3>1 DEF Clean, Pushed
  <2> QED BY <1>2, <1>3, <1>4, <2>2 DEF Clean
<1> QED BY <1>7, <1>8

LEMMA CleanPush ==
  ASSUME EpisodesInv, EpisodesInv', CountsInv, NEW x \in Slugs, Clean(x), NEW o \in Observers,
         UNCHANGED <<series, events, unsent, silent, behind>>, Moves(o, x),
         check[o][x].pc = "push", check'[o][x] = NoCheck,
         announced' = [announced EXCEPT ![x][check[o][x].current] = UpTo2(@)]
  PROVE  Clean(x)'
<1> DEFINE n == check[o][x].current
<1>1. n \in Releases \ {0} /\ n \in Nat /\ o \in Hosts
  <2>1. o # Page /\ n # 0
    BY DEF EpisodesInv, CheckSound
  <2>2. n \in Releases
    BY DEF EpisodesInv, Checks
  <2> QED BY <2>1, <2>2, EpisodeBounds DEF Observers
<1>0. /\ Stored(x)' = Stored(x) /\ Notified(x)' = Notified(x) /\ Notified(x) = n
      /\ check'[o][x].pc = "none"
      /\ \A p \in Observers \ {o} : check'[p][x] = check[p][x] /\ check[p][x].pc = "none"
  <2>1. \A p \in Observers \ {o} : check'[p][x] = check[p][x] /\ check[p][x].pc = "none"
    BY DEF Moves, Clean, Alone
  <2>2. Notified(x) = n
    BY <1>1 DEF Clean, Ahead
  <2> QED BY <2>1, <2>2, EpisodeBounds DEF Stored, Notified
<1>2. Alone(x)'
  BY <1>0 DEF Alone
<1>3. Ahead(x)'
  BY <1>0, EpisodeBounds DEF Clean, Ahead
<1>4. InOrder(x)'
  BY <1>0 DEF Clean, InOrder, Steady, Logged
<1>5. \A e \in Releases : (InPush(x, e) <=> e = n) /\ ~InPush(x, e)'
  BY <1>0, <1>1, EpisodeBounds DEF InPush
<1>6. announced[x][n] = 0 /\ n \notin unsent[x] /\ n \notin silent[x]
  BY <1>1, <1>5 DEF Clean, Pushed
<1>7. announced'[x][n] = 1 /\ \A e \in Releases \ {n} : announced'[x][e] = announced[x][e]
  BY <1>1, <1>6 DEF CountsInv, UpTo2
<1> HIDE DEF n
<1>8. Pushed(x)'
  <2> SUFFICES ASSUME NEW e \in Releases \ {0}
               PROVE  /\ announced'[x][e] \in {0, 1}
                      /\ announced'[x][e] = 1 => e \notin unsent[x] /\ e \notin silent[x]
                      /\ e \in unsent[x] => e \notin silent[x]
                      /\ n = e => announced'[x][e] = 1 \/ e \in unsent[x] \/ e \in silent[x]
                      /\ n < e => announced'[x][e] = 0 /\ e \notin unsent[x] /\ e \notin silent[x]
    BY <1>0, <1>5 DEF Pushed, InPush
  <2>1. CASE e = n
    BY <1>1, <1>6, <1>7, <2>1
  <2>2. CASE e # n
    BY <1>0, <1>5, <1>7, <2>2 DEF Clean, Pushed
  <2> QED BY <2>1, <2>2
<1> QED BY <1>2, <1>3, <1>4, <1>8 DEF Clean

-----------------------------------------------------------------------------
(* Steps of one check.                                                     *)

LEMMA Counted ==
  ASSUME NEW f \in [Slugs -> [Releases -> 0..2]], NEW x \in Slugs, NEW n \in Releases
  PROVE  /\ [f EXCEPT ![x][n] = UpTo2(@)] \in [Slugs -> [Releases -> 0..2]]
         /\ \A y \in Slugs \ {x} : [f EXCEPT ![x][n] = UpTo2(@)][y] = f[y]
<1>1. UpTo2(f[x][n]) \in 0..2
  BY DEF UpTo2
<1>2. [f[x] EXCEPT ![n] = UpTo2(@)] \in [Releases -> 0..2]
  BY <1>1
<1> QED BY <1>2

EpisodesClean == \A x \in Slugs \ mixed : Clean(x)

\* A release that is stored, or about to be, is in the log.
Remembered(x) ==
    LET Known(e) == events[x][e] >= 1 \/ first[x] = e IN
    /\ series[x] # <<>> => Known(Stored(x))
    /\ \A o \in Observers : check[o][x].pc = "update" => Known(check[o][x].current)

Busy(h) == run[h] # "idle" \/ \E x \in Slugs : check[h][x].pc # "none"

Fresh(x) == Notified(x) =< kept[x]

\* While no run is rushed: one host is busy at a time and holds the key, and before
\* it reads the detail of a title no cache holds an older one than was announced.
Timely ==
    ~rushed =>
      /\ \A h \in Hosts : Busy(h) => locked
      /\ \A g, h \in Hosts : Busy(g) /\ Busy(h) => g = h
      /\ \A h \in Hosts : run[h] = "pick" => \A x \in Slugs : check[h][x].pc = "none"
      /\ ~locked => \A x \in Slugs \ mixed : Fresh(x)
      /\ \A h \in Hosts : run[h] = "pick" => \A x \in Slugs \ mixed : Fresh(x)
      /\ \A h \in Hosts, x \in Slugs \ mixed : check[h][x].pc = "detail" => Fresh(x)

EpisodeInv ==
    /\ EpisodesInv /\ CountsInv /\ EpisodesClean /\ Timely
    /\ \A x \in Slugs : Remembered(x)

\* No check and no run begins.
NothingBegins ==
    /\ locked' = locked /\ rushed' = rushed
    /\ \A h \in Hosts : run'[h] = "pick" => run[h] = "pick"
    /\ \A h \in Hosts : run'[h] # "idle" => run[h] # "idle"
    /\ \A h \in Hosts, x \in Slugs :
         /\ check'[h][x].pc # "none" => check[h][x].pc # "none"
         /\ check'[h][x].pc = "detail" => check[h][x].pc = "detail"

LEMMA TimelyStays ==
  ASSUME Timely, NothingBegins, mixed \subseteq mixed',
         \A x \in Slugs \ mixed' : Fresh(x) => Fresh(x)'
  PROVE  Timely'
<1> SUFFICES ASSUME ~rushed'
             PROVE  /\ \A h \in Hosts : Busy(h)' => locked'
                    /\ \A g, h \in Hosts : Busy(g)' /\ Busy(h)' => g = h
                    /\ \A h \in Hosts : run'[h] = "pick" => \A x \in Slugs : check'[h][x].pc = "none"
                    /\ ~locked' => \A x \in Slugs \ mixed' : Fresh(x)'
                    /\ \A h \in Hosts : run'[h] = "pick" => \A x \in Slugs \ mixed' : Fresh(x)'
                    /\ \A h \in Hosts, x \in Slugs \ mixed' : check'[h][x].pc = "detail" => Fresh(x)'
  BY DEF Timely
<1>1. ~rushed /\ locked' = locked
  BY DEF NothingBegins
<1>2. \A h \in Hosts : Busy(h)' => Busy(h)
  BY DEF NothingBegins, Busy
<1>3. (\A h \in Hosts : Busy(h)' => locked') /\ \A g, h \in Hosts : Busy(g)' /\ Busy(h)' => g = h
  BY <1>1, <1>2 DEF Timely
<1>4. \A h \in Hosts : run'[h] = "pick" => \A x \in Slugs : check'[h][x].pc = "none"
  BY <1>1 DEF Timely, NothingBegins
<1>5. ~locked' => \A x \in Slugs \ mixed' : Fresh(x)'
  BY <1>1 DEF Timely
<1>6. \A h \in Hosts : run'[h] = "pick" => \A x \in Slugs \ mixed' : Fresh(x)'
  BY <1>1 DEF Timely, NothingBegins
<1>7. \A h \in Hosts, x \in Slugs \ mixed' : check'[h][x].pc = "detail" => Fresh(x)'
  BY <1>1 DEF Timely, NothingBegins
<1> QED BY <1>3, <1>4, <1>5, <1>6, <1>7

\* A step of the check of one slug, which leaves the other slugs alone; the row of
\* its own may say something else of what was announced when the job takes it.
ChecksOne(o, x) ==
    /\ Moves(o, x)
    /\ \A y \in Slugs \ {x} :
         /\ series'[y] = series[y] /\ events'[y] = events[y] /\ announced'[y] = announced[y]
         /\ unsent'[y] = unsent[y] /\ silent'[y] = silent[y] /\ first'[y] = first[y]
         /\ y \in behind => y \in behind'
    /\ UNCHANGED <<upstream, kept, locked, rushed>>
    /\ mixed \subseteq mixed'
    /\ \A h \in Hosts : run'[h] \in {run[h], "idle"}
    /\ o \in Hosts => check[o][x].pc # "none" /\ check'[o][x].pc # "detail"
    /\ Notified(x)' = Notified(x) \/ o \in Hosts

LEMMA OneTimely ==
  ASSUME EpisodeInv, NEW o \in Observers, NEW x \in Slugs, ChecksOne(o, x)
  PROVE  Timely'
<1> USE DEF EpisodeInv
<1>1. NothingBegins
  BY DEF NothingBegins, ChecksOne, Moves, Observers
<1>2. \A y \in Slugs \ {x} : Fresh(y)' <=> Fresh(y)
  BY DEF ChecksOne, Fresh, Notified
<1>3. CASE Notified(x)' = Notified(x)
  <2>1. Fresh(x)' <=> Fresh(x)
    BY <1>3 DEF ChecksOne, Fresh
  <2> QED BY <1>1, <1>2, <2>1, TimelyStays DEF ChecksOne
<1>4. CASE o \in Hosts
  <2> SUFFICES ASSUME ~rushed'
               PROVE  /\ \A h \in Hosts : Busy(h)' => locked'
                      /\ \A g, h \in Hosts : Busy(g)' /\ Busy(h)' => g = h
                      /\ \A h \in Hosts : run'[h] = "pick" => \A y \in Slugs : check'[h][y].pc = "none"
                      /\ ~locked' => \A y \in Slugs \ mixed' : Fresh(y)'
                      /\ \A h \in Hosts : run'[h] = "pick" => \A y \in Slugs \ mixed' : Fresh(y)'
                      /\ \A h \in Hosts, y \in Slugs \ mixed' : check'[h][y].pc = "detail" => Fresh(y)'
    BY DEF Timely
  <2>1. ~rushed /\ locked' = locked /\ Busy(o) /\ check[o][x].pc # "none" /\ check'[o][x].pc # "detail"
    BY <1>4 DEF ChecksOne, Busy
  <2>2. \A h \in Hosts : Busy(h)' => Busy(h)
    BY <1>1 DEF NothingBegins, Busy
  <2>3. locked /\ \A h \in Hosts : run'[h] # "pick"
    <3>1. locked /\ \A h \in Hosts : run[h] = "pick" => h = o
      BY <1>4, <2>1 DEF Timely, Busy
    <3> QED BY <1>1, <1>4, <2>1, <3>1 DEF Timely, NothingBegins
  <2>4. ASSUME NEW h \in Hosts, NEW y \in Slugs \ mixed', check'[h][y].pc = "detail" PROVE Fresh(y)'
    <3>1. check[h][y].pc = "detail" /\ y \notin mixed
      BY <1>1, <2>4 DEF NothingBegins, ChecksOne
    <3>2. y # x
      <4> SUFFICES ASSUME y = x PROVE FALSE
        OBVIOUS
      <4>1. h = o
        BY <2>1, <3>1, EpisodeBounds DEF EpisodesClean, Clean, Alone
      <4> QED BY <2>1, <2>4, <4>1
    <3> QED BY <1>2, <2>1, <3>1, <3>2 DEF Timely
  <2> QED BY <2>1, <2>2, <2>3, <2>4 DEF Timely
<1> QED BY <1>3, <1>4 DEF ChecksOne

LEMMA OneChecked ==
  ASSUME EpisodeInv, EpisodesInv', CountsInv', NEW o \in Observers, NEW x \in Slugs, ChecksOne(o, x),
         x \notin mixed' /\ Clean(x) => Clean(x)', Remembered(x)'
  PROVE  EpisodeInv'
<1>1. \A y \in Slugs \ mixed' : y # x => Clean(y)'
  <2> SUFFICES ASSUME NEW y \in Slugs \ mixed', y # x PROVE Clean(y)'
    OBVIOUS
  <2>1. Clean(y)
    BY DEF EpisodeInv, EpisodesClean, ChecksOne
  <2>2. \A p \in Observers : check'[p][y] = check[p][y]
    BY DEF ChecksOne, Moves
  <2> QED BY <2>1, <2>2, CleanUntouched DEF ChecksOne, EpisodeInv
<1>2. x \notin mixed' => Clean(x)'
  BY DEF EpisodeInv, EpisodesClean, ChecksOne
<1>3. \A y \in Slugs \ mixed' : Clean(y)'
  BY <1>1, <1>2
<1>4. ASSUME NEW y \in Slugs, y # x PROVE Remembered(y)'
  <2>1. /\ series'[y] = series[y] /\ events'[y] = events[y] /\ first'[y] = first[y]
        /\ \A p \in Observers : check'[p][y] = check[p][y]
    BY <1>4 DEF ChecksOne, Moves
  <2> QED BY <2>1 DEF EpisodeInv, Remembered, Stored
<1> QED BY <1>3, <1>4, OneTimely DEF EpisodeInv, EpisodesClean

LEMMA OneSound ==
  ASSUME EpisodesInv, NEW o \in Observers, NEW x \in Slugs, Moves(o, x),
         UNCHANGED <<upstream, kept>>,
         series' \in [Slugs -> {<<>>} \cup {<<r>> : r \in StateRows}],
         run' \in [Hosts -> {"idle", "pick", "checking"}],
         \A y \in Slugs : series[y] # <<>> => series'[y] # <<>>,
         CheckSound(o, x)'
  PROVE  EpisodesInv'
BY DEF EpisodesInv, Moves, CheckSound

\* The log keeps what it says of a slug whose row and number stay.
LEMMA StillRemembered ==
  ASSUME NEW x \in Slugs, Remembered(x), NEW o \in Observers, Moves(o, x),
         UNCHANGED <<series, events, first>>,
         check'[o][x].pc # "update"
  PROVE  Remembered(x)'
<1>1. \A p \in Observers \ {o} : check'[p][x] = check[p][x]
  BY DEF Moves
<1> QED BY <1>1 DEF Remembered, Stored

LEMMA NoCheckSound ==
  ASSUME NEW o, NEW x, check'[o][x] = NoCheck
  PROVE  CheckSound(o, x)'
BY EpisodeBounds DEF CheckSound

\* What the job reads is not older than what it announced, in a run that is not rushed.
LEMMA DetailInv ==
  ASSUME EpisodeInv, NEW h \in Hosts, NEW x \in Slugs, Detail(h, x)
  PROVE  EpisodeInv'
<1> USE DEF EpisodeInv
<1>0. /\ check[h][x].pc = "detail" /\ h \in Observers
      /\ UNCHANGED <<upstream, kept, series, events, first, locked, run, announced, unsent, silent,
                     behind, rushed>>
  BY EpisodeBounds DEF Detail, CheckAt, sources
<1>1. PICK e \in Answers(x) :
        /\ IF x \in Films THEN EndCheck(h, x)
           ELSE check' = [check EXCEPT ![h][x] = [@ EXCEPT !.pc = "find", !.current = e]]
        /\ mixed' = IF rushed /\ e < Notified(x) THEN mixed \cup {x} ELSE mixed
  BY Zenon DEF Detail
<1>2. CountsInv' /\ mixed \subseteq mixed' /\ Notified(x)' = Notified(x)
  BY <1>0, <1>1 DEF CountsInv, Notified
<1>3. CASE x \in Films
  <2>1. Moves(h, x) /\ check'[h][x] = NoCheck
    BY <1>0, <1>1, <1>3, EndCheckMoves
  <2>2. EpisodesInv'
    BY <1>0, <2>1, NoCheckSound, OneSound DEF EpisodesInv
  <2>3. Clean(x) => Clean(x)'
    BY <1>0, <2>1, <2>2, CleanEnds DEF Moves
  <2>4. Remembered(x)'
    BY <1>0, <2>1, EpisodeBounds, StillRemembered
  <2> QED BY <1>0, <1>2, <2>1, <2>2, <2>3, <2>4, EpisodeBounds, OneChecked DEF ChecksOne
<1>4. CASE x \notin Films
  <2> DEFINE i == [check[h][x] EXCEPT !.pc = "find", !.current = e]
  <2>1. check[h][x] \in Checks
    BY <1>0 DEF EpisodesInv
  <2>2. e \in Releases \ {0} /\ e \in Nat /\ kept[x] =< e /\ kept[x] \in Nat
    <3>1. upstream[x] \in Releases /\ kept[x] \in Releases /\ kept[x] # 0
      BY DEF EpisodesInv
    <3> QED BY <3>1, EpisodeBounds DEF Answers, Releases
  <2>3. i \in Checks /\ i.pc = "find" /\ i.current = e
    BY <2>1, <2>2 DEF Checks, CheckPcs
  <2>4. check' = [check EXCEPT ![h][x] = i]
    BY <1>1, <1>4
  <2> HIDE DEF i
  <2>5. Moves(h, x) /\ check'[h][x] = i
    BY <1>0, <2>3, <2>4, CheckMoves
  <2>6. CheckSound(h, x)'
    BY <2>2, <2>3, <2>5 DEF CheckSound
  <2>7. EpisodesInv'
    BY <1>0, <2>5, <2>6, OneSound DEF EpisodesInv
  <2>8. x \notin mixed' => Notified(x) =< e
    <3> SUFFICES ASSUME x \notin mixed' PROVE Notified(x) =< e
      OBVIOUS
    <3>0. Notified(x) \in Nat
      BY StoredKinds, EpisodeBounds
    <3>1. CASE rushed
      BY <1>1, <2>2, <3>0, <3>1
    <3>2. CASE ~rushed
      <4>1. Notified(x) =< kept[x]
        BY <1>0, <1>2, <3>2 DEF Timely, Fresh
      <4> QED BY <2>2, <3>0, <4>1
    <3> QED BY <3>1, <3>2
  <2>9. x \notin mixed' /\ Clean(x) => Clean(x)'
    BY <1>0, <2>3, <2>5, <2>7, <2>8, CleanGoesOn
  <2>10. Remembered(x)'
    BY <1>0, <2>3, <2>5, StillRemembered
  <2> QED BY <1>0, <1>2, <2>3, <2>5, <2>7, <2>9, <2>10, OneChecked DEF ChecksOne
<1> QED BY <1>3, <1>4

LEMMA ObserveFindInv ==
  ASSUME EpisodeInv, NEW o \in Observers, NEW x \in Slugs, ObserveFind(o, x)
  PROVE  EpisodeInv'
<1> USE DEF EpisodeInv
<1> DEFINE pc == IF series[x] = <<>> THEN "create"
                 ELSE IF series[x][1].episode # check[o][x].current THEN "event" ELSE "update"
<1>0. /\ check[o][x].pc = "find" /\ CheckGoto(o, x, pc)
      /\ behind' = IF series[x] # <<>> /\ check[o][x].current < series[x][1].episode
                   THEN behind \cup {x} ELSE behind
      /\ UNCHANGED <<upstream, kept, series, events, first, locked, run, announced, unsent, silent,
                     mixed, rushed>>
  BY DEF ObserveFind, CheckAt, CheckGoto, sources
<1>1. CountsInv'
  BY <1>0 DEF CountsInv
<1>2. pc \in CheckPcs /\ pc \in {"create", "event", "update"}
  BY DEF CheckPcs
<1>3. pc = "create" => series[x] = <<>>
  OBVIOUS
<1>4. pc = "event" => series[x] # <<>> /\ series[x][1].episode # check[o][x].current
  OBVIOUS
<1>5. pc = "update" => series[x] # <<>> /\ series[x][1].episode = check[o][x].current
  OBVIOUS
<1> HIDE DEF pc
<1>6. /\ Moves(o, x) /\ check'[o][x].pc = pc
      /\ check'[o][x].current = check[o][x].current
  BY <1>0, <1>2, CheckGotoMoves
<1>7. CheckSound(o, x)'
  BY <1>0, <1>2, <1>4, <1>5, <1>6 DEF EpisodesInv, CheckSound
<1>8. EpisodesInv'
  BY <1>0, <1>6, <1>7, OneSound DEF EpisodesInv
<1>9. x \notin behind' => Stored(x) =< check[o][x].current
  <2>1. check[o][x] \in Checks
    BY DEF EpisodesInv
  <2>2. check[o][x].current \in Nat
    BY <2>1, EpisodeBounds DEF Checks
  <2>3. Stored(x) \in Nat
    BY StoredKinds, EpisodeBounds
  <2> QED BY <1>0, <2>2, <2>3 DEF Stored
<1>10. \A y \in Slugs : y \in behind => y \in behind'
  BY <1>0
<1>11. Clean(x) => Clean(x)'
  BY <1>0, <1>2, <1>3, <1>4, <1>5, <1>6, <1>8, <1>9, <1>10, CleanGoesOn
<1>12. Remembered(x)'
  <2>1. \A p \in Observers \ {o} : check'[p][x] = check[p][x]
    BY <1>6 DEF Moves
  <2>2. pc = "update" => Stored(x) = check[o][x].current
    BY <1>5 DEF Stored
  <2> QED BY <1>0, <1>5, <1>6, <2>1, <2>2 DEF Remembered, Stored
<1>13. Notified(x)' = Notified(x)
  BY <1>0 DEF Notified
<1> QED BY <1>0, <1>1, <1>2, <1>6, <1>8, <1>10, <1>11, <1>12, <1>13, OneChecked DEF ChecksOne

LEMMA ObserveCreateInv ==
  ASSUME EpisodeInv, NEW o \in Observers, NEW x \in Slugs, ObserveCreate(o, x)
  PROVE  EpisodeInv'
<1> USE DEF EpisodeInv
<1>0. /\ check[o][x].pc = "create"
      /\ UNCHANGED <<upstream, kept, events, locked, announced, unsent, silent, mixed, behind, rushed>>
  BY DEF ObserveCreate, CheckAt, sources, excuses
<1>2. CASE series[x] = <<>>
  <2> DEFINE r == [episode |-> check[o][x].current, notified |-> 0]
  <2>1. check[o][x].current \in Releases \ {0}
    BY <1>0 DEF EpisodesInv, Checks, CheckSound
  <2>2. r \in StateRows /\ r.episode = check[o][x].current /\ r.notified = 0
    BY <2>1, EpisodeBounds DEF StateRows
  <2>3. /\ series' = [series EXCEPT ![x] = <<r>>] /\ Observed(o, x, 0) /\ UNCHANGED run
        /\ first' = [first EXCEPT ![x] = check[o][x].current]
    BY <1>2 DEF ObserveCreate
  <2> HIDE DEF r
  <2>4. Stores(x, check[o][x].current, 0)
    BY <2>2, <2>3, RowStored
  <2>5. /\ Moves(o, x)
        /\ \/ (o = Page \/ 0 = check[o][x].current) /\ check'[o][x] = NoCheck
           \/ /\ o # Page /\ 0 # check[o][x].current
              /\ check'[o][x].pc = "mark" /\ check'[o][x].current = check[o][x].current
              /\ check'[o][x].prev = 0
    BY <2>3, EpisodeBounds, ObservedMoves
  <2>6. CheckSound(o, x)'
    BY <2>4, <2>5, NoCheckSound DEF CheckSound, Stores
  <2>7. EpisodesInv'
    BY <1>0, <2>3, <2>4, <2>5, <2>6, OneSound DEF EpisodesInv, Stores
  <2>8. Notified(x) = 0 /\ Notified(x)' = Notified(x)
    BY <1>2, <2>4 DEF Notified, Stores
  <2>9. Clean(x) => Clean(x)'
    BY <1>0, <1>2, <2>4, <2>5, <2>7, <2>8, CleanStores DEF Stores
  <2>10. /\ CountsInv' /\ first'[x] = check[o][x].current
         /\ \A y \in Slugs \ {x} : first'[y] = first[y]
    BY <1>0, <2>1, <2>3 DEF CountsInv
  <2>11. Remembered(x)'
    <3>1. \A p \in Observers \ {o} : check'[p][x] = check[p][x] /\ check[p][x].pc # "update"
      BY <1>2, <2>5 DEF Moves, EpisodesInv, CheckSound
    <3>2. check'[o][x].pc # "update"
      BY <2>5, EpisodeBounds
    <3>3. Stored(x)' = check[o][x].current
      BY <2>4 DEF Stored, Stores
    <3> QED BY <2>10, <3>1, <3>2, <3>3 DEF Remembered
  <2>12. check'[o][x].pc # "detail"
    BY <2>5, EpisodeBounds
  <2> QED BY <1>0, <2>3, <2>4, <2>5, <2>7, <2>8, <2>9, <2>10, <2>11, <2>12, OneChecked
          DEF ChecksOne, Stores
<1>3. CASE series[x] # <<>>
  <2>1. EndCheck(o, x) /\ UNCHANGED <<series, first>>
        /\ run' = IF o \in Hosts THEN [run EXCEPT ![o] = "idle"] ELSE run
    BY <1>3 DEF ObserveCreate
  <2>2. Moves(o, x) /\ check'[o][x] = NoCheck
    BY <2>1, EndCheckMoves
  <2>3. /\ run' \in [Hosts -> {"idle", "pick", "checking"}]
        /\ \A h \in Hosts : run'[h] \in {run[h], "idle"}
    BY <2>1 DEF EpisodesInv
  <2>4. EpisodesInv'
    BY <1>0, <2>1, <2>2, <2>3, NoCheckSound, OneSound DEF EpisodesInv
  <2>5. Clean(x) => Clean(x)'
    BY <1>0, <2>1, <2>2, <2>4, CleanEnds DEF Moves
  <2>6. CountsInv' /\ Notified(x)' = Notified(x)
    BY <1>0, <2>1 DEF CountsInv, Notified
  <2>7. Remembered(x)'
    BY <1>0, <2>1, <2>2, EpisodeBounds, StillRemembered
  <2> QED BY <1>0, <2>1, <2>2, <2>3, <2>4, <2>5, <2>6, <2>7, EpisodeBounds, OneChecked DEF ChecksOne
<1> QED BY <1>2, <1>3

LEMMA ObserveEventInv ==
  ASSUME EpisodeInv, NEW o \in Observers, NEW x \in Slugs, ObserveEvent(o, x)
  PROVE  EpisodeInv'
<1> USE DEF EpisodeInv
<1>0. /\ check[o][x].pc = "event" /\ CheckGoto(o, x, "update")
      /\ events' = [events EXCEPT ![x][check[o][x].current] = UpTo2(@)]
      /\ UNCHANGED <<upstream, kept, series, first, locked, run, announced, unsent, silent, mixed,
                     behind, rushed>>
  BY DEF ObserveEvent, CheckAt, sources, excuses
<1>1. CountsInv' /\ \A y \in Slugs \ {x} : events'[y] = events[y]
  <2> DEFINE n == check[o][x].current
  <2>1. n \in Releases /\ events \in [Slugs -> [Releases -> 0..2]]
    BY DEF EpisodesInv, CountsInv, Checks
  <2>2. events' = [events EXCEPT ![x][n] = UpTo2(@)]
    BY <1>0
  <2> HIDE DEF n
  <2>3. /\ events' \in [Slugs -> [Releases -> 0..2]]
        /\ \A y \in Slugs \ {x} : events'[y] = events[y]
    BY <2>1, <2>2, Counted
  <2> QED BY <1>0, <2>3 DEF CountsInv
<1>2. /\ Moves(o, x) /\ check'[o][x].pc = "update"
      /\ check'[o][x].current = check[o][x].current
  BY <1>0, CheckGotoMoves DEF CheckPcs
<1>3. CheckSound(o, x)'
  BY <1>0, <1>2 DEF EpisodesInv, CheckSound
<1>4. EpisodesInv'
  BY <1>0, <1>2, <1>3, OneSound DEF EpisodesInv
<1>5. Clean(x) => Clean(x)'
  BY <1>0, <1>2, <1>4, CleanEvent
<1>6. Remembered(x)'
  <2> DEFINE n == check[o][x].current
  <2>1. n \in Releases /\ events \in [Slugs -> [Releases -> 0..2]]
    BY DEF EpisodesInv, CountsInv, Checks
  <2>2. \A e \in Releases : events'[x][e] = IF e = n THEN UpTo2(events[x][e]) ELSE events[x][e]
    BY <1>0, <2>1
  <2>3. /\ \A e \in Releases : events[x][e] >= 1 => events'[x][e] >= 1
        /\ events'[x][n] >= 1
    <3>1. \A e \in Releases : events[x][e] \in 0..2
      BY <2>1
    <3> QED BY <2>1, <2>2, <3>1 DEF UpTo2
  <2>4. \A p \in Observers \ {o} : check'[p][x] = check[p][x]
    BY <1>2 DEF Moves
  <2>5. \A p \in Observers : check[p][x].current \in Releases
    BY DEF EpisodesInv, Checks
  <2>6. check'[o][x].current = n
    BY <1>2
  <2> HIDE DEF n
  <2>7. Stored(x)' = Stored(x) /\ Stored(x) \in Releases
    BY <1>0, StoredKinds DEF Stored
  <2> QED BY <1>0, <2>3, <2>4, <2>5, <2>6, <2>7 DEF Remembered
<1>7. Notified(x)' = Notified(x)
  BY <1>0 DEF Notified
<1> QED BY <1>0, <1>1, <1>2, <1>4, <1>5, <1>6, <1>7, OneChecked DEF ChecksOne

LEMMA ObserveUpdateInv ==
  ASSUME EpisodeInv, NEW o \in Observers, NEW x \in Slugs, ObserveUpdate(o, x)
  PROVE  EpisodeInv'
<1> USE DEF EpisodeInv
<1>0. /\ check[o][x].pc = "update" /\ series[x] # <<>>
      /\ series' = [series EXCEPT ![x][1].episode = check[o][x].current]
      /\ Observed(o, x, series[x][1].notified)
      /\ UNCHANGED <<upstream, kept, events, first, locked, run, announced, unsent, silent, mixed,
                     behind, rushed>>
  BY DEF sources, excuses, ObserveUpdate, CheckAt, EpisodesInv, CheckSound
<1>1. CountsInv'
  BY <1>0 DEF CountsInv
<1>2. check[o][x].current \in Releases \ {0}
  BY <1>0 DEF EpisodesInv, Checks, CheckSound
<1>3. Stores(x, check[o][x].current, series[x][1].notified)
  BY <1>0, <1>2, EpisodeStored
<1>4. Notified(x) = series[x][1].notified /\ Notified(x) \in Releases
  BY <1>0, StoredKinds DEF Notified
<1>5. /\ Moves(o, x)
      /\ \/ (o = Page \/ Notified(x) = check[o][x].current) /\ check'[o][x] = NoCheck
         \/ /\ o # Page /\ Notified(x) # check[o][x].current
            /\ check'[o][x].pc = "mark" /\ check'[o][x].current = check[o][x].current
            /\ check'[o][x].prev = Notified(x)
  BY <1>0, <1>4, ObservedMoves
<1>6. CheckSound(o, x)'
  BY <1>2, <1>3, <1>5, NoCheckSound DEF CheckSound, Stores
<1>7. EpisodesInv'
  BY <1>0, <1>3, <1>5, <1>6, OneSound DEF EpisodesInv, Stores
<1>8. Clean(x) => Clean(x)'
  BY <1>0, <1>3, <1>4, <1>5, <1>7, CleanStores DEF Stores
<1>9. Notified(x)' = Notified(x) /\ Stored(x)' = check[o][x].current
  BY <1>3, <1>4 DEF Notified, Stored, Stores
<1>10. check'[o][x].pc \notin {"update", "detail"}
  BY <1>5, EpisodeBounds
<1>11. Remembered(x)'
  <2>1. \A p \in Observers \ {o} : check'[p][x] = check[p][x]
    BY <1>5 DEF Moves
  <2> QED BY <1>0, <1>9, <1>10, <2>1 DEF Remembered
<1> QED BY <1>0, <1>1, <1>3, <1>5, <1>7, <1>8, <1>9, <1>10, <1>11, OneChecked DEF ChecksOne, Stores

LEMMA MarkNotifiedInv ==
  ASSUME EpisodeInv, NEW h \in Hosts, NEW x \in Slugs, MarkNotified(h, x)
  PROVE  EpisodeInv'
<1> USE DEF EpisodeInv
<1> DEFINE n == check[h][x].current
<1>0. /\ check[h][x].pc = "mark" /\ h \in Observers /\ series[x] # <<>>
      /\ series' = [series EXCEPT ![x][1].notified = n]
      /\ \/ EndCheck(h, x) /\ silent' = [silent EXCEPT ![x] = @ \cup {n}]
         \/ CheckGoto(h, x, "push") /\ UNCHANGED silent
      /\ UNCHANGED <<upstream, kept, events, first, locked, run, announced, unsent, mixed, behind,
                     rushed>>
  BY EpisodeBounds DEF sources, excuses, MarkNotified, CheckAt, EpisodesInv, CheckSound
<1>1. n \in Releases
  BY <1>0 DEF EpisodesInv, Checks
<1>2. CountsInv'
  BY <1>0, <1>1 DEF CountsInv
<1>3. Stores(x, series[x][1].episode, n)
  BY <1>0, <1>1, NotifiedStored
<1>4. \/ Moves(h, x) /\ check'[h][x] = NoCheck /\ silent' = [silent EXCEPT ![x] = @ \cup {n}]
      \/ Moves(h, x) /\ check'[h][x].pc = "push" /\ check'[h][x].current = n /\ UNCHANGED silent
  BY <1>0, EndCheckMoves, CheckGotoMoves DEF CheckPcs
<1>5. CheckSound(h, x)'
  <2>1. n # 0 /\ h # Page
    BY <1>0 DEF EpisodesInv, CheckSound
  <2> QED BY <1>3, <1>4, <2>1, NoCheckSound DEF CheckSound, Stores
<1>6. EpisodesInv'
  BY <1>0, <1>3, <1>4, <1>5, OneSound DEF EpisodesInv, Stores
<1>7. Stored(x) = series[x][1].episode
  BY <1>0 DEF Stored
<1>8. Clean(x) => Clean(x)'
  BY <1>0, <1>3, <1>4, <1>6, <1>7, CleanMarks DEF Stores
<1>9. \A y \in Slugs \ {x} : silent'[y] = silent[y]
  BY <1>4 DEF CountsInv
<1>10. check'[h][x].pc \notin {"update", "detail"}
  BY <1>4, EpisodeBounds
<1>11. Remembered(x)'
  <2>1. \A p \in Observers \ {h} : check'[p][x] = check[p][x]
    BY <1>4 DEF Moves
  <2>2. Stored(x)' = Stored(x)
    BY <1>3, <1>7 DEF Stored, Stores
  <2> QED BY <1>0, <1>10, <2>1, <2>2 DEF Remembered
<1> QED BY <1>0, <1>2, <1>3, <1>4, <1>6, <1>8, <1>9, <1>10, <1>11, OneChecked DEF ChecksOne, Stores

LEMMA PushStep ==
  ASSUME EpisodeInv, NEW h \in Hosts, NEW x \in Slugs, Push(h, x)
  PROVE  EpisodeInv'
<1> USE DEF EpisodeInv
<1>0. /\ check[h][x].pc = "push" /\ h \in Observers /\ EndCheck(h, x)
      /\ announced' = [announced EXCEPT ![x][check[h][x].current] = UpTo2(@)]
      /\ UNCHANGED <<upstream, kept, series, events, first, locked, run, unsent, silent, mixed, behind,
                     rushed>>
  BY EpisodeBounds DEF Push, CheckAt, sources, excuses
<1>1. CountsInv' /\ \A y \in Slugs \ {x} : announced'[y] = announced[y]
  <2> DEFINE n == check[h][x].current
  <2>1. n \in Releases /\ announced \in [Slugs -> [Releases -> 0..2]]
    BY <1>0 DEF EpisodesInv, CountsInv, Checks
  <2>2. announced' = [announced EXCEPT ![x][n] = UpTo2(@)]
    BY <1>0
  <2> HIDE DEF n
  <2>3. /\ announced' \in [Slugs -> [Releases -> 0..2]]
        /\ \A y \in Slugs \ {x} : announced'[y] = announced[y]
    BY <2>1, <2>2, Counted
  <2> QED BY <1>0, <2>3 DEF CountsInv
<1>2. Moves(h, x) /\ check'[h][x] = NoCheck
  BY <1>0, EndCheckMoves
<1>3. EpisodesInv'
  BY <1>0, <1>2, NoCheckSound, OneSound DEF EpisodesInv
<1>4. Clean(x) => Clean(x)'
  BY <1>0, <1>2, <1>3, CleanPush
<1>5. Remembered(x)' /\ Notified(x)' = Notified(x)
  BY <1>0, <1>2, EpisodeBounds, StillRemembered DEF Notified
<1> QED BY <1>0, <1>1, <1>2, <1>3, <1>4, <1>5, EpisodeBounds, OneChecked DEF ChecksOne

-----------------------------------------------------------------------------
(* Steps that begin or end checks, and the rest.                           *)

\* Steps that touch no check and no row.
LEMMA ChecksRest ==
  ASSUME EpisodeInv, Timely',
         upstream' \in [Slugs -> Releases \ {0}], kept' \in [Slugs -> Releases \ {0}],
         \A y \in Slugs : kept'[y] =< upstream'[y],
         run' \in [Hosts -> {"idle", "pick", "checking"}], mixed \subseteq mixed',
         UNCHANGED <<series, events, first, check, announced, unsent, silent, behind>>
  PROVE  EpisodeInv'
<1> USE DEF EpisodeInv
<1>1. EpisodesInv' /\ CountsInv'
  BY DEF EpisodesInv, CountsInv, CheckSound
<1>2. \A y \in Slugs \ mixed' : Clean(y)'
  BY <1>1, CleanUntouched DEF EpisodesClean
<1>3. \A y \in Slugs : Remembered(y)'
  BY DEF Remembered, Stored
<1> QED BY <1>1, <1>2, <1>3 DEF EpisodesClean

LEMMA NumbersOf ==
  ASSUME EpisodesInv, NEW y \in Slugs
  PROVE  /\ upstream[y] \in 1..LastRelease /\ kept[y] \in 1..LastRelease /\ kept[y] =< upstream[y]
         /\ Notified(y) \in Nat
<1>1. upstream[y] \in Releases \ {0} /\ kept[y] \in Releases \ {0} /\ kept[y] =< upstream[y]
  BY DEF EpisodesInv
<1> QED BY <1>1, StoredKinds, EpisodeBounds DEF Releases

LEMMA ReleaseInv ==
  ASSUME EpisodeInv, NEW x \in Slugs, Release(x)
  PROVE  EpisodeInv'
<1> USE DEF EpisodeInv
<1>0. /\ upstream[x] < LastRelease /\ upstream' = [upstream EXCEPT ![x] = @ + 1]
      /\ UNCHANGED <<kept, series, events, first, locked, run, check, announced, unsent, silent, mixed,
                     behind, rushed>>
  BY DEF Release, excuses
<1>1. upstream[x] + 1 \in Releases \ {0}
  BY <1>0, NumbersOf, EpisodeBounds DEF Releases
<1>2. upstream' \in [Slugs -> Releases \ {0}] /\ \A y \in Slugs : kept'[y] =< upstream'[y]
  <2>1. upstream' \in [Slugs -> Releases \ {0}]
    BY <1>0, <1>1 DEF EpisodesInv
  <2>2. ASSUME NEW y \in Slugs PROVE kept[y] =< upstream'[y]
    <3>1. upstream'[y] = IF y = x THEN upstream[y] + 1 ELSE upstream[y]
      BY <1>0 DEF EpisodesInv
    <3> QED BY <3>1, NumbersOf, EpisodeBounds
  <2> QED BY <1>0, <2>1, <2>2
<1>3. Timely'
  BY <1>0, TimelyStays DEF NothingBegins, Fresh, Notified
<1> QED BY <1>0, <1>2, <1>3, ChecksRest DEF EpisodesInv

LEMMA ForgetInv ==
  ASSUME EpisodeInv, NEW x \in Slugs, Forget(x)
  PROVE  EpisodeInv'
<1> USE DEF EpisodeInv
<1>0. /\ kept[x] < upstream[x] /\ kept' = [kept EXCEPT ![x] = @ + 1]
      /\ UNCHANGED <<upstream, series, events, first, locked, run, check, announced, unsent, silent,
                     mixed, behind, rushed>>
  BY DEF Forget, excuses
<1>1. kept[x] + 1 \in Releases \ {0} /\ kept[x] + 1 =< upstream[x]
  BY <1>0, NumbersOf, EpisodeBounds DEF Releases
<1>2. /\ kept' \in [Slugs -> Releases \ {0}]
      /\ \A y \in Slugs : kept'[y] = IF y = x THEN kept[y] + 1 ELSE kept[y]
  BY <1>0, <1>1 DEF EpisodesInv
<1>3. \A y \in Slugs : kept'[y] =< upstream'[y]
  BY <1>0, <1>1, <1>2 DEF EpisodesInv
<1>4. ASSUME NEW y \in Slugs, Fresh(y) PROVE Fresh(y)'
  <2>1. Notified(y)' = Notified(y)
    BY <1>0 DEF Notified
  <2> QED BY <1>2, <1>4, <2>1, NumbersOf, EpisodeBounds DEF Fresh
<1>5. Timely'
  BY <1>0, <1>4, TimelyStays DEF NothingBegins
<1> QED BY <1>0, <1>2, <1>3, <1>5, ChecksRest DEF EpisodesInv

LEMMA OtherSourceInv ==
  ASSUME EpisodeInv, NEW x \in Slugs, OtherSource(x)
  PROVE  EpisodeInv'
<1> USE DEF EpisodeInv
<1>0. /\ kept[x] > 1 /\ kept' = [kept EXCEPT ![x] = @ - 1] /\ mixed' = mixed \cup {x}
      /\ UNCHANGED <<upstream, series, events, first, locked, run, check, announced, unsent, silent,
                     behind, rushed>>
  BY DEF OtherSource
<1>1. kept[x] - 1 \in Releases \ {0} /\ kept[x] - 1 =< upstream[x]
  BY <1>0, NumbersOf, EpisodeBounds DEF Releases
<1>2. /\ kept' \in [Slugs -> Releases \ {0}]
      /\ \A y \in Slugs : kept'[y] = IF y = x THEN kept[y] - 1 ELSE kept[y]
  BY <1>0, <1>1 DEF EpisodesInv
<1>3. \A y \in Slugs : kept'[y] =< upstream'[y]
  BY <1>0, <1>1, <1>2 DEF EpisodesInv
<1>4. \A y \in Slugs \ mixed' : Fresh(y) => Fresh(y)'
  BY <1>0, <1>2 DEF Fresh, Notified
<1>5. Timely'
  BY <1>0, <1>4, TimelyStays DEF NothingBegins
<1> QED BY <1>0, <1>2, <1>3, <1>5, ChecksRest DEF EpisodesInv

\* The key is set when nobody is busy, and it went when no older detail was left.
LEMMA JobTickInv ==
  ASSUME EpisodeInv, NEW h \in Hosts, JobTick(h)
  PROVE  EpisodeInv'
<1> USE DEF EpisodeInv
<1>0. /\ run[h] = "idle" /\ run' = [run EXCEPT ![h] = "pick"]
      /\ \/ ~locked /\ locked' = TRUE /\ rushed' = rushed
         \/ rushed' = TRUE
      /\ UNCHANGED <<upstream, kept, series, events, first, check, announced, unsent, silent, mixed,
                     behind>>
  BY DEF JobTick, sources
<1>1. /\ run' \in [Hosts -> {"idle", "pick", "checking"}] /\ run'[h] = "pick"
      /\ \A g \in Hosts \ {h} : run'[g] = run[g]
  BY <1>0 DEF EpisodesInv
<1>2. Timely'
  <2>1. CASE rushed' = TRUE
    BY <2>1 DEF Timely
  <2>2. CASE ~locked /\ locked' = TRUE /\ rushed' = rushed
    <3> SUFFICES ASSUME ~rushed
                 PROVE  /\ \A k \in Hosts : Busy(k)' => locked'
                        /\ \A g, k \in Hosts : Busy(g)' /\ Busy(k)' => g = k
                        /\ \A k \in Hosts : run'[k] = "pick" => \A x \in Slugs : check'[k][x].pc = "none"
                        /\ ~locked' => \A x \in Slugs \ mixed' : Fresh(x)'
                        /\ \A k \in Hosts : run'[k] = "pick" => \A x \in Slugs \ mixed' : Fresh(x)'
                        /\ \A k \in Hosts, x \in Slugs \ mixed' : check'[k][x].pc = "detail" => Fresh(x)'
      BY <2>2 DEF Timely
    <3>1. \A k \in Hosts : ~Busy(k)
      BY <2>2 DEF Timely
    <3>2. \A k \in Hosts, x \in Slugs : check'[k][x].pc = "none"
      BY <1>0, <3>1 DEF Busy
    <3>3. \A k \in Hosts : Busy(k)' => k = h
      BY <1>1, <3>1, <3>2 DEF Busy
    <3>4. \A x \in Slugs \ mixed : Fresh(x)
      BY <2>2 DEF Timely
    <3>5. \A x \in Slugs \ mixed' : Fresh(x)'
      BY <1>0, <3>4 DEF Fresh, Notified
    <3> QED BY <2>2, <3>2, <3>3, <3>5
  <2> QED BY <1>0, <2>1, <2>2
<1> QED BY <1>0, <1>1, <1>2, ChecksRest DEF EpisodesInv

LEMMA LockExpiresInv ==
  ASSUME EpisodeInv, LockExpires
  PROVE  EpisodeInv'
<1> USE DEF EpisodeInv
<1>0. /\ \/ /\ \A h \in Hosts : run[h] = "idle" /\ \A x \in Slugs : check[h][x] = NoCheck
            /\ \A x \in Slugs : kept[x] >= Notified(x)
            /\ rushed' = rushed
         \/ rushed' = TRUE
      /\ UNCHANGED <<upstream, kept, series, events, first, run, check, announced, unsent, silent,
                     mixed, behind>>
  BY DEF LockExpires, sources
<1>1. Timely'
  <2>1. CASE rushed' = TRUE
    BY <2>1 DEF Timely
  <2>2. CASE /\ \A h \in Hosts : run[h] = "idle" /\ \A x \in Slugs : check[h][x] = NoCheck
             /\ \A x \in Slugs : kept[x] >= Notified(x)
    <3>1. \A h \in Hosts : run'[h] = "idle" /\ \A x \in Slugs : check'[h][x].pc = "none"
      BY <1>0, <2>2, EpisodeBounds
    <3>2. \A h \in Hosts : ~Busy(h)'
      BY <3>1 DEF Busy
    <3>3. \A x \in Slugs : Fresh(x)
      BY <2>2, NumbersOf DEF Fresh
    <3>4. \A x \in Slugs : Fresh(x)'
      BY <1>0, <3>3 DEF Fresh, Notified
    <3> QED BY <3>1, <3>2, <3>4 DEF Timely
  <2> QED BY <1>0, <2>1, <2>2
<1> QED BY <1>0, <1>1, ChecksRest DEF EpisodesInv

LEMMA IdleChecks ==
  ASSUME EpisodesInv, NEW o \in Observers, NEW x \in Slugs, check[o][x] = NoCheck
  PROVE  check[o][x].pc = "none"
BY EpisodeBounds

LEMMA PickInv ==
  ASSUME EpisodeInv, NEW h \in Hosts, Pick(h)
  PROVE  EpisodeInv'
<1> USE DEF EpisodeInv
<1> DEFINE d == [NoCheck EXCEPT !.pc = "detail"]
<1>0. PICK s \in SUBSET Slugs :
        /\ run[h] = "pick" /\ \A x \in Slugs : check[h][x] = NoCheck
        /\ check' = [check EXCEPT ![h] = [x \in Slugs |-> IF x \in s THEN d ELSE NoCheck]]
        /\ mixed' = mixed \cup Overlapping(h, s)
        /\ run' = [run EXCEPT ![h] = "checking"]
        /\ UNCHANGED <<upstream, kept, series, events, first, locked, announced, unsent, silent,
                       behind, rushed>>
  BY DEF Pick, Picks, sources
<1>1. d \in Checks /\ d.pc = "detail" /\ h \in Observers
  BY EpisodeBounds DEF NoCheck, Checks, CheckPcs
<1> HIDE DEF d
<1>2. /\ check' \in [Observers -> [Slugs -> Checks]]
      /\ \A x \in Slugs : check'[h][x] = IF x \in s THEN d ELSE NoCheck
      /\ \A p \in Observers \ {h}, x \in Slugs : check'[p][x] = check[p][x]
      /\ run' \in [Hosts -> {"idle", "pick", "checking"}] /\ run'[h] = "checking"
      /\ \A g \in Hosts \ {h} : run'[g] = run[g]
  BY <1>0, <1>1, EpisodeBounds DEF EpisodesInv
<1>3. \A o \in Observers, x \in Slugs : CheckSound(o, x)'
  BY <1>0, <1>1, <1>2, EpisodeBounds DEF EpisodesInv, CheckSound
<1>4. EpisodesInv' /\ CountsInv'
  BY <1>0, <1>2, <1>3 DEF EpisodesInv, CountsInv
<1>5. \A y \in Slugs \ mixed' : Clean(y)'
  <2> SUFFICES ASSUME NEW y \in Slugs \ mixed' PROVE Clean(y)'
    OBVIOUS
  <2>1. Clean(y)
    BY <1>0 DEF EpisodesClean
  <2>2. check[h][y].pc = "none"
    BY <1>0, EpisodeBounds
  <2>3. CASE y \in s
    <3>1. \A p \in Observers \ {h} : check[p][y] = NoCheck
      BY <1>0, <2>3 DEF Overlapping
    <3>2. \A p \in Observers \ {h} : check'[p][y] = check[p][y] /\ check[p][y].pc = "none"
      BY <1>2, <3>1, EpisodeBounds
    <3>3. check'[h][y].pc = "detail"
      BY <1>1, <1>2, <2>3
    <3> QED BY <1>0, <1>1, <1>4, <2>1, <2>2, <3>2, <3>3, CleanBegins
  <2>4. CASE y \notin s
    <3>1. \A p \in Observers : check'[p][y] = check[p][y]
      BY <1>0, <1>2, <2>4
    <3> QED BY <1>0, <1>4, <2>1, <3>1, CleanUntouched
  <2> QED BY <2>3, <2>4
<1>6. \A y \in Slugs : Remembered(y)'
  <2> SUFFICES ASSUME NEW y \in Slugs PROVE Remembered(y)'
    OBVIOUS
  <2>1. check'[h][y].pc # "update"
    BY <1>1, <1>2, EpisodeBounds
  <2> QED BY <1>0, <1>2, <2>1 DEF Remembered, Stored
<1>7. Timely'
  <2> SUFFICES ASSUME ~rushed
               PROVE  /\ \A k \in Hosts : Busy(k)' => locked'
                      /\ \A g, k \in Hosts : Busy(g)' /\ Busy(k)' => g = k
                      /\ \A k \in Hosts : run'[k] = "pick" => \A x \in Slugs : check'[k][x].pc = "none"
                      /\ ~locked' => \A x \in Slugs \ mixed' : Fresh(x)'
                      /\ \A k \in Hosts : run'[k] = "pick" => \A x \in Slugs \ mixed' : Fresh(x)'
                      /\ \A k \in Hosts, x \in Slugs \ mixed' : check'[k][x].pc = "detail" => Fresh(x)'
    BY <1>0 DEF Timely
  <2>1. Busy(h) /\ locked /\ \A k \in Hosts : Busy(k) => k = h
    BY <1>0 DEF Timely, Busy
  <2>2. \A k \in Hosts : Busy(k)' => k = h
    BY <1>2, <2>1, EpisodeBounds DEF Busy
  <2>3. \A k \in Hosts : run'[k] # "pick"
    BY <1>2, <2>2 DEF Busy
  <2>4. \A x \in Slugs \ mixed : Fresh(x)
    BY <1>0 DEF Timely
  <2>5. \A x \in Slugs \ mixed' : Fresh(x)'
    BY <1>0, <2>4 DEF Fresh, Notified
  <2> QED BY <1>0, <2>1, <2>2, <2>3, <2>5
<1> QED BY <1>4, <1>5, <1>6, <1>7 DEF EpisodesClean

LEMMA ViewScheduleInv ==
  ASSUME EpisodeInv, NEW x \in Slugs, ViewSchedule(x)
  PROVE  EpisodeInv'
<1> USE DEF EpisodeInv
<1>0. /\ check[Page][x] = NoCheck
      /\ mixed' = mixed \cup Overlapping(Page, {x})
      /\ UNCHANGED <<upstream, kept, series, events, first, locked, run, announced, unsent, silent,
                     behind, rushed>>
  BY DEF ViewSchedule, sources
<1>a. PICK e \in Answers(x) :
        check' = [check EXCEPT ![Page][x] = [NoCheck EXCEPT !.pc = "find", !.current = e]]
  BY Zenon DEF ViewSchedule
<1> DEFINE d == [NoCheck EXCEPT !.pc = "find", !.current = e]
<1>1. e \in Releases \ {0} /\ Page \in Observers
  BY NumbersOf, EpisodeBounds DEF Answers, Releases
<1>2. d \in Checks /\ d.pc = "find" /\ d.current = e
  BY <1>1, EpisodeBounds DEF NoCheck, Checks, CheckPcs
<1>b. check' = [check EXCEPT ![Page][x] = d]
  BY <1>a
<1> HIDE DEF d
<1>3. Moves(Page, x) /\ check'[Page][x] = d
  BY <1>b, <1>1, <1>2, CheckMoves
<1>4. CheckSound(Page, x)'
  BY <1>1, <1>2, <1>3 DEF CheckSound
<1>5. EpisodesInv' /\ CountsInv'
  BY <1>0, <1>1, <1>3, <1>4, OneSound DEF EpisodesInv, CountsInv
<1>6. x \notin mixed' /\ Clean(x) => Clean(x)'
  <2> SUFFICES ASSUME x \notin mixed', Clean(x) PROVE Clean(x)'
    OBVIOUS
  <2>1. \A p \in Observers \ {Page} : check[p][x] = NoCheck
    BY <1>0 DEF Overlapping
  <2>2. \A p \in Observers \ {Page} : check'[p][x] = check[p][x] /\ check[p][x].pc = "none"
    BY <1>3, <2>1, EpisodeBounds DEF Moves
  <2>3. check[Page][x].pc = "none"
    BY <1>0, EpisodeBounds
  <2> QED BY <1>0, <1>1, <1>2, <1>3, <1>5, <2>2, <2>3, CleanBegins
<1>7. Remembered(x)' /\ Notified(x)' = Notified(x)
  BY <1>0, <1>1, <1>2, <1>3, StillRemembered DEF Notified
<1> QED BY <1>0, <1>1, <1>3, <1>5, <1>6, <1>7, EpisodeBounds, OneChecked DEF ChecksOne

LEMMA CheckFailsInv ==
  ASSUME EpisodeInv, NEW o \in Observers, NEW x \in Slugs, CheckFails(o, x)
  PROVE  EpisodeInv'
<1> USE DEF EpisodeInv
<1>0. /\ check[o][x] # NoCheck /\ Undone(o, {x}) /\ EndCheck(o, x)
      /\ run' = IF o \in Hosts /\ ~CheckAt(o, x, "detail") THEN [run EXCEPT ![o] = "idle"] ELSE run
      /\ UNCHANGED <<upstream, kept, series, events, first, locked, announced, silent, behind, rushed>>
  BY DEF CheckFails, sources
<1>1. Moves(o, x) /\ check'[o][x] = NoCheck
  BY <1>0, EndCheckMoves
<1>2. /\ run' \in [Hosts -> {"idle", "pick", "checking"}]
      /\ \A h \in Hosts : run'[h] \in {run[h], "idle"}
  BY <1>0 DEF EpisodesInv
<1>3. EpisodesInv'
  BY <1>0, <1>1, <1>2, NoCheckSound, OneSound DEF EpisodesInv
<1>4. /\ \A y \in Slugs : unsent'[y] = IF y = x /\ check[o][x].pc = "push"
                                       THEN unsent[y] \cup {check[o][x].current} ELSE unsent[y]
      /\ unsent' \in [Slugs -> SUBSET Releases]
      /\ mixed \subseteq mixed' /\ (x \notin mixed' => check[o][x].pc # "update")
  <2>1. check[o][x].current \in Releases
    BY DEF EpisodesInv, Checks
  <2> QED BY <1>0, <2>1 DEF Undone, CheckAt, CountsInv
<1>5. CountsInv'
  BY <1>0, <1>4 DEF CountsInv
<1>6. x \notin mixed' /\ Clean(x) => Clean(x)'
  BY <1>0, <1>1, <1>3, <1>4, CleanEnds DEF Moves
<1>7. check[o][x].pc # "none" /\ check'[o][x].pc = "none"
  BY <1>0, <1>1, EpisodeBounds DEF EpisodesInv, CheckSound
<1>8. Remembered(x)' /\ Notified(x)' = Notified(x)
  BY <1>0, <1>1, <1>7, StillRemembered DEF Notified
<1> QED BY <1>0, <1>1, <1>2, <1>3, <1>4, <1>5, <1>6, <1>7, <1>8, OneChecked DEF ChecksOne

LEMMA HostCrashInv ==
  ASSUME EpisodeInv, NEW h \in Hosts, HostCrash(h)
  PROVE  EpisodeInv'
<1> USE DEF EpisodeInv
<1>0. /\ Undone(h, Slugs) /\ run' = [run EXCEPT ![h] = "idle"]
      /\ check' = [check EXCEPT ![h] = [x \in Slugs |-> NoCheck]]
      /\ UNCHANGED <<upstream, kept, series, events, first, locked, announced, silent, behind, rushed>>
      /\ h \in Observers
  BY EpisodeBounds DEF HostCrash, sources
<1>1. /\ check' \in [Observers -> [Slugs -> Checks]]
      /\ \A x \in Slugs : check'[h][x] = NoCheck /\ check'[h][x].pc = "none"
      /\ \A p \in Observers \ {h}, x \in Slugs : check'[p][x] = check[p][x]
      /\ run' \in [Hosts -> {"idle", "pick", "checking"}]
      /\ \A g \in Hosts : run'[g] \in {run[g], "idle"}
  BY <1>0, EpisodeBounds DEF EpisodesInv
<1>2. \A o \in Observers, x \in Slugs : CheckSound(o, x)'
  BY <1>0, <1>1, EpisodeBounds DEF EpisodesInv, CheckSound
<1>3. /\ \A x \in Slugs : unsent'[x] = IF check[h][x].pc = "push"
                                       THEN unsent[x] \cup {check[h][x].current} ELSE unsent[x]
      /\ unsent' \in [Slugs -> SUBSET Releases]
      /\ mixed \subseteq mixed' /\ \A x \in Slugs \ mixed' : check[h][x].pc # "update"
  <2>1. \A x \in Slugs : check[h][x].current \in Releases
    BY <1>0 DEF EpisodesInv, Checks
  <2> QED BY <1>0, <2>1 DEF Undone, CheckAt, CountsInv
<1>4. EpisodesInv' /\ CountsInv'
  BY <1>0, <1>1, <1>2, <1>3 DEF EpisodesInv, CountsInv
<1>5. \A y \in Slugs \ mixed' : Clean(y)'
  BY <1>0, <1>1, <1>3, <1>4, CleanEnds DEF EpisodesClean
<1>6. \A y \in Slugs : Remembered(y)'
  BY <1>0, <1>1 DEF Remembered, Stored
<1>7. Timely'
  <2>1. NothingBegins
    BY <1>0, <1>1, EpisodeBounds DEF NothingBegins
  <2>2. \A y \in Slugs : Fresh(y)' <=> Fresh(y)
    BY <1>0 DEF Fresh, Notified
  <2> QED BY <1>3, <2>1, <2>2, TimelyStays
<1> QED BY <1>4, <1>5, <1>6, <1>7 DEF EpisodesClean

LEMMA EpisodeStarts == ASSUME NewEpisodesInit PROVE EpisodeInv
<1>1. \A o \in Observers, x \in Slugs : check[o][x] = NoCheck
  BY DEF NewEpisodesInit
<1>2. EpisodesInv
  <2>1. \A o \in Observers, x \in Slugs : CheckSound(o, x)
    BY <1>1, EpisodeBounds DEF CheckSound
  <2> QED BY <2>1, EpisodeBounds DEF NewEpisodesInit, EpisodesInv
<1>3. CountsInv
  BY EpisodeBounds DEF NewEpisodesInit, CountsInv
<1>4. \A x \in Slugs : Clean(x)
  <2> SUFFICES ASSUME NEW x \in Slugs PROVE Clean(x)
    OBVIOUS
  <2>1. \A o \in Observers : check[o][x].pc = "none"
    BY <1>1, EpisodeBounds
  <2>2. Stored(x) = 0 /\ Notified(x) = 0
    BY DEF Stored, Notified, NewEpisodesInit
  <2>3. \A e \in Releases : ~InPush(x, e)
    BY <2>1, EpisodeBounds DEF InPush
  <2>4. \A e \in Releases : /\ events[x][e] = 0 /\ announced[x][e] = 0
                            /\ unsent[x] = {} /\ silent[x] = {}
    BY DEF NewEpisodesInit
  <2>5. Alone(x) /\ Ahead(x) /\ Steady(x)
    BY <2>1, EpisodeBounds DEF Alone, Ahead, Steady
  <2>6. Logged(x) /\ Pushed(x)
    BY <2>2, <2>3, <2>4, EpisodeBounds DEF Logged, Pushed
  <2> QED BY <2>5, <2>6 DEF Clean, InOrder
<1>5. Timely
  <2>1. \A h \in Hosts, x \in Slugs : check[h][x].pc = "none"
    BY <1>1, EpisodeBounds
  <2>2. \A x \in Slugs : Fresh(x)
    BY DEF Fresh, Notified, NewEpisodesInit
  <2> QED BY <2>1, <2>2 DEF Timely, Busy, NewEpisodesInit
<1>6. \A x \in Slugs : Remembered(x)
  BY <1>1, EpisodeBounds DEF Remembered, NewEpisodesInit
<1> QED BY <1>2, <1>3, <1>4, <1>5, <1>6 DEF EpisodeInv, EpisodesClean

LEMMA EpisodeSteps ==
  ASSUME EpisodeInv, [NewEpisodesNext]_newEpisodesVars
  PROVE  EpisodeInv'
<1>1. ASSUME NEW x \in Slugs, Release(x) \/ Forget(x) \/ OtherSource(x) \/ ViewSchedule(x)
      PROVE  EpisodeInv'
  BY <1>1, ReleaseInv, ForgetInv, OtherSourceInv, ViewScheduleInv
<1>2. ASSUME NEW o \in Observers, NEW x \in Slugs, Observe(o, x) PROVE EpisodeInv'
  BY <1>2, ObserveFindInv, ObserveCreateInv, ObserveEventInv, ObserveUpdateInv DEF Observe
<1>3. ASSUME NEW h \in Hosts, HostStep(h) PROVE EpisodeInv'
  <2>1. CASE EndRun(h)
    <3>1. /\ run' \in [Hosts -> {"idle", "pick", "checking"}]
          /\ \A g \in Hosts : run'[g] \in {run[g], "idle"}
          /\ UNCHANGED <<upstream, kept, series, events, first, locked, check, announced, unsent,
                         silent, mixed, behind, rushed>>
      BY <2>1 DEF EndRun, EpisodeInv, EpisodesInv, sources, excuses
    <3>2. Timely'
      BY <3>1, TimelyStays DEF NothingBegins, Fresh, Notified, EpisodeInv
    <3> QED BY <3>1, <3>2, ChecksRest DEF EpisodeInv, EpisodesInv
  <2>2. h \in Observers
    BY EpisodeBounds
  <2> QED BY <1>2, <1>3, <2>1, <2>2, PickInv, DetailInv, MarkNotifiedInv, PushStep DEF HostStep
<1>4. CASE UNCHANGED newEpisodesVars
  <2>1. UNCHANGED <<upstream, kept, series, events, first, locked, run, check, announced, unsent,
                    silent, mixed, behind, rushed>>
    BY <1>4 DEF newEpisodesVars, sources, excuses
  <2>2. Timely'
    BY <2>1, TimelyStays DEF NothingBegins, Fresh, Notified, EpisodeInv
  <2> QED BY <2>1, <2>2, ChecksRest DEF EpisodeInv, EpisodesInv
<1>5. CASE PageStep
  BY <1>2, <1>5, EpisodeBounds DEF PageStep
<1> QED BY <1>1, <1>3, <1>4, <1>5, JobTickInv, LockExpiresInv, HostCrashInv, CheckFailsInv
        DEF NewEpisodesNext

LEMMA EpisodeAlways == NewEpisodesSpec => []EpisodeInv
<1>1. NewEpisodesInit => EpisodeInv
  BY EpisodeStarts
<1>2. EpisodeInv /\ [NewEpisodesNext]_newEpisodesVars => EpisodeInv'
  BY EpisodeSteps
<1> QED BY <1>1, <1>2, PTL DEF NewEpisodesSpec

LEMMA PushingOne ==
  ASSUME EpisodeInv, NEW x \in Slugs \ mixed, NEW e \in Releases
  PROVE  /\ InPush(x, e) => Cardinality(Pushing(x, e)) = 1
         /\ ~InPush(x, e) => Cardinality(Pushing(x, e)) = 0
<1>1. CASE InPush(x, e)
  <2>1. PICK h \in Hosts : check[h][x].pc = "push" /\ check[h][x].current = e
    BY <1>1 DEF InPush
  <2>2. \A g \in Hosts : check[g][x].pc = "push" => g = h
    BY <2>1, EpisodeBounds DEF EpisodeInv, EpisodesClean, Clean, Alone
  <2>3. Pushing(x, e) = {h}
    BY <2>1, <2>2 DEF Pushing, CheckAt
  <2> QED BY <1>1, <2>3, FS_Singleton
<1>2. CASE ~InPush(x, e)
  <2>1. Pushing(x, e) = {}
    BY <1>2 DEF Pushing, CheckAt, InPush
  <2> QED BY <1>2, <2>1, FS_EmptySet
<1> QED BY <1>1, <1>2

\* While no two observers meet, one source answers and runs keep their distance, the
\* job pushes an episode of a series once at most (checkOne marks it before
\* sendToUsers), never one that was there when the series was first seen, and none
\* that is marked is left out, but for a push that died with its host.  What it reads
\* comes from caches of different ages, and so does what the schedule page reads.
THEOREM EpisodesAnnouncedOnce == NewEpisodesSpec => []AnnouncedOncePerEpisode
<1>1. EpisodeInv => AnnouncedOncePerEpisode
  <2> SUFFICES ASSUME EpisodeInv, NEW x \in Slugs \ mixed, NEW e \in Releases \ {0}
               PROVE  LET pushes == announced[x][e] + Cardinality(Pushing(x, e))
                                      + (IF e \in unsent[x] THEN 1 ELSE 0) IN
                      /\ pushes <= 1
                      /\ e \in silent[x] => pushes = 0
                      /\ series[x] # <<>> /\ series[x][1].notified = e
                           => pushes = 1 \/ e \in silent[x]
    BY DEF AnnouncedOncePerEpisode
  <2>1. Pushed(x)
    BY DEF EpisodeInv, EpisodesClean, Clean
  <2>2. series[x] # <<>> /\ series[x][1].notified = e => Notified(x) = e
    BY DEF Notified
  <2>3. announced[x][e] \in {0, 1}
    BY <2>1 DEF Pushed
  <2>4. CASE InPush(x, e)
    <3>1. Cardinality(Pushing(x, e)) = 1
      BY <2>4, PushingOne
    <3>2. announced[x][e] = 0 /\ e \notin unsent[x] /\ e \notin silent[x]
      BY <2>1, <2>3, <2>4 DEF Pushed
    <3> QED BY <3>1, <3>2
  <2>5. CASE ~InPush(x, e)
    <3>1. Cardinality(Pushing(x, e)) = 0
      BY <2>5, PushingOne
    <3>2. /\ announced[x][e] = 1 => e \notin unsent[x] /\ e \notin silent[x]
          /\ e \in unsent[x] => e \notin silent[x]
          /\ Notified(x) = e => announced[x][e] = 1 \/ e \in unsent[x] \/ e \in silent[x]
      BY <2>1, <2>5 DEF Pushed
    <3> QED BY <2>2, <2>3, <3>1, <3>2
  <2> QED BY <2>4, <2>5
<1> QED BY <1>1, EpisodeAlways, PTL

\* While no two observers meet and no sighting moves the row back to an older
\* release, observe() inserts the event of a release once.
THEOREM ReleasesLoggedOnce == NewEpisodesSpec => []ReleaseLoggedOnce
<1>1. EpisodeInv => ReleaseLoggedOnce
  <2> SUFFICES ASSUME EpisodeInv, NEW x \in Slugs \ (mixed \cup behind), NEW e \in Releases
               PROVE  events[x][e] <= 1
    BY DEF ReleaseLoggedOnce
  <2>1. events[x][e] \in {0, 1}
    BY DEF EpisodeInv, EpisodesClean, Clean, InOrder, Logged
  <2> QED BY <2>1
<1> QED BY <1>1, EpisodeAlways, PTL

\* Whatever sightings overlap, fail or come from an old cache, observe() inserts the
\* event before it stores the release, so the history holds every stored release but
\* the one that the row was created with.
THEOREM ReleasesAreKept == NewEpisodesSpec => []ReleaseNeverLost
<1>1. EpisodeInv => ReleaseNeverLost
  <2> SUFFICES ASSUME EpisodeInv, NEW x \in Slugs
               PROVE  LET Known(e) == events[x][e] >= 1 \/ first[x] = e IN
                      /\ series[x] # <<>> => Known(series[x][1].episode)
                      /\ \A o \in Observers : CheckAt(o, x, "update") => Known(check[o][x].current)
    BY DEF ReleaseNeverLost
  <2> QED BY DEF EpisodeInv, Remembered, Stored, CheckAt
<1> QED BY <1>1, EpisodeAlways, PTL

\* What observe() makes of the release history, the two together.
THEOREM ReleaseHistoryHolds == NewEpisodesSpec => []ReleaseHistory
<1>1. ReleaseLoggedOnce /\ ReleaseNeverLost <=> ReleaseHistory
  BY DEF ReleaseHistory
<1> QED BY <1>1, ReleasesLoggedOnce, ReleasesAreKept, PTL

-----------------------------------------------------------------------------
(* The order of "checked".                                                 *)

LEMMA LeastExists ==
  ASSUME NEW I \in SUBSET Nat, I # {}
  PROVE  Min(I) \in I /\ \A y \in I : Min(I) =< y
<1>1. IsWellFoundedOn(OpToRel(<, Nat), Nat)
  BY NatLessThanWellFounded
<1>2. PICK x \in I : \A y \in I : <<y, x>> \notin OpToRel(<, Nat)
  BY <1>1, WFMin
<1>3. \A y \in I : ~(y < x)
  BY <1>2 DEF OpToRel
<1>4. x \in I /\ \A y \in I : x =< y
  BY <1>3
<1> QED BY <1>4 DEF Min

\* RemoveFirst of the community modules takes one element out, the others close up.
LEMMA TakenOut ==
  ASSUME NEW T, NEW s \in Seq(T), NEW e \in ToSet(s)
  PROVE  \E m \in 1..Len(s) :
           /\ s[m] = e
           /\ RemoveFirst(s, e) \in Seq(T) /\ Len(RemoveFirst(s, e)) = Len(s) - 1
           /\ \A k \in 1..Len(s) - 1 : RemoveFirst(s, e)[k] = IF k < m THEN s[k] ELSE s[k + 1]
<1> DEFINE I == {i \in 1..Len(s) : s[i] = e}
           m == SelectInSeq(s, LAMBDA v : v = e)
<1>1. Len(s) \in Nat /\ I \in SUBSET Nat /\ I # {}
  BY DEF ToSet
<1>2. Min(I) \in I
  <2> HIDE DEF I
  <2> QED BY <1>1, LeastExists
<1>3. m \in 1..Len(s) /\ s[m] = e
  BY <1>1, <1>2 DEF SelectInSeq
<1>4. RemoveFirst(s, e) = SubSeq(s, 1, m - 1) \o SubSeq(s, m + 1, Len(s))
  BY <1>1 DEF RemoveFirst, RemoveAt
<1> HIDE DEF m, I
<1> DEFINE a == SubSeq(s, 1, m - 1)
           b == SubSeq(s, m + 1, Len(s))
<1>5. /\ \A k \in 1..(m - 1) : s[k] \in T
      /\ \A k \in (m + 1)..Len(s) : s[k] \in T
      /\ m - 1 \in Int /\ m + 1 \in Int /\ Len(s) \in Int /\ 1 \in Int
  BY <1>1, <1>3, ElementOfSeq
<1>6. a \in Seq(T) /\ Len(a) = m - 1 /\ \A k \in 1..(m - 1) : a[k] = s[k]
  BY <1>3, <1>5, SubSeqProperties
<1>7. b \in Seq(T) /\ Len(b) = Len(s) - m /\ \A k \in 1..(Len(s) - m) : b[k] = s[k + m]
  <2>1. b \in Seq(T) /\ Len(b) = Len(s) - m
    BY <1>1, <1>3, <1>5, SubSeqProperties
  <2>2. \A k \in 1..(Len(s) - m) : b[k] = s[m + 1 + k - 1]
    BY <1>1, <1>3, <1>5, SubSeqProperties
  <2>3. \A k \in 1..(Len(s) - m) : m + 1 + k - 1 = k + m
    BY <1>1, <1>3
  <2> QED BY <2>1, <2>2, <2>3
<1> HIDE DEF a, b
<1>8. RemoveFirst(s, e) = a \o b
  BY <1>4 DEF a, b
<1>9. /\ a \o b \in Seq(T) /\ Len(a \o b) = Len(a) + Len(b)
      /\ \A k \in 1..Len(a) + Len(b) : (a \o b)[k] = IF k <= Len(a) THEN a[k] ELSE b[k - Len(a)]
  BY <1>6, <1>7, ConcatProperties
<1>10. Len(a) + Len(b) = Len(s) - 1
  BY <1>1, <1>3, <1>6, <1>7
<1>11. \A k \in 1..Len(s) - 1 : (a \o b)[k] = IF k < m THEN s[k] ELSE s[k + 1]
  <2> SUFFICES ASSUME NEW k \in 1..Len(s) - 1 PROVE (a \o b)[k] = IF k < m THEN s[k] ELSE s[k + 1]
    OBVIOUS
  <2>1. CASE k < m
    BY <1>1, <1>3, <1>6, <1>9, <1>10, <2>1
  <2>2. CASE ~(k < m)
    <3>1. k - (m - 1) \in 1..(Len(s) - m) /\ ~(k <= m - 1) /\ k - (m - 1) + m = k + 1
      BY <1>1, <1>3, <2>2
    <3> QED BY <1>6, <1>7, <1>9, <1>10, <2>2, <3>1
  <2> QED BY <2>1, <2>2
<1> QED BY <1>3, <1>8, <1>9, <1>10, <1>11

\* An element that is taken out and appended is still there once.
LEMMA MovedToTheEnd ==
  ASSUME NEW T, NEW s \in Seq(T), IsInjective(s), NEW e \in ToSet(s)
  PROVE  LET r == Append(RemoveFirst(s, e), e) IN
         r \in Seq(T) /\ IsInjective(r) /\ ToSet(r) = ToSet(s)
<1> DEFINE f == RemoveFirst(s, e)
           r == Append(f, e)
<1>1. PICK m \in 1..Len(s) :
           /\ s[m] = e /\ f \in Seq(T) /\ Len(f) = Len(s) - 1
           /\ \A k \in 1..Len(s) - 1 : f[k] = IF k < m THEN s[k] ELSE s[k + 1]
  BY TakenOut
<1>2. Len(s) \in Nat /\ e \in T /\ DOMAIN s = 1..Len(s) /\ m \in 1..Len(s)
  BY <1>1, ElementOfSeq
<1>3. \A i, j \in 1..Len(s) : s[i] = s[j] => i = j
  BY <1>2 DEF IsInjective
<1> HIDE DEF f
<1>4. /\ r \in Seq(T) /\ Len(r) = Len(s) /\ r[Len(s)] = e
      /\ \A k \in 1..Len(s) - 1 : r[k] = IF k < m THEN s[k] ELSE s[k + 1]
  BY <1>1, <1>2, AppendProperties
<1> HIDE DEF r
<1> DEFINE at(k) == IF k = Len(s) THEN m ELSE IF k < m THEN k ELSE k + 1
<1>5. \A k \in 1..Len(s) : at(k) \in 1..Len(s) /\ r[k] = s[at(k)]
  BY <1>1, <1>2, <1>4
<1>6. ASSUME NEW i \in 1..Len(s), NEW j \in 1..Len(s), at(i) = at(j) PROVE i = j
  <2>1. /\ i \in Nat /\ j \in Nat /\ m \in Nat /\ Len(s) \in Nat
        /\ i =< Len(s) /\ j =< Len(s) /\ m =< Len(s)
    BY <1>2
  <2> QED BY <1>6, <2>1
<1>7. \A i \in 1..Len(s) : \E k \in 1..Len(s) : at(k) = i
  <2> SUFFICES ASSUME NEW i \in 1..Len(s) PROVE \E k \in 1..Len(s) : at(k) = i
    OBVIOUS
  <2>0. Len(s) \in Nat /\ i \in Nat /\ m \in Nat /\ 1 =< i /\ i =< Len(s) /\ m =< Len(s)
    BY <1>2
  <2>1. CASE i = m
    <3>1. Len(s) \in 1..Len(s) /\ at(Len(s)) = i
      BY <1>2, <2>1
    <3> QED BY <3>1
  <2>2. CASE i < m
    <3>1. i # Len(s)
      BY <2>0, <2>2
    <3>2. at(i) = i
      BY <2>2, <3>1
    <3> QED BY <3>2
  <2>3. CASE i > m
    <3>1. i - 1 \in 1..Len(s) /\ at(i - 1) = i
      BY <1>2, <2>3
    <3> QED BY <3>1
  <2> QED BY <2>0, <2>1, <2>2, <2>3
<1> HIDE DEF at
<1>8. DOMAIN r = 1..Len(s)
  BY <1>4
<1>9. IsInjective(r)
  <2> SUFFICES ASSUME NEW i \in 1..Len(s), NEW j \in 1..Len(s), r[i] = r[j] PROVE i = j
    BY <1>8 DEF IsInjective
  <2>1. s[at(i)] = s[at(j)] /\ at(i) \in 1..Len(s) /\ at(j) \in 1..Len(s)
    BY <1>5
  <2> QED BY <1>3, <1>6, <2>1
<1>10. ToSet(r) = ToSet(s)
  <2>1. \A v : (\E k \in 1..Len(s) : r[k] = v) <=> (\E k \in 1..Len(s) : s[k] = v)
    BY <1>5, <1>7
  <2> QED BY <1>2, <1>8, <2>1 DEF ToSet
<1> QED BY <1>4, <1>9, <1>10 DEF r, f

LEMMA AddedAtTheEnd ==
  ASSUME NEW T, NEW s \in Seq(T), IsInjective(s), NEW e \in T, e \notin ToSet(s)
  PROVE  LET r == Append(s, e) IN
         r \in Seq(T) /\ IsInjective(r) /\ ToSet(r) = ToSet(s) \cup {e}
<1> DEFINE r == Append(s, e)
<1>1. /\ r \in Seq(T) /\ Len(r) = Len(s) + 1 /\ r[Len(s) + 1] = e
      /\ \A k \in 1..Len(s) : r[k] = s[k]
      /\ Len(s) \in Nat
  BY AppendProperties
<1> HIDE DEF r
<1>2. DOMAIN s = 1..Len(s) /\ DOMAIN r = 1..Len(s) + 1
  BY <1>1
<1>3. \A k \in 1..Len(s) + 1 : k \in 1..Len(s) \/ k = Len(s) + 1
  BY <1>1
<1>4. \A k \in 1..Len(s) : k \in 1..Len(s) + 1
  BY <1>1
<1>5. Len(s) + 1 \in 1..Len(s) + 1
  BY <1>1
<1>6. \A k \in 1..Len(s) : s[k] # e
  BY <1>2 DEF ToSet
<1>7. IsInjective(r)
  <2> SUFFICES ASSUME NEW i \in 1..Len(s) + 1, NEW j \in 1..Len(s) + 1, r[i] = r[j] PROVE i = j
    BY <1>2 DEF IsInjective
  <2>1. CASE i \in 1..Len(s) /\ j \in 1..Len(s)
    BY <1>1, <1>2, <2>1 DEF IsInjective
  <2> QED BY <1>1, <1>3, <1>6, <2>1
<1>8. ToSet(r) = ToSet(s) \cup {e}
  <2>1. \A v : (\E k \in 1..Len(s) + 1 : r[k] = v) <=> (\E k \in 1..Len(s) : s[k] = v) \/ v = e
    BY <1>1, <1>3, <1>4, <1>5
  <2> QED BY <1>2, <2>1 DEF ToSet
<1> QED BY <1>1, <1>7, <1>8 DEF r

\* "checked" lists the slugs with a row, each once.
CheckedInv ==
    /\ checked \in Seq(Slugs) /\ IsInjective(checked)
    /\ ToSet(checked) = {x \in Slugs : series[x] # <<>>}

LEMMA CheckedCreate ==
  ASSUME EpisodeInv, EpisodeInv', CheckedInv, NEW o \in Observers, NEW x \in Slugs, ObserveCreate(o, x)
  PROVE  CheckedInv'
<1>1. CASE series[x] = <<>>
  <2>1. /\ checked' = Append(checked, x)
        /\ series' = [series EXCEPT ![x] = <<[episode |-> check[o][x].current, notified |-> 0]>>]
    BY <1>1 DEF ObserveCreate
  <2>2. {y \in Slugs : series'[y] # <<>>} = {y \in Slugs : series[y] # <<>>} \cup {x}
    BY <2>1 DEF EpisodeInv, EpisodesInv
  <2>3. x \notin ToSet(checked)
    BY <1>1 DEF CheckedInv
  <2> QED BY <2>1, <2>2, <2>3, AddedAtTheEnd DEF CheckedInv
<1>2. CASE series[x] # <<>>
  BY <1>2 DEF ObserveCreate, CheckedInv
<1> QED BY <1>1, <1>2

LEMMA CheckedUpdate ==
  ASSUME EpisodeInv, EpisodeInv', CheckedInv, NEW o \in Observers, NEW x \in Slugs, ObserveUpdate(o, x)
  PROVE  CheckedInv'
<1>1. /\ series[x] # <<>> /\ checked' = Append(RemoveFirst(checked, x), x)
      /\ series' = [series EXCEPT ![x][1].episode = check[o][x].current]
      /\ check[o][x].current \in Releases \ {0}
  BY DEF ObserveUpdate, CheckAt, EpisodeInv, EpisodesInv, CheckSound, Checks
<1>2. Stores(x, check[o][x].current, series[x][1].notified)
  BY <1>1, EpisodeStored DEF EpisodeInv
<1>3. {y \in Slugs : series'[y] # <<>>} = {y \in Slugs : series[y] # <<>>}
  BY <1>1, <1>2 DEF Stores
<1>4. x \in ToSet(checked)
  BY <1>1 DEF CheckedInv
<1> QED BY <1>1, <1>3, <1>4, MovedToTheEnd DEF CheckedInv

LEMMA CheckedMark ==
  ASSUME EpisodeInv, EpisodeInv', CheckedInv, NEW h \in Hosts, NEW x \in Slugs, MarkNotified(h, x)
  PROVE  CheckedInv'
<1>1. /\ series[x] # <<>> /\ UNCHANGED checked
      /\ series' = [series EXCEPT ![x][1].notified = check[h][x].current]
      /\ check[h][x].current \in Releases
  BY EpisodeBounds DEF MarkNotified, CheckAt, EpisodeInv, EpisodesInv, CheckSound, Checks
<1>2. Stores(x, series[x][1].episode, check[h][x].current)
  BY <1>1, NotifiedStored DEF EpisodeInv
<1>3. {y \in Slugs : series'[y] # <<>>} = {y \in Slugs : series[y] # <<>>}
  BY <1>1, <1>2 DEF Stores
<1> QED BY <1>1, <1>3 DEF CheckedInv

LEMMA CheckedSteps ==
  ASSUME EpisodeInv, EpisodeInv', CheckedInv, [NewEpisodesNext]_newEpisodesVars
  PROVE  CheckedInv'
<1>1. UNCHANGED <<checked, series>> => CheckedInv'
  BY DEF CheckedInv
<1>2. ASSUME NEW o \in Observers, NEW x \in Slugs, Observe(o, x) PROVE CheckedInv'
  BY <1>1, <1>2, CheckedCreate, CheckedUpdate DEF Observe, ObserveFind, ObserveEvent
<1>3. ASSUME NEW h \in Hosts, HostStep(h) PROVE CheckedInv'
  <2>1. Pick(h) \/ EndRun(h) => UNCHANGED <<checked, series>>
    BY DEF Pick, EndRun
  <2>2. \A x \in Slugs : Detail(h, x) \/ Push(h, x) => UNCHANGED <<checked, series>>
    BY Zenon DEF Detail, Push
  <2> QED BY <1>1, <1>2, <1>3, <2>1, <2>2, CheckedMark, EpisodeBounds DEF HostStep
<1>4. ASSUME NEW x \in Slugs, Release(x) \/ Forget(x) \/ OtherSource(x) \/ ViewSchedule(x)
      PROVE  CheckedInv'
  <2>1. UNCHANGED <<checked, series>>
    BY <1>4, Zenon DEF Release, Forget, OtherSource, ViewSchedule
  <2> QED BY <1>1, <2>1
<1>5. CASE PageStep
  BY <1>2, <1>5, EpisodeBounds DEF PageStep
<1>6. CASE \/ \E h \in Hosts : JobTick(h) \/ HostCrash(h)
           \/ LockExpires
           \/ \E o \in Observers, x \in Slugs : CheckFails(o, x)
           \/ UNCHANGED newEpisodesVars
  <2>1. UNCHANGED <<checked, series>>
    BY <1>6 DEF JobTick, HostCrash, LockExpires, CheckFails, newEpisodesVars
  <2> QED BY <1>1, <2>1
<1> QED BY <1>3, <1>4, <1>5, <1>6 DEF NewEpisodesNext

LEMMA EpisodeTypesHold ==
  ASSUME EpisodeInv, CheckedInv
  PROVE  NewEpisodesTypeOK
<1>1. upstream \in [Slugs -> Releases] /\ first \in [Slugs -> Releases]
  BY DEF EpisodeInv, EpisodesInv, CountsInv
<1>2. kept \in [Slugs -> Releases \ {0}] /\ \A x \in Slugs : kept[x] <= upstream[x]
  BY DEF EpisodeInv, EpisodesInv
<1>3. /\ \A x \in Slugs : series[x] \in {<<>>} \cup
            {<<r>> : r \in [episode : Releases \ {0}, notified : Releases]}
      /\ run \in [Hosts -> {"idle", "pick", "checking"}]
      /\ \A o \in Observers, x \in Slugs :
            check[o][x].pc \in {"event", "update", "mark", "push"} => series[x] # <<>>
  BY DEF EpisodeInv, EpisodesInv, CheckSound, StateRows
<1> QED BY <1>1, <1>2, <1>3 DEF NewEpisodesTypeOK, CheckedInv

LEMMA CheckedStarts == ASSUME NewEpisodesInit PROVE CheckedInv
<1>1. checked = <<>> /\ \A x \in Slugs : series[x] = <<>>
  BY DEF NewEpisodesInit
<1> QED BY <1>1, EmptySeq DEF CheckedInv, IsInjective, ToSet

\* Whatever the interleaving of hosts, visits and failures, a slug with a row is
\* listed once in the order of checkedAt, and a check that is about to write to a
\* row finds it.
THEOREM EpisodeTypes == NewEpisodesSpec => []NewEpisodesTypeOK
<1>1. NewEpisodesInit => EpisodeInv /\ CheckedInv
  BY EpisodeStarts, CheckedStarts
<1>2. (EpisodeInv /\ CheckedInv) /\ [NewEpisodesNext]_newEpisodesVars => (EpisodeInv /\ CheckedInv)'
  BY EpisodeSteps, CheckedSteps
<1>3. EpisodeInv /\ CheckedInv => NewEpisodesTypeOK
  BY EpisodeTypesHold
<1> QED BY <1>1, <1>2, <1>3, PTL DEF NewEpisodesSpec

-----------------------------------------------------------------------------
(* The release schedule.                                                   *)

\* Division and remainder, and the only numbers that they can be.
LEMMA Quotient ==
  ASSUME NEW x \in Int, NEW d \in Nat \ {0}
  PROVE  /\ x \div d \in Int /\ x % d \in 0..d - 1
         /\ x - d * (x \div d) = x % d
<1>1. x \div d \in Int
  OBVIOUS
<1>2. x % d \in 0..d - 1
  OBVIOUS
<1>3. x - d * (x \div d) = x % d
  OBVIOUS
<1> QED BY <1>1, <1>2, <1>3

LEMMA Multiples ==
  ASSUME NEW d \in Nat \ {0}, NEW k \in Int, k >= 1
  PROVE  d * k >= d
OBVIOUS

LEMMA QuotientIs ==
  ASSUME NEW d \in Nat \ {0}, NEW q \in Int, NEW r \in 0..d - 1
  PROVE  (d * q + r) \div d = q /\ (d * q + r) % d = r
<1> DEFINE x == d * q + r
           p == x \div d
           s == x % d
<1>1. x \in Int /\ d * q \in Int
  OBVIOUS
<1> HIDE DEF x
<1>2. p \in Int /\ s \in 0..d - 1 /\ x - d * p = s
  BY <1>1, Quotient
<1> HIDE DEF p, s
<1>3. /\ p \in Int /\ s \in 0..d - 1 /\ d * p + s = d * q + r
      /\ d * p \in Int /\ d * q \in Int /\ d \in Int
  BY <1>1, <1>2 DEF x
<1>4. d * (p - q) = r - s /\ d * (q - p) = s - r
  BY <1>3
<1>5. ~(p - q >= 1)
  <2> SUFFICES ASSUME p - q >= 1 PROVE FALSE
    OBVIOUS
  <2>1. p - q \in Int /\ d * (p - q) >= d
    BY <1>3, Multiples
  <2> QED BY <1>3, <1>4, <2>1
<1>6. ~(q - p >= 1)
  <2> SUFFICES ASSUME q - p >= 1 PROVE FALSE
    OBVIOUS
  <2>1. q - p \in Int /\ d * (q - p) >= d
    BY <1>3, Multiples
  <2> QED BY <1>3, <1>4, <2>1
<1>7. p = q
  BY <1>3, <1>5, <1>6
<1>8. s = r
  BY <1>3, <1>7
<1> QED BY <1>7, <1>8 DEF p, s, x

\* The day a moment is in, counted from the epoch, and its minute there.
DayOf(t) == (t + VN_OFFSET) \div DAY

LEMMA Moment ==
  ASSUME NEW t \in Int
  PROVE  /\ DayOf(t) \in Int /\ Minute(t) \in 0..DAY - 1
         /\ DAY * DayOf(t) \in Int
         /\ t = DAY * DayOf(t) - VN_OFFSET + Minute(t)
         /\ DayStart(t) = DAY * DayOf(t) - VN_OFFSET
         /\ Weekday(t) = (DayOf(t) + 4) % 7
<1>1. DAY \in Nat \ {0} /\ VN_OFFSET \in Int /\ t + VN_OFFSET \in Int
  BY ScheduleAssumption
<1>2. /\ DayOf(t) \in Int /\ Minute(t) \in 0..DAY - 1
      /\ (t + VN_OFFSET) - DAY * DayOf(t) = Minute(t)
  BY <1>1, Quotient DEF DayOf, Minute
<1>3. DAY * DayOf(t) \in Int
  BY <1>1, <1>2
<1>4. Weekday(t) = (DayOf(t) + 4) % 7
  BY DEF Weekday, DayOf
<1> QED BY <1>1, <1>2, <1>3, <1>4 DEF DayStart

\* The moment at a minute of a day.
LEMMA MomentIs ==
  ASSUME NEW q \in Int, NEW r \in 0..DAY - 1
  PROVE  LET t == DAY * q - VN_OFFSET + r IN
         /\ t \in Int /\ DAY * q \in Int
         /\ DayOf(t) = q /\ Minute(t) = r /\ Weekday(t) = (q + 4) % 7
<1>1. DAY \in Nat \ {0} /\ VN_OFFSET \in Int /\ DAY * q \in Int /\ r \in Int
  BY ScheduleAssumption
<1> DEFINE t == DAY * q - VN_OFFSET + r
<1>2. t \in Int /\ t + VN_OFFSET = DAY * q + r
  BY <1>1
<1>3. (DAY * q + r) \div DAY = q /\ (DAY * q + r) % DAY = r
  BY <1>1, QuotientIs
<1> HIDE DEF t
<1>4. DayOf(t) = q /\ Minute(t) = r /\ Weekday(t) = (q + 4) % 7
  BY <1>2, <1>3 DEF DayOf, Minute, Weekday
<1> QED BY <1>1, <1>2, <1>4 DEF t

\* The k-th smallest of finitely many numbers is one of them.
LEMMA RankedValue ==
  ASSUME NEW value, IsFiniteSet(DOMAIN value), NEW B \in Nat,
         \A d \in DOMAIN value : value[d] \in Nat /\ value[d] =< B,
         NEW k \in 1..Cardinality(DOMAIN value)
  PROVE  Ranked(value, k) \in Range(value)
<1> DEFINE D == DOMAIN value
           Less(u) == {d \in D : value[d] < u}
           Upto(u) == {d \in D : value[d] <= u}
           U == {u \in Nat : Cardinality(Upto(u)) >= k}
<1>1. \A u : Cardinality(Less(u)) \in Nat /\ Cardinality(Upto(u)) \in Nat
  BY FS_Subset, FS_CardinalityType
<1>2. k \in Nat /\ k >= 1 /\ Cardinality(D) \in Nat /\ k =< Cardinality(D)
  BY FS_CardinalityType
<1>3. Upto(B) = D
  OBVIOUS
<1>4. U # {} /\ U \in SUBSET Nat
  BY <1>2, <1>3
<1>5. PICK v \in U : \A u \in U : v =< u
  BY <1>4, LeastExists
<1>6. Cardinality(Less(v)) < k
  <2>1. CASE v = 0
    <3>1. Less(v) = {}
      BY <2>1
    <3> HIDE DEF Less
    <3> QED BY <1>2, <3>1, FS_EmptySet
  <2>2. CASE v # 0
    <3>1. v - 1 \in Nat /\ v - 1 \notin U
      BY <1>5, <2>2
    <3>2. Less(v) = Upto(v - 1)
      BY <1>5, <3>1
    <3>3. ~(Cardinality(Upto(v - 1)) >= k)
      BY <3>1
    <3> HIDE DEF Less, Upto
    <3> QED BY <1>1, <1>2, <3>2, <3>3
  <2> QED BY <2>1, <2>2
<1>7. v \in Range(value)
  <2> SUFFICES ASSUME \A d \in D : value[d] # v PROVE FALSE
    BY DEF Range
  <2>1. Upto(v) = Less(v)
    BY <1>5
  <2>2. Cardinality(Upto(v)) >= k
    BY <1>5
  <2> HIDE DEF Less, Upto
  <2> QED BY <1>1, <1>2, <1>6, <2>1, <2>2
<1>8. Cardinality(Upto(v)) >= k
  BY <1>5
<1> QED BY <1>6, <1>7, <1>8 DEF Ranked

\* A median is not below all values nor above all of them.
LEMMA MedianBetween ==
  ASSUME NEW value, IsFiniteSet(DOMAIN value), DOMAIN value # {}, NEW B \in Nat,
         \A d \in DOMAIN value : value[d] \in Nat /\ value[d] =< B
  PROVE  /\ Median(value) \in 0..B
         /\ \E d \in DOMAIN value : value[d] =< Median(value)
         /\ \E d \in DOMAIN value : value[d] >= Median(value)
<1> DEFINE n == Cardinality(DOMAIN value)
<1>1. n \in Nat /\ n >= 1
  BY FS_CardinalityType, FS_EmptySet
<1>2. \A k \in 1..n : \E d \in DOMAIN value : Ranked(value, k) = value[d]
  BY RankedValue DEF Range
<1>3. CASE n % 2 = 1
  <2>1. n \div 2 + 1 \in 1..n
    <3> HIDE DEF n
    <3> QED BY <1>1, <1>3
  <2>2. Median(value) = Ranked(value, n \div 2 + 1)
    BY <1>3 DEF Median
  <2>3. PICK d \in DOMAIN value : Median(value) = value[d]
    BY <1>2, <2>1, <2>2
  <2> QED BY <2>3
<1>4. CASE n % 2 # 1
  <2>1. n \div 2 \in 1..n /\ n \div 2 + 1 \in 1..n
    <3> HIDE DEF n
    <3> QED BY <1>1, <1>4
  <2>2. PICK c \in DOMAIN value : Ranked(value, n \div 2) = value[c]
    BY <1>2, <2>1
  <2>3. PICK d \in DOMAIN value : Ranked(value, n \div 2 + 1) = value[d]
    BY <1>2, <2>1
  <2>4. Median(value) = (value[c] + value[d] + 1) \div 2
    BY <1>4, <2>2, <2>3 DEF Median
  <2> DEFINE x == value[c]
             y == value[d]
             m == Median(value)
  <2>5. x \in 0..B /\ y \in 0..B /\ m = (x + y + 1) \div 2
    BY <2>4
  <2> HIDE DEF x, y, m
  <2>6. m \in 0..B /\ (x =< m \/ y =< m) /\ (x >= m \/ y >= m)
    BY <2>5
  <2> QED BY <2>6 DEF x, y, m
<1> QED BY <1>3, <1>4

Seen == clock \in Nat /\ sightings \in SUBSET Nat /\ IsFiniteSet(sightings)

LEMMA SeenSteps ==
  /\ ScheduleInit => Seen
  /\ Seen /\ [ScheduleNext]_scheduleVars => Seen'
<1>1. ScheduleInit => Seen
  BY FS_EmptySet DEF ScheduleInit, Seen
<1>2. ASSUME Seen, [ScheduleNext]_scheduleVars PROVE Seen'
  <2>1. CASE Sight
    <3>1. IsFiniteSet(sightings \cup {clock})
      BY <1>2, FS_AddElement DEF Seen
    <3> QED BY <1>2, <2>1, <3>1 DEF Sight, Seen
  <2>2. CASE PassTime
    BY <1>2, <2>2 DEF PassTime, Seen
  <2>3. CASE UNCHANGED scheduleVars
    BY <1>2, <2>3 DEF scheduleVars, Seen
  <2> QED BY <1>2, <2>1, <2>2, <2>3 DEF ScheduleNext
<1> QED BY <1>1, <1>2

\* What the pattern of some observations says.
LEMMA PatternOf ==
  ASSUME NEW seen \in SUBSET Nat, IsFiniteSet(seen), seen # {}, NEW at \in Nat
  PROVE  LET p == PredictRelease(seen, at) IN
         /\ p.weekdays = {(DayOf(t) + 4) % 7 : t \in seen}
         /\ p.minuteOfDay \in 0..DAY - 1
         /\ \E t \in seen : Minute(t) =< p.minuteOfDay
         /\ \E t \in seen : Minute(t) >= p.minuteOfDay
         /\ p.confidence = "learned" => Cardinality(seen) >= 3
<1> DEFINE p == PredictRelease(seen, at)
           value == [day \in Days(seen) |-> MinuteOf(seen, day)]
           start == [t \in seen |-> DayStart(t)]
<1>0. DAY \in Nat \ {0} /\ VN_OFFSET \in Int /\ DAY - 1 \in Nat
  BY ScheduleAssumption
<1>1. /\ IsFiniteSet(Days(seen)) /\ Cardinality(Days(seen)) =< Cardinality(seen)
      /\ Cardinality(Days(seen)) \in Nat /\ Cardinality(seen) \in Nat /\ Days(seen) # {}
  <2>1. start \in Surjection(seen, Days(seen))
    BY DEF Surjection, Days
  <2>2. IsFiniteSet(Days(seen)) /\ Cardinality(Days(seen)) =< Cardinality(seen)
    BY <2>1, FS_Surjection
  <2>3. Days(seen) # {}
    BY DEF Days
  <2> QED BY <2>2, <2>3, FS_CardinalityType
<1>2. p.weekdays = {(DayOf(t) + 4) % 7 : t \in seen}
  <2>1. \A t \in seen : Weekday(DayStart(t) + DAY \div 2) = (DayOf(t) + 4) % 7
    <3> SUFFICES ASSUME NEW t \in seen
                 PROVE  Weekday(DayStart(t) + DAY \div 2) = (DayOf(t) + 4) % 7
      OBVIOUS
    <3>1. DayOf(t) \in Int /\ DayStart(t) = DAY * DayOf(t) - VN_OFFSET
      BY Moment
    <3>2. DAY \div 2 \in 0..DAY - 1
      BY <1>0
    <3> QED BY <3>1, <3>2, MomentIs
  <2>2. p.weekdays = {Weekday(d + DAY \div 2) : d \in Days(seen)}
    BY DEF PredictRelease
  <2>3. {Weekday(d + DAY \div 2) : d \in Days(seen)} = {Weekday(DayStart(t) + DAY \div 2) : t \in seen}
    BY DEF Days
  <2> QED BY <2>1, <2>2, <2>3
<1>3. \A day \in Days(seen) : \E t \in seen : MinuteOf(seen, day) = Minute(t)
  <2> SUFFICES ASSUME NEW day \in Days(seen)
               PROVE  \E t \in seen : MinuteOf(seen, day) = Minute(t)
    OBVIOUS
  <2> DEFINE times == {t \in seen : DayStart(t) = day}
  <2>1. times \in SUBSET Nat /\ times # {}
    BY DEF Days
  <2>2. Earliest(times) \in times
    <3> HIDE DEF times
    <3> QED BY <2>1, LeastExists DEF Earliest
  <2>3. MinuteOf(seen, day) = Minute(Earliest(times))
    BY DEF MinuteOf
  <2> QED BY <2>2, <2>3
<1>4. \A t \in seen : Minute(t) \in Nat /\ Minute(t) =< DAY - 1
  BY <1>0, Moment
<1>5. /\ DOMAIN value = Days(seen)
      /\ \A d \in DOMAIN value : \E t \in seen : value[d] = Minute(t)
  BY <1>3
<1>6. p.minuteOfDay = Median(value)
  BY DEF PredictRelease
<1> HIDE DEF p, value
<1>7. \A d \in DOMAIN value : value[d] \in Nat /\ value[d] =< DAY - 1
  BY <1>4, <1>5
<1>8. /\ Median(value) \in 0..DAY - 1
      /\ \E d \in DOMAIN value : value[d] =< Median(value)
      /\ \E d \in DOMAIN value : value[d] >= Median(value)
  BY <1>0, <1>1, <1>5, <1>7, MedianBetween
<1>9. /\ \E t \in seen : Minute(t) =< p.minuteOfDay
      /\ \E t \in seen : Minute(t) >= p.minuteOfDay
  BY <1>5, <1>6, <1>8
<1>10. p.confidence = "learned" => Cardinality(seen) >= 3
  <2>1. p.confidence = IF Cardinality(Days(seen)) >= 3 THEN "learned" ELSE "guess"
    BY DEF PredictRelease, p
  <2> QED BY <1>1, <2>1
<1> QED BY <1>2, <1>6, <1>8, <1>9, <1>10 DEF p

\* Every day of the week comes within seven days.
LEMMA WithinAWeek ==
  ASSUME NEW q \in Int, NEW w \in Int
  PROVE  /\ (q + 7 + 4) % 7 = (q + 0 + 4) % 7
         /\ \E i \in 0..6 : (q + i + 4) % 7 = (w + 4) % 7
<1> DEFINE i == (w - q) % 7
<1>1. i \in 0..6 /\ (q + i + 4) % 7 = (w + 4) % 7
  OBVIOUS
<1>2. (q + 7 + 4) % 7 = (q + 0 + 4) % 7
  OBVIOUS
<1> QED BY <1>1, <1>2

\* Whatever was seen, the next release that is predicted is the first moment
\* after now that fits the pattern, a week ahead at most.
LEMMA NextRelease ==
  ASSUME NEW seen \in SUBSET Nat, IsFiniteSet(seen), seen # {}, NEW at \in Nat
  PROVE  LET p == PredictRelease(seen, at) IN
         /\ p.nextAt \in at + 1..at + 7 * DAY
         /\ Expected(p, p.nextAt)
         /\ \A t \in at + 1..p.nextAt - 1 : ~Expected(p, t)
<1> DEFINE p == PredictRelease(seen, at)
           wd == p.weekdays
           m == p.minuteOfDay
           q == DayOf(at)
           r == Minute(at)
           on(i) == DAY * (q + i) - VN_OFFSET + m
           next == {i \in DaysTried : (q + i + 4) % 7 \in wd /\ on(i) > at}
<1>1. /\ wd = {(DayOf(t) + 4) % 7 : t \in seen} /\ m \in 0..DAY - 1
  BY PatternOf
<1>2. /\ DAY \in Nat \ {0} /\ VN_OFFSET \in Int /\ DaysTried = 0..7
  BY ScheduleAssumption DEF DaysTried
<1>3. /\ q \in Int /\ r \in 0..DAY - 1 /\ DAY * q \in Int
      /\ at = DAY * q - VN_OFFSET + r /\ DayStart(at) = DAY * q - VN_OFFSET
  BY Moment
<1>4. ASSUME NEW i \in Int
      PROVE  /\ on(i) \in Int /\ DAY * i \in Int /\ on(i) = DAY * q + DAY * i - VN_OFFSET + m
             /\ DayStart(at) + i * DAY + m = on(i)
             /\ Weekday(DayStart(at) + i * DAY + DAY \div 2) = (q + i + 4) % 7
             /\ Weekday(on(i)) = (q + i + 4) % 7 /\ Minute(on(i)) = m
  <2> HIDE DEF q, r, m, wd
  <2>0. q + i \in Int /\ m \in Int /\ DAY * i \in Int /\ i * DAY = DAY * i
    BY <1>1, <1>2, <1>3
  <2>1. DAY * (q + i) = DAY * q + DAY * i
    BY <1>2, <1>3
  <2>2. on(i) \in Int /\ Weekday(on(i)) = (q + i + 4) % 7 /\ Minute(on(i)) = m
    BY <1>1, <2>0, MomentIs
  <2>3. on(i) = DAY * q + DAY * i - VN_OFFSET + m
    BY <1>2, <1>3, <2>0, <2>1
  <2>4. DayStart(at) + i * DAY + m = on(i)
    BY <1>2, <1>3, <2>0, <2>3
  <2>5. DAY \div 2 \in 0..DAY - 1
    BY <1>2
  <2>6. DayStart(at) + i * DAY + DAY \div 2 = DAY * (q + i) - VN_OFFSET + DAY \div 2
    BY <1>2, <1>3, <2>0, <2>1, <2>5
  <2>7. Weekday(DayStart(at) + i * DAY + DAY \div 2) = (q + i + 4) % 7
    BY <2>0, <2>5, <2>6, MomentIs
  <2> QED BY <2>0, <2>2, <2>3, <2>4, <2>7
<1>5. p.nextAt = IF next = {} THEN NoRelease ELSE DayStart(at) + Earliest(next) * DAY + m
  <2>1. next = {i \in DaysTried :
                   LET day == DayStart(at) + i * DAY IN
                   Weekday(day + DAY \div 2) \in wd /\ day + m > at}
    BY <1>2, <1>4
  <2> QED BY <2>1 DEF PredictRelease
<1> HIDE DEF p, wd, m, q, r, on
<1>6. m \in Int /\ r \in Int
  BY <1>1, <1>2, <1>3
<1>7. ASSUME NEW i \in Nat, i >= 1 PROVE on(i) > at
  <2>0. i \in Int
    OBVIOUS
  <2>1. on(i) = DAY * q + DAY * i - VN_OFFSET + m /\ DAY * i \in Int
    BY <1>4, <2>0
  <2>2. DAY * i >= DAY
    BY <1>2, <1>7, <2>0, Multiples
  <2> QED BY <2>2, <1>1, <1>2, <1>3, <1>6, <2>1
<1>8. on(0) = DAY * q - VN_OFFSET + m /\ on(7) = on(0) + 7 * DAY
  <2>1. /\ on(0) = DAY * q + DAY * 0 - VN_OFFSET + m
        /\ on(7) = DAY * q + DAY * 7 - VN_OFFSET + m
    BY <1>4
  <2> QED BY <1>2, <1>3, <1>6, <2>1
<1>9. next # {}
  <2>1. PICK t \in seen : TRUE
    OBVIOUS
  <2>2. DayOf(t) \in Int /\ (DayOf(t) + 4) % 7 \in wd
    BY <1>1, <2>1, Moment
  <2>3. PICK i \in 0..6 : (q + i + 4) % 7 = (DayOf(t) + 4) % 7
    BY <1>3, <2>2, WithinAWeek
  <2>4. CASE i # 0
    BY <1>2, <1>7, <2>2, <2>3, <2>4
  <2>5. CASE i = 0 /\ on(0) > at
    BY <1>2, <2>2, <2>3, <2>5
  <2>6. CASE i = 0 /\ ~(on(0) > at)
    <3>1. (q + 7 + 4) % 7 \in wd
      BY <1>3, <2>2, <2>3, <2>6, WithinAWeek
    <3>2. 7 \in next
      BY <1>2, <1>7, <3>1
    <3> QED BY <3>2
  <2> QED BY <2>4, <2>5, <2>6
<1> DEFINE f == Earliest(next)
<1>10. f \in next /\ \A i \in next : f =< i
  <2>1. next \in SUBSET Nat
    BY <1>2
  <2> HIDE DEF next
  <2> QED BY <1>9, <2>1, LeastExists DEF Earliest
<1>11. p.nextAt = on(f)
  <2>1. f \in Int
    BY <1>2, <1>10
  <2>2. p.nextAt = DayStart(at) + f * DAY + m
    BY <1>5, <1>9
  <2> HIDE DEF f
  <2> QED BY <1>4, <2>1, <2>2
<1> HIDE DEF f
<1>12. f \in 0..7 /\ (q + f + 4) % 7 \in wd /\ on(f) > at /\ on(f) \in Int
  BY <1>2, <1>4, <1>10
<1>13. on(f) =< at + 7 * DAY
  <2>1. CASE f = 7
    <3>1. (q + 0 + 4) % 7 \in wd
      BY <1>3, <1>12, <2>1, WithinAWeek
    <3>2. 0 \notin next
      BY <1>10, <2>1
    <3>3. ~(on(0) > at)
      BY <1>2, <3>1, <3>2
    <3> QED BY <1>2, <1>3, <1>4, <1>6, <1>8, <2>1, <3>3
  <2>2. CASE f # 7
    <3>1. f \in Int /\ 7 - f \in Int /\ 7 - f >= 1
      BY <1>12, <2>2
    <3>2. DAY * (7 - f) >= DAY
      BY <1>2, <3>1, Multiples
    <3>3. DAY * (7 - f) = 7 * DAY - DAY * f
      BY <1>2, <3>1
    <3>4. on(f) = DAY * q + DAY * f - VN_OFFSET + m /\ DAY * f \in Int
      BY <1>4, <3>1
    <3> QED BY <1>1, <1>2, <1>3, <1>6, <3>2, <3>3, <3>4
  <2> QED BY <2>1, <2>2
<1>14. Expected(p, on(f))
  <2>1. Weekday(on(f)) = (q + f + 4) % 7 /\ Minute(on(f)) = m
    BY <1>4, <1>12
  <2> QED BY <1>12, <2>1 DEF Expected, wd, m
<1>15. ASSUME NEW t \in at + 1..on(f) - 1, Expected(p, t) PROVE FALSE
  <2> DEFINE d == DayOf(t) - q
  <2>1. t \in Int /\ t > at /\ t < on(f)
    BY <1>12
  <2>2. /\ DayOf(t) \in Int /\ t = DAY * DayOf(t) - VN_OFFSET + m
        /\ (DayOf(t) + 4) % 7 \in wd
    BY <1>15, <2>1, Moment DEF Expected, wd, m
  <2>3. d \in Int /\ DayOf(t) = q + d
    BY <1>3, <2>2
  <2> HIDE DEF d
  <2>4. t = on(d) /\ (q + d + 4) % 7 \in wd
    BY <2>2, <2>3 DEF on
  <2>5. /\ on(d) = DAY * q + DAY * d - VN_OFFSET + m /\ DAY * d \in Int
        /\ on(f) = DAY * q + DAY * f - VN_OFFSET + m /\ DAY * f \in Int /\ f \in Int
    BY <1>4, <1>12, <2>3
  <2>6. d >= 0
    <3> SUFFICES ASSUME d < 0 PROVE FALSE
      BY <2>3
    <3>1. -d \in Int /\ -d >= 1
      BY <2>3
    <3>2. DAY * (-d) >= DAY /\ DAY * (-d) = -(DAY * d)
      BY <1>2, <2>3, <3>1, Multiples
    <3> QED BY <1>1, <1>2, <1>3, <1>6, <2>1, <2>4, <2>5, <3>2
  <2>7. d < f
    <3> SUFFICES ASSUME d >= f PROVE FALSE
      BY <2>3, <2>5
    <3>1. CASE d = f
      BY <2>1, <2>4, <1>12, <3>1
    <3>2. CASE d # f
      <4>1. d - f \in Int /\ d - f >= 1
        BY <2>3, <2>5, <3>2
      <4>2. DAY * (d - f) >= DAY /\ DAY * (d - f) = DAY * d - DAY * f
        BY <1>2, <2>3, <2>5, <4>1, Multiples
      <4> QED BY <1>2, <1>3, <1>6, <2>1, <2>4, <2>5, <4>2
    <3> QED BY <3>1, <3>2
  <2>8. d \in next
    BY <1>2, <1>12, <2>1, <2>3, <2>4, <2>6, <2>7
  <2> QED BY <1>10, <1>12, <2>3, <2>7, <2>8
<1>16. on(f) \in at + 1..at + 7 * DAY
  BY <1>2, <1>12, <1>13
<1> QED BY <1>11, <1>14, <1>15, <1>16 DEF p

LEMMA SeenPredicts == Seen => PredictsTheNextRelease
<1> SUFFICES ASSUME Seen, Used # {} PROVE PredictsTheNextRelease
  BY DEF PredictsTheNextRelease
<1>1. Used \in SUBSET Nat /\ IsFiniteSet(Used) /\ clock \in Nat
  BY FS_Subset DEF Seen, Used
<1> DEFINE p == PredictRelease(Used, clock)
<1>2. /\ p.nextAt \in clock + 1..clock + 7 * DAY
      /\ Expected(p, p.nextAt)
      /\ \A t \in clock + 1..p.nextAt - 1 : ~Expected(p, t)
  BY <1>1, NextRelease
<1>3. /\ p.weekdays = {(DayOf(t) + 4) % 7 : t \in Used}
      /\ \E t \in Used : Minute(t) =< p.minuteOfDay
      /\ \E t \in Used : Minute(t) >= p.minuteOfDay
      /\ p.confidence = "learned" => Cardinality(Used) >= 3
  BY <1>1, PatternOf
<1>4. {(DayOf(t) + 4) % 7 : t \in Used} = {Weekday(t) : t \in Used}
  BY <1>1, Moment
<1> HIDE DEF p
<1> QED BY <1>2, <1>3, <1>4 DEF PredictsTheNextRelease, p

\* The prediction is right whenever something was seen, for any length of the
\* day, any offset of Vietnam and any number of sightings (predictRelease).
THEOREM NextReleasePredicted == ScheduleSpec => []PredictsTheNextRelease
BY SeenSteps, SeenPredicts, PTL DEF ScheduleSpec


-----------------------------------------------------------------------------
(* The jobs side by side.                                                  *)

\* The types of the reminders, the new-episode job and the push devices hold
\* together: each of them moves as its own specification says, or not at all.
THEOREM JobsTypes == MCSpec => []JobsTypeOK
<1>1. MCInit => RemindersInit /\ PushInit /\ NewEpisodesInit
  BY DEF MCInit
<1>2. [MCNext]_mcVars => [RemindersNext]_reminderVars /\ [PushNext]_pushVars
                         /\ [NewEpisodesNext]_newEpisodesVars
  BY DEF MCNext, mcVars
<1>3. MCSpec => RemindersSpec /\ PushSpec /\ NewEpisodesInit /\ [][NewEpisodesNext]_newEpisodesVars
  BY <1>1, <1>2, PTL DEF MCSpec, RemindersSpec, PushSpec
<1>4. NewEpisodesInit => EpisodeInv /\ CheckedInv
  BY EpisodeStarts, CheckedStarts
<1>5. (EpisodeInv /\ CheckedInv) /\ [NewEpisodesNext]_newEpisodesVars => (EpisodeInv /\ CheckedInv)'
  BY EpisodeSteps, CheckedSteps
<1>6. EpisodeInv /\ CheckedInv => NewEpisodesTypeOK
  BY EpisodeTypesHold
<1>7. RemindersTypeOK /\ NewEpisodesTypeOK /\ PushTypeOK => JobsTypeOK
  BY DEF JobsTypeOK
<1> QED BY <1>3, <1>4, <1>5, <1>6, <1>7, ReminderTypes, PushTypes, PTL

=============================================================================
