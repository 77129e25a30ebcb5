# Verification of movie-aggregator-api

TLA+ models of the stateful parts of the API server, the TLC runs that check them on
small instances, and TLAPS proofs for every value of the constants. Paths are relative
to the repository. Where a deployment may run with or without Redis the models use
Redis, except `RateLimit`, which has both.

## How to run

    tlc -config Sessions.cfg MCSessions                # one of the runs below
    tlapm RefreshTokensProofs.tla                      # the proofs

## The system

A NestJS server, run as one or several instances that share a PostgreSQL database
(Prisma), Redis and Supabase. JavaScript runs one handler at a time, but handlers
interleave at every `await`, timers fire between them, and several instances run truly
in parallel. A step of a model is therefore the code between two awaits together with
the statement it sends.

| Component | State | Operations | What is hard | Module |
|---|---|---|---|---|
| Refresh tokens (`platform/auth`) | `refresh_tokens` rows, the cookie of each browser | refresh, login, session, logout, update-password | lost answers, concurrent requests, outages of Supabase, a failure between two awaits | `RefreshTokens` |
| Account approval (`platform/auth`) | profile status, Supabase user, OAuth states | register, login, Google callback, approve, reject | window between createUser and the pending update, a trigger nobody sees, sockets that outlive a decision | `AccountApproval` |
| Rate limit (`platform/common/rate-limit.guard.ts`) | buckets in memory or a counter in Redis | check | crash between INCR and PEXPIRE | `RateLimit` |
| Playback queue (`platform/watch-party`) | debounced seek, queue of tasks, Redis playback state, row | play, pause, seek, episode change, episode end, REST update | tasks of several round trips, several instances, restarts | `PlaybackQueue` |
| Buffering | timers, Redis hash, auto-pause mark | viewer reports, timeout, disconnect | handlers of several viewers meet at every await | `RoomBuffering` |
| Control and presence | row, Redis control and presence keys, grace timers | settings, co-hosts, transfer, join, leave, create, delete | read-modify-write, cache-aside fills, the grace timer of several instances | `RoomControl` |
| Media and episode queue | row, Redis media key | episode change and end, REST update of episode and queue | reports of all viewers, publishes in another order than the writes | `RoomMedia` |
| Scheduler and reminders | reminders, claims in rows and Redis | remind me, tick | claim then crash, several instances, windows | `Reminders` |
| New-episode notifier, schedule page | episode state, events, lock | tick, view | lock expiry, crash before the push, two observers, details from caches of different ages | `NewEpisodes` |
| Release schedule | events | predict | week wrap, days of Vietnam | `Schedule` |
| Push subscriptions | rows | subscribe, unsubscribe, send | an endpoint changes hands while a send runs | `PushDevices` |
| Movies and upstream client | none between requests | list, metadata, detail, image | fallback, retries, which error is reported | `MovieSources` |
| Movie cache | L1 map, in-flight loads, Redis | getOrLoad | single flight, expiry, eviction, late writes | `MovieCache` |
| Moments (`platform/moments`) | counts in memory, rows | record, flush, shutdown | failed or unanswered upsert, memory cap | `Moments` |
| Watch history | row | upsert, remove | find then write by two devices | `WatchHistory` |
| Watchlists | rows | save all, share | find then write; links handed out | `Watchlists` |
| Skip markers | rows | mark, unmark, consensus | groups, medians edge by edge | `SkipMarkers` |
| Comments, danmaku, ratings, profiles, favorites, preferences, admin, analytics, recommendations, wrapped, permissions cache, i18n, config | rows or none | single-row operations, mapping | little: no state kept between two steps | – |

Interactions: the REST playback update (`watch-party.service.ts`) writes the row,
publishes the media and hands the state to the gateway; the gateway records reactions
with `MomentsService`; every permission check of the gateway reads the control key; the
scheduler emits through the gateway, claims in its store and pushes through
`PushService`, as the notifier does; the schedule page and the notifier write the same
episode state; guards read the profile on every REST request,
the gateway only the signature of the token; the schedule page and the notifier read
titles through the movie cache of their instance.

## The modules

| Module | Models | Composition |
|---|---|---|
| `RefreshTokens` | rotation of refresh tokens and the cookie | – |
| `PlaybackControl` | what the room promises its controllers (abstract) | – |
| `PlaybackQueue` | debounce, queue, Redis, row of one room | implements `PlaybackControl` |
| `RoomBuffering` | waiting for viewers who buffer | EXTENDS `PlaybackQueue`; still implements `PlaybackControl` |
| `RoomControl` | hosts, co-hosts, settings, presence, life of a room | side of `MCRooms` |
| `RoomMedia` | episode, queue and their cache | side of `MCRooms` |
| `Reminders`, `NewEpisodes`, `Schedule`, `PushDevices` | background jobs | sides of `MCJobs` |
| `MovieSources`, `MovieCache`, `Moments`, `AccountApproval`, `RateLimit`, `WatchHistory`, `Watchlists`, `SkipMarkers` | the services behind the REST API | sides of `MCServices` |
| `RefreshTokensProofs`, `RoomControlProofs`, `RemindersProofs` | theorems about the module they are named after | EXTEND it |
| `PlaybackProofs` | theorems about `PlaybackQueue`, `RoomBuffering` and their refinement of `PlaybackControl` | EXTENDS `RoomBuffering` |
| `RoomMediaProofs` | theorems about `RoomMedia`, and the types of `MCRooms` | EXTENDS `MCRooms`, `RoomControlProofs` |
| `JobsProofs` | theorems about `PushDevices`, `NewEpisodes` and `Schedule`, and the types of `MCJobs` | EXTENDS `MCJobs`, `RemindersProofs` |
| `MoviesProofs` | theorems about `MovieSources`, `MovieCache` and `SkipMarkers` | EXTENDS the three |
| `ServicesProofs` | theorems about `Moments`, `AccountApproval`, `RateLimit`, `WatchHistory` and `Watchlists`, and the types of `MCServices` | EXTENDS `MCServices`, `MoviesProofs` |
| `MC*` | symmetry, and components side by side | EXTEND what they check |

Components that share no state are checked by one TLC run: the variable `side` chooses
one of them in the initial state and the others never move. In `MCSessions` and
`MCRoomPlayback` it chooses which of two instances of one component is explored. The states of the run are
the sum, not the product, of theirs, and every property is that of its component. Each
component is proved about by itself; the types are also proved of the composition.

Operators introduced as "Variant" next to an action are mutations of the code; they show
that the properties can fail and are used by no specification.

### RefreshTokens

A row is its id; the cookie holds the id, since the hash determines it. `req` holds one
record per request in progress, and its `pc` names the await it is at. `RefreshFind`,
`AccountOk` / `AccountBarred` / `AccountUnavailable`, `IssueChild` and `RetireAncestors`
are the awaits of `refresh` (the Supabase lookup and the profile read, both of which can
only refuse, are one step); `LogoutFind`, `LogoutChain`, `LogoutDelete` those of
`logout`; `IssueRoot` stands for password and Google login and for
`session?issue_refresh=1`. `Abandon` makes the browser give up on a request, so its
answer is lost; `Fail` ends a request between any two awaits. `Legacy` rows are those
soft-revoked by an earlier version, which the code still deletes on logout. Histories:
`root` (the login a token descends from), `held` (tokens a browser received),
`loggedOut` and `reset` (sessions ended on purpose).

`ConcurrentTabs = FALSE` says that the requests of a browser take turns. Nothing in the
server enforces it: it is the assumption under which rotation keeps its promise, and
`refresh_tabs_race` shows what happens without it.

### AccountApproval

One e-mail address. A request in `signIn` stands at an await of `register`, `login` or
`handleGoogleCallback`; `ensureProfile` is `FindProfile`, `Rename`, `InsertProfile` and
`Reread`. The trigger that inserts profiles is outside the repository: `CreateUser` may
or may not leave an approved profile. `held` remembers that somebody was told to wait
and that no administrator approved since. An access token is used in two ways, and
`served` says which one the last step was: `UseToken` is a REST request, for which
`validate` reads the profile (`Admits`); `SocketConnect` is `handleConnection`, which
verifies the signature alone, and `SocketMessage` what the socket sends afterwards, for
as long as it stays connected. `HeldBack` is about the first and `EveryUseIsGated` about
both; the second is what the code says and does not do. What a socket may send is the
subject of the watch-party modules. OAuth states live in one process: a callback takes its
state before the first await, `GoogleStart` removes lapsed ones, a restart all of them.

### RateLimit

One route, one client. `CheckLocal` is synchronous; `Incr`, `Pexpire`, `Pttl` are three
round trips, and `CallFails` loses the one under way. `orphan` marks a counter whose
`Pexpire` was lost that way.

### PlaybackQueue and PlaybackControl

One room. Per instance: the debounced seek (`pending`), the queue of tasks with the
running one at its head, and where that one is (`worker`). Shared: the Redis playback
key (`cache`), the auto-pause mark, the media key and the row (`db`). A worker step is
one round trip. A position is named by the command that sets it and an episode by the
command that switched to it, so "0" is the start of the first episode and a larger
number a later command; comparing positions then means comparing commands. The sequence
number of a commit is not a variable: the Lua script assigns it with the store, in one
step. A command says who gave it (`by`), since the server pauses and resumes as well,
and a report of an episode's end which episode it is about (`from`).

`PlaybackControl` promises that the commands given through one instance take effect one
at a time, in order, each on the state its predecessor left, and that each is settled.
It names the exceptions the code makes: a seek gives way to the next seek and to an
episode change, an episode change or a resume by the server overtakes a debounced seek,
a report of an episode's end may find nothing to do, a fault loses commands. Instances
do not order their commands among each other; only on one instance does a seek or an
episode change keep the mode of the state it finds. `PlaybackQueue!InOrder` maps
`waiting` to the tasks not yet committed followed by the debounced seek, and `room` to
the cache.

### RoomBuffering

`entry` is `bufferingBySocket`, `buffering` the Redis hash, `marked` the auto-pause key.
A handler step is the code between two answers of Redis with the command it sends next;
what follows its last answer is a step of its own. `orphan` holds sockets whose entry
was overwritten by a second report: the first timer can no longer be cleared. There is
no clock: a timer fires at any time after it was armed. The cooldown and the
`waitForBuffering` setting only silence reports, and a report that is not made models
both. `Stale` removes entries of the hash with no timer behind them, which is what the
age cutoff of `listWaiting` does for entries of a dead instance.

### RoomControl

The row of one code, its members, and the two Redis keys. A handler occupies a slot;
`task[k].seen` is the copy of the row it holds. `Get`, `ReadRow` and `Fill` are
`loadControl`; `Join`, `JoinPresent` and `Disconnect`, `Leave`, `Schedule` the sockets;
`Fire`, `AutoRead`, `AutoList`, `Handover`, `Publish` the automatic transfer. A transfer
by hand shares `Handover` and `Publish`. `ClearRoomState` runs after a create and a
delete; an administrator's delete (`AdminDelete`) clears nothing. `FireOrphan` is a
timer whose entry in the map was overwritten: it fires anyway and deletes its
successor's entry. Histories: `lapses` says that a write passed by a handler that still
held a copy, or that a publish was lost; `stray` names sockets whose presence nobody
will remove; `steady` the transfers whose host was listed all along.

### RoomMedia

Row, media key and the tasks of the room: `episode:change` and `episode:ended` take
turns per instance, REST updates and readers' fills do not. `Advance` decides on the
cached state what plays next, `ReportWins` is the conditional update that lets one
report of an episode's end through. `mediaLapses` is as in `RoomControl`; reports of the
same end do not count as crossing, since the row tells them apart.

### Reminders, NewEpisodes, Schedule, PushDevices

`Reminders` has a clock in ticks and a job per instance: `FindDue`, `Claim`, `Send` for
each due reminder, `FindStarting`, `ClaimStart`, `Announce` for the start. A job judges
what is due by the time it began. A server that failed or was stopped ticks again when
it is back. `NewEpisodes` models the four statements of `observe`
and `markNotified` for the job and for the schedule page, `JobTick` with the lock,
`Pick` with the sort by `checkedAt`. Both read a title through `MoviesService`, from the
memory of their instance (60 s) over Redis (10 min): `kept` is the oldest number a cache
or another source may still answer, and `Answers` anything from there to `upstream`, on
any instance and in any order; `Forget` is the expiry of the oldest answers. A detail
lives eleven minutes in both levels together (`FreshEnough`), the key of the job
nineteen: `LockExpires` therefore waits until the checks of its run are over and no
cache holds less than they announced, or counts as a mishap (`rushed`, a run slower than
the difference; so does a run without the lock, when Redis does not answer). Nothing
separates the views of the schedule page, so the row may move back. Histories: `mixed`
names titles that two observers met on, that two sources served, or that a rushed run
read an old answer of; `behind` those whose row an older detail was stored over.
`AnnouncedOncePerEpisode` speaks of titles that are not `mixed`, `ReleaseLoggedOnce` of
titles in neither, `ReleaseNeverLost` of all; `ReleaseHistory` is the last two together.
`Schedule` is `predictRelease` over all sets of sightings, compared with a definition of "the next
moment on a day and at a time of day seen"; sorting and picking the middle is written
as the value with so many below it. `PushDevices` has one send at a time in the
middle of which browsers change hands.

### MovieSources and MovieCache

`MovieSources` follows one request: its checks, one action per HTTP call with one of
nine answers, retries, what each normalizer makes of the body, `SourceFails` with the
fallback. `MovieCache` has `l1` (the Map in its order), `loading` (`inFlight`), `l2`
(Redis), `writing` (SETs sent and not answered), and requests that work or have joined.
Time passes in minutes, the life of an entry in memory; an entry carries the age of its
answer, which grows as long as the entry lives. What a load comes to is any
outcome `MovieSources` allows: an answer of a source the request may reach, or an error.

### Moments

`pending` counts per key, `batch` is the upsert under way, which the database may
execute (`Store`) before its answer arrives or is lost (`FlushFails`). The histories
`full`, `stopped` and `twice` name every way a count can be dropped or doubled, so
`Conserved` says there is no other way.

### WatchHistory, Watchlists, SkipMarkers

Each is the row (or rows) and the requests between their two statements.
`WatchHistory.stale` and `Watchlists.toggle[t].seen` tell a request that was overtaken
from one that was not. `SkipMarkers` has no concurrency: it is the consensus of
`skip-consensus.util.ts` over the marks any sequence of requests may leave. The
repository reads the latest 500 marks of an episode (`take: 500`), which is left out:
with more of them the votes are those among the latest.

## The runs

| Run | Shows | Bounds |
|---|---|---|
| `sessions` | one device: `CookieUsable`, rotation never logs it out; `UnauthorizedMeansDead`, a 401 only for a dead session; `RotatedStaysUsable`, a rotated token outlives every lost answer. Two users on two devices: `OneDeviceOnly` | 2 request slots (one may still run after the browser gave up); 4 rows, 1 outage; with two devices, 2 rows and a legacy one |
| `room_playback` | the queue implements `PlaybackControl` with liveness (`InOrder`); `RowFollowsCache`: the row ends equal to the cache. `SpellEnds`: nobody is waited for forever | 1 instance, 1 fault; 3 commands of every kind, or 1 play with 2 viewers and 2 reports |
| `buffering_wait` | `WaitersAgree`, `PersonClearsMark`, and `InOrderSteps` with the server's own pauses | 2 viewers, 2 handlers at once, 2 reports, 2 commands, 1 fault |
| `rooms` | `ControlFollowsRow`, `MediaFollowsRow`: the caches follow the row. `CoHostsInBounds`, `HandedOverOnce`, `PresentHostKeeps`: who may control the room. `ListedAreConnected`: presence. `AdvancesInOrder`: an episode ends once | 2 instances, 2 handlers at once, 3 users, 3 joins, requests or faults, 2 rooms one after another; 2 episodes, queue of 2 |
| `jobs` | `RemindedOnce`, `StartAnnouncedOnce`, `AnnouncedOncePerEpisode`, `ReleaseHistory`, `PushesReachTheirHolder`, `PredictsTheNextRelease` | 2 instances, 2 people, 1 fault; 1 series, 3 releases, 1 view, every age of a cached detail; clock of 12 short days, 3 sightings |
| `services` | `NotFoundEverywhere`, `FreshEnough`, `LoadsAreShared`, `PinnedSourceAnswers`, `Conserved`, `Bounded`, `HeldBack`, `OneSignInPerState`, `LimitKept`, `ResumesWhereItWas`, `LinkStays`, `SegmentIsBacked` | 2 instances, 2 requests at once; every answer of 3 sources with 1 retry; 2 keys of one context; 2 OAuth states; limit 2; positions 0 to 3; 2 lists, 4 links; 4 viewers |

Why the bounds are enough to be worth the run: four rows hold a token, its parent and
two siblings, the largest family `retireAncestors` and `deleteForLogout` look at; three
commands are a seek, what overtakes it and what is queued behind both; two viewers and
two handlers are what the last and the next-to-last waiter need. Every race in the rooms
is one of two handlers, on one instance or two; three inputs are a host, who leaves, and
a request that meets the transfer, and a second room is a code used again. `MaxTick <
STARTING_WINDOW` keeps a tick shorter than the claim, which twenty statements justify.
That nobody is forgotten needs more instances than failures, and as many full batches
between the start and the late limit as there may be requests
(`EnoughTicks`); with `LATE_REMINDER = 4` and `MaxTime = 8` two ticks of one batch fit
and the clock passes the limit. A day of three units with an offset of one keeps UTC
days apart from those of Vietnam; twelve of them are more than a week, and three
sightings are what "learned" asks for. With three releases an answer may be older than
both the one recorded and the one announced. A cap of one entry (`L1_MAX_ENTRIES`,
`MaxPending`) makes every second key an eviction or a loss. Four viewers with marks on three edges form two
groups of the same size. The playback, buffering, room, job and service specifications
stop when their bounds are used up, so these runs do not check for deadlock; the runs of
the refresh tokens do.

## Disagreements found

Each of these is a run that TLC ends with a violation.

| Run | What happens | What is said |
|---|---|---|
| `refresh_tabs_race` | two siblings used at once delete each other, before the replacement of either arrived | `refresh-tokens-parent-migration.sql:1`, a rotated token stays usable until its replacement is used |
| `buffering_resume` | the last viewer recovers before the mark is set; the room is then paused for nobody | `docs/PLATFORM.md:111`, the server resumes once nobody buffers |
| `room_host_gone` | the host leaves last; the grace timer finds nobody; viewers who join later are in a room nobody controls | `docs/PLATFORM.md:112`, a host gone for 30 seconds loses the role to whoever is there |
| `new_episodes_starved` | followed films never get a state row, so they are picked first on every tick and a series may wait forever | `new-episode-notifier.service.ts:18`, every followed series is checked |
| `new_episodes_relogged` | an instance answers from an older cached detail after another recorded a newer one: the row moves back, and the release is logged again; the learned weekdays and times count it twice | `schema.prisma:149`, an event is a series seen moving to a new episode; `movie-cache.service.ts:7`, instances stay in step |
| `approval_sockets` | a socket is admitted by the signature of a token (`watch-party.gateway.ts:162`) and serves an account that was rejected or made to wait, after the decision and after the token has expired | `account-status.util.ts:5`, the gate is shared by every way of using a session; `jwt.strategy.ts:24`, access is revoked immediately |

Others follow from the models' exceptions or from reading, and have no run of their own:

* A refresh past its lookup inserts a row after a password change deleted all rows
  (`refresh-tokens.repository.ts:62`).
* Two instances of one room: a seek keeps the mode its instance read while the other
  commits a pause (`watch-party.gateway.ts:687`), although `docs/WATCH_PARTY_FE.md:98`
  says a seek never changes it, and the rows of the two are written in another order
  than their commits. The order of the commands of each instance holds for any number of
  them (`CommandsInOrder`); the mode a seek keeps, `RowFollowsCache` and
  `PersonClearsMark` are stated for one, and `room_playback` has one.
* A seek whose timer fires while an episode change runs lands in the new episode
  (`watch-party.gateway.ts:278`).
* A pause pressed between the steps of the automatic pause or resume does not cancel the
  resume (`watch-party.gateway.ts:735`, `754`): the mark is set, or has been taken, by a
  state read before the pause. `docs/PLATFORM.md:111` says a pause by hand cancels it.
* Two requests that share a list for the first time at once give two links, and the
  later one wins (`watchlists.service.ts:52`; line 47 says the link stays the same).
  `LinkStays` names it.
* Settings, co-hosts and media written by crossing requests lose a change, or stay
  behind in the cache until the next publish: the `lapses` histories of `RoomControl`
  and `RoomMedia` name exactly those cases.
* A source that answers 429 is neither retried nor replaced: `handleResponse` turns the
  status into `BAD_REQUEST` (`upstream-client.service.ts:98`), though
  `UPSTREAM_RETRYABLE_STATUS` lists it.
* A registration that stops between `createUser` and the update to pending leaves an
  approved account (`auth.service.ts:168`); registering again is refused.
* A join that a disconnect or a crash interrupts leaves its socket in the presence list
  (`watch-party.gateway.ts:204`); `stray` names it.
* Two runs of the job that handle a series at the same moment, or the job and the
  schedule page, may push or log an episode twice, and so may a crash between the event
  and the update log it twice (`series-episode-state.repository.ts:28`); `mixed` names
  those titles. No release is left out (`ReleaseNeverLost`).
* The push under way to an endpoint that changes hands reaches its new holder
  (`push.service.ts:62`); `handed` names it.
* A crash between INCR and PEXPIRE leaves a counter that never expires, and the client is
  refused for ever once it reached the limit (`rate-limit.guard.ts:115`); `orphan` names
  it.
* Of two reports of progress at once the smaller may be stored last
  (`watch-history.service.ts:27`); `stale` names it.

The histories in this list (and `lapses`) are what a property excuses: it says that
nothing else leads there, not that the case they name cannot happen.

## Fairness

Safety needs none. `PlaybackQueue!Spec` and `RoomSpec` assume weak fairness of the
worker, of the requests and handlers in progress (a promise whose round trip ends is
continued by the event loop), and of armed timers. Controllers, viewers, disconnects,
faults and restarts are never forced. Fairness of `Stale` is the passage of time: an
entry no timer stands behind passes the cutoff. `RoomControl!Fairness` is the same:
handlers and timers, never people. `NewEpisodesFairness` makes the interval fire, a
check that began and a page being served go on, and the lock and what is cached
expire: a cached answer has a life that nothing prolongs, and the run the fairness is
for (`new_episodes_starved`) finds its counterexample with it.

## The proofs

No bound on users, instances, requests, keys or any other constant.

`RefreshTokensProofs`:

* `TypeInvariant`, `LinksInvariant`, `OneDevice` hold with any number of concurrent
  requests. The inductive invariant is `TypeOK /\ LineageInv`: a row has the owner and
  the root of its parent, a parent had reached a browser (`TokenLinks`), a request knows
  the owner of its token (`RequestLinks`), a replacement on its way is unknown to every
  browser (`PendingLinks`), a cookie was delivered (`JarLinks`). `OneDeviceOnly` then
  follows for each deleting step, because an ancestor or a member of the chain shares
  the root.
* `CookieStaysUsable`, `RefusedOnlyWhenDead` and `RotatedToken` assume
  `~ConcurrentTabs`. `CookieUsable` is not inductive: a retire must not reach the cookie
  of the browser, or the replacement about to become its cookie. `RotationInv` adds what
  prevents that: the presented token is the cookie (`OneRequest`), the delivered tokens
  of a login form a line that ends in the cookie (`OneHeir`), and the replacement a
  browser waits for is present (`PendingUsable`).

`RoomControlProofs`: every property of `RoomControl` the run `rooms` checks, for any
number of users, instances and handlers at once. `Stages` says where a handler of each
kind can be and what it knows there. On top of the types:

* `PresenceHolds` needs that a join under way belongs to a connected socket, or its
  entry is known to stay (`JoinsConnected`).
* `PresentHostKept` rests on `SteadyListed`: a transfer whose host has been listed all
  along is still at its two reads; only a handler at its write publishes.
* `HandedOnce` follows from `RowSteps`, which lists every way the row can change.
* `ControlKeptCurrent` rests on `CopiesCurrent`: while no write passed a handler that
  holds a copy, every copy is the row and what is about to be published is its control
  part; `ControlCurrent` then has a writer under way whenever the key differs.
* `CoHostsBounded` rests on `CoHostsKept`: the limit holds for the copies too, and a
  request that adds somebody has left room in the copy it will write back.

`PlaybackProofs`:

* `PlaybackTypes` rests on `Stage`: the step of a running task says what kind it is and
  what it knows, so the head of a queue is never read when there is none.
* `CommandsInOrder` is the refinement of `PlaybackControl`, step by step. `Waits` maps a
  queue, its worker and the debounced seek to the commands that wait; each arrival,
  worker step and fault is a step of the abstract specification or changes neither
  `room` nor `waiting`. On one instance it needs `ModeKept`: nothing is committed
  between the step that reads the mode a seek keeps and the step that commits it.
* `RowEndsAsCache` assumes one instance. `RowFollowsCache` is not inductive, because a
  REST request writes the row before its command is given: `RowInv` says that a row
  that differs from the cache is about to be written by a request under way or by a task.
* `WaitingRoomTypes`, `WaitersHaveTimers` and `WaitingKeepsOrder` reuse these lemmas: a
  step of `RoomBuffering` is a step of the queue, an arrival of a server command, or
  leaves the queue alone. `PersonTakesOver` (one instance) rests on `MarkInv`: a marked
  room is about to be paused by the server, has a server command ahead, or follows one
  that nobody has taken over from.

`RoomMediaProofs`: `MediaTypes`; `MediaKeptCurrent` with `Follow`, which says that what
is read from the row or on its way to the key is the row, and that what was read from
the key may be older only while somebody publishes or for a report that will lose;
`EpisodesInOrder`, because the winning report's condition on the row makes its copy the
row.

`RemindersProofs`: `ReminderTypes`; `RemindersGoOutOnce` and `StartGoesOutOnce`. At
most once is `ClaimsInv` and `StartInv`: a mark in a row, or the key claimed for the
start, was made by the one that sends, has sent or was lost. At least once is a count:
only a failure keeps a server from ticking in time, each failure one server (`TimeInv`),
and a server that has completed `k` ticks since the start has sent `k` full batches or
has nobody left (`Completed`).

`JobsProofs`: `PushesToHolders` (a row names the holder of its browser, `RowsNameHolder`,
and what a send has read still does unless the browser changed hands,
`SendKnowsHolder`). `EpisodesAnnouncedOnce` and `ReleasesLoggedOnce` rest on `Clean` for
every title that is not `mixed`: one observer at a time (`Alone`), a check of the job
knows no less than was announced (`Ahead`), an episode had one fate at most (`Pushed`),
and, unless an older detail was stored over the row (`InOrder`), a sighting never moves
it back (`Steady`) and the log runs ahead of it by the release being stored (`Logged`).
`Ahead` is where the caches come in: it holds because runs keep their distance
(`Timely`: while no run was rushed, one host at most is at work and only with the key,
and what a check may still read is no older than what was announced when the run
began), and a rushed run that reads less puts its title into `mixed`. `ReleasesAreKept`
needs none of this: every observer logs before it updates (`Remembered`).
`NextReleasePredicted` is
arithmetic: a moment is a day and a minute of it (`Moment`, `MomentIs`), the median lies
between the values (`MedianBetween`), and every day of the week comes within seven days
(`WithinAWeek`).

`MoviesProofs`:

* `MissingEverywhere`: while a request goes on, every source before the present one was
  asked and had nothing, or could not be asked (`SearchGoesOn`).
* `OneFlightPerKey`. `LoadsAreShared` says nothing of `loading`, so the invariant ties
  the two together: a request that works is the load of its key (`WorkIsLoading`), every
  load is a request that works (`LoadingIsWork`), and whoever joined waits for the load
  its key still has (`JoinedIsLoading`). A load that settles frees exactly one key and
  takes its followers along.
* `AnswersAreFresh` and `PinnedAnswers`, with `CacheTypes`: in both levels the age of a
  live entry and what is left of its life are together at most the life of its key, and
  its source is the one the key names. An answer under way to Redis has no age
  (`Writes`): time does not pass while a SET is unanswered. Followers are answered with
  what they asked for because they share the key.
* `SegmentBacked`: the anchor with the largest group exists (`BestIsAGroup`), a rank of
  finitely many edges is one of them (`RankedEdge`), and the medians keep the length
  because at least as many marks begin by `E - 3` as end by `E` (`MediansOf`).

`ServicesProofs`:

* `NoRequestWhileWaiting`, about REST requests, rests on `HeldStatus` (who was told to
  wait is pending or rejected), which needs that a request past its user lookup works for a user who exists
  (`UserKnown`): otherwise a late `CreateUser` could approve a held account.
  `StateUsedOnce` rests on `StatesSpent`: a state still in the map has let nobody in.
* `LimitHolds` needs that a bucket, and a key up to the limit, have counted exactly what
  was let through (`BucketsCount`, `KeyCounts`).
* `PositionKept`; a report nobody overtook goes on from the present row (`Fresh`).
  `LinkKept`; a request that found a link stores that link (`KeepsLink`).
* `ReactionsConserved` is inductive with the types; `MemoryBounded` needs the
  cardinality of the map after each action, and for `FlushFails` that a returning batch
  adds only the keys there is room for.

`RoomsTypes`, `JobsTypes` and `ServicesTypes` carry the types over to the compositions
the runs check: a step of the composition is a step of each part or leaves it alone.

Assumptions: the named ASSUMEs of the modules, which every run evaluates, and the
hypotheses stated in a theorem: `~ConcurrentTabs` for three theorems about refresh
tokens, one instance for `RowEndsAsCache` and `PersonTakesOver`. `RemindedOnce` and
`StartAnnouncedOnce` carry the conditions for "nobody is forgotten" themselves.

Every safety property and every action property that a passing run checks is proved.
Only model-checked: the liveness part of `InOrder` (that commands are settled), of which
`CommandsInOrder` proves the rest; `SpellEnds`; and the six disagreements, which are
counterexamples. Liveness, and anything with ENABLED, is out of reach of the prover.

## Plan

What a next step would add, in this order:

1. `RoomControl` with a room that keeps its host under fairness: a viewer who stays gets
   a host.
2. What two instances of one room still promise each other: which of two rows stays, and
   that a mode lost to a crossing seek was committed by somebody.
3. The 24 hour expiry of the Redis keys as an action of the room modules, and the
   heatmap of `Moments`.

## Not modelled, and why

Mapping, formatting, validation of DTOs, translation, logging, configuration and the
single-row services (comments, danmaku, ratings, profiles, preferences, favorites,
administration) keep no state between steps. The role permissions cache copies a table
no endpoint changes: `reload()` has no caller. Recommendations and the yearly summary
rank what they read. HTTP to upstream sources and push delivery are I/O: their outcomes
are choices of the models. The in-memory fallback of the watch party without Redis, the
24 hour expiry of the Redis keys, chat messages, which are inserts and reads, and the
cookie's Max-Age are left out of the modules so far. `ensureOAuthProfile` has no caller.
