----------------------------- MODULE NewEpisodes -----------------------------
(***************************************************************************)
(* The job that pushes new episodes (new-episode-notifier.service.ts) and  *)
(* the two users of series-episode-state.repository.ts: that job and the   *)
(* schedule page (schedule.service.ts), which records sightings as well.   *)
(*                                                                         *)
(* A slug is a followed title; episode_current is a number, 0 stands for   *)
(* null.  checkedAt is the place of a slug in "checked", oldest first.     *)
(* The series of one run are checked at the same time (the code takes four *)
(* at a time).                                                             *)
(*                                                                         *)
(* Details come from MoviesService.getMovieDetail, through the memory of   *)
(* the instance over Redis (movie-cache.service.ts): an instance may be    *)
(* answered with an older number than another one was before.  "kept" is   *)
(* the oldest number an answer can still have, whoever asks.               *)
(*                                                                         *)
(* There is no clock.  The key of the job lives nineteen minutes, a detail *)
(* eleven at most: when the key expires, what was cached before the checks *)
(* of that run is gone.  A run too slow for that is one of the mishaps.    *)
(***************************************************************************)
EXTENDS Naturals, SequencesExt

CONSTANTS
    Hosts,               \* server instances
    Slugs,
    Films,               \* followed titles that are no series
    LastRelease,
    MAX_SLUGS_PER_TICK,
    MaxViews,            \* bound on visits of the schedule page
    MaxMishaps           \* bound on failures, crashes, slow runs and other sources

Page == "page"         \* the observer behind the schedule page

ASSUME NewEpisodesAssumption ==
    /\ Films \subseteq Slugs /\ Page \notin Hosts
    /\ {LastRelease, MAX_SLUGS_PER_TICK} \subseteq Nat \ {0} /\ {MaxViews, MaxMishaps} \subseteq Nat

Observers == Hosts \cup {Page}
Releases == 0..LastRelease

VARIABLES
    upstream,   \* episode_current of each title at its source
    kept,       \* the oldest one that a cache or another source may answer
    series,     \* series_episode_state: slug -> [episode, notified], or <<>>
    checked,    \* slugs with a row, by checkedAt
    events,     \* series_episode_events: how often each release was logged
    first,      \* history: the release a row was created with, which is no event
    locked,     \* Redis: the job's key exists
    run,        \* how far the job of a host is: it waits, picks its slugs or checks them
    check,      \* one check or sighting per observer and slug
    announced,  \* history: pushes of each episode, counted up to 2
    unsent,     \* history: pushes that died with their host
    silent,     \* history: first sightings by the job
    mixed,      \* history: slugs observed twice at once, or served by several sources
    behind,     \* history: slugs whose row an older detail was stored over
    rushed,     \* history: a run had no lock, or was too slow for it
    views, mishaps

sources == <<upstream, kept>>
excuses == <<mixed, behind, rushed>>
newEpisodesVars == <<sources, series, checked, events, first, locked, run, check, announced,
                     unsent, silent, excuses, views, mishaps>>

NoCheck == [pc |-> "none", current |-> 0, prev |-> 0]

NewEpisodesInit ==
    /\ upstream = [x \in Slugs |-> 1]
    /\ kept = [x \in Slugs |-> 1]
    /\ series = [x \in Slugs |-> <<>>]
    /\ checked = <<>>
    /\ events = [x \in Slugs |-> [e \in Releases |-> 0]]
    /\ first = [x \in Slugs |-> 0]
    /\ locked = FALSE
    /\ run = [h \in Hosts |-> "idle"]
    /\ check = [o \in Observers |-> [x \in Slugs |-> NoCheck]]
    /\ announced = [x \in Slugs |-> [e \in Releases |-> 0]]
    /\ unsent = [x \in Slugs |-> {}]
    /\ silent = [x \in Slugs |-> {}]
    /\ mixed = {}
    /\ behind = {}
    /\ rushed = FALSE
    /\ views = 0
    /\ mishaps = 0

UpTo2(n) == IF n < 2 THEN n + 1 ELSE 2

-----------------------------------------------------------------------------
(* The sources.                                                            *)

Release(x) ==
    /\ upstream[x] < LastRelease
    /\ upstream' = [upstream EXCEPT ![x] = @ + 1]
    /\ UNCHANGED <<kept, series, checked, events, first, locked, run, check, announced, unsent,
                   silent, excuses, views, mishaps>>

\* The answers with the oldest number expire, in the memory of every instance and
\* in Redis, or the source that was behind has caught up.
Forget(x) ==
    /\ kept[x] < upstream[x]
    /\ kept' = [kept EXCEPT ![x] = @ + 1]
    /\ UNCHANGED <<upstream, series, checked, events, first, locked, run, check, announced,
                   unsent, silent, excuses, views, mishaps>>

\* While the preferred source is down another one answers, which may be behind.
OtherSource(x) ==
    /\ mishaps < MaxMishaps
    /\ kept[x] > 1
    /\ mishaps' = mishaps + 1
    /\ kept' = [kept EXCEPT ![x] = @ - 1]
    /\ mixed' = mixed \cup {x}
    /\ UNCHANGED <<upstream, series, checked, events, first, locked, run, check, announced,
                   unsent, silent, behind, rushed, views>>

\* What getMovieDetail may answer.  Somebody asks for a title at any time, so an
\* instance may hold each of these; one that holds a newer one may still store an
\* older one that it asked for earlier in Redis, for the others.
Answers(x) == kept[x]..upstream[x]

-----------------------------------------------------------------------------
(* One run of the job.                                                     *)

\* Only one instance runs the job; without an answer of Redis all may.
JobTick(h) ==
    /\ run[h] = "idle"
    /\ \/ ~locked /\ locked' = TRUE /\ UNCHANGED <<rushed, mishaps>>
       \/ mishaps < MaxMishaps /\ mishaps' = mishaps + 1 /\ rushed' = TRUE /\ UNCHANGED locked
    /\ run' = [run EXCEPT ![h] = "pick"]
    /\ UNCHANGED <<sources, series, checked, events, first, check, announced, unsent, silent,
                   mixed, behind, views>>

\* notifiedEpisode; 0 stands for null and for a slug without a row.
Notified(x) == IF series[x] = <<>> THEN 0 ELSE series[x][1].notified

\* Variant: a detail may outlive the key.
LockExpiresEarly ==
    /\ locked
    /\ locked' = FALSE
    /\ \A h \in Hosts : run[h] = "idle" /\ \A x \in Slugs : check[h][x] = NoCheck
    /\ UNCHANGED <<sources, series, checked, events, first, run, check, announced, unsent, silent,
                   excuses, views, mishaps>>

\* When the run was over in time, its checks ended and no cache holds an older
\* detail than they were told.
LockExpires ==
    /\ locked
    /\ locked' = FALSE
    /\ \/ /\ \A h \in Hosts : run[h] = "idle" /\ \A x \in Slugs : check[h][x] = NoCheck
          /\ \A x \in Slugs : kept[x] >= Notified(x)
          /\ UNCHANGED <<rushed, mishaps>>
       \/ mishaps < MaxMishaps /\ mishaps' = mishaps + 1 /\ rushed' = TRUE
    /\ UNCHANGED <<sources, series, checked, events, first, run, check, announced, unsent, silent,
                   mixed, behind, views>>

\* Whether one slug comes before another: never-seen ones first, then the ones
\* checked longest ago.
Place(x) == IF Contains(checked, x) THEN SelectInSeq(checked, LAMBDA y : y = x) ELSE 0

Picks == {s \in SUBSET Slugs :
            /\ Cardinality(s) = IF Cardinality(Slugs) < MAX_SLUGS_PER_TICK
                                THEN Cardinality(Slugs) ELSE MAX_SLUGS_PER_TICK
            /\ \A x \in s, y \in Slugs \ s : Place(x) <= Place(y)}

Overlapping(o, xs) == {x \in xs : \E p \in Observers \ {o} : check[p][x] # NoCheck}

\* A check of an earlier, failed run may still be under way on this host.
Pick(h) ==
    /\ run[h] = "pick"
    /\ \A x \in Slugs : check[h][x] = NoCheck
    /\ \E s \in Picks :
          /\ check' = [check EXCEPT ![h] = [x \in Slugs |-> IF x \in s
                          THEN [NoCheck EXCEPT !.pc = "detail"] ELSE NoCheck]]
          /\ mixed' = mixed \cup Overlapping(h, s)
    /\ run' = [run EXCEPT ![h] = "checking"]
    /\ UNCHANGED <<sources, series, checked, events, first, locked, announced, unsent, silent,
                   behind, rushed, views, mishaps>>

EndRun(h) ==
    /\ run[h] = "checking"
    /\ \A x \in Slugs : check[h][x] = NoCheck
    /\ run' = [run EXCEPT ![h] = "idle"]
    /\ UNCHANGED <<sources, series, checked, events, first, locked, check, announced, unsent,
                   silent, excuses, views, mishaps>>

-----------------------------------------------------------------------------
(* checkOne, await by await.                                               *)

CheckAt(o, x, pc) == check[o][x].pc = pc
CheckGoto(o, x, pc) == check' = [check EXCEPT ![o][x].pc = pc]
EndCheck(o, x) == check' = [check EXCEPT ![o][x] = NoCheck]

\* The detail of the title; a failed fetch or a film ends the check.  Only when
\* runs follow each other too soon is it older than what was announced.
Detail(h, x) ==
    /\ CheckAt(h, x, "detail")
    /\ \E e \in Answers(x) :
          /\ IF x \in Films THEN EndCheck(h, x)
             ELSE check' = [check EXCEPT ![h][x] = [@ EXCEPT !.pc = "find", !.current = e]]
          /\ mixed' = IF rushed /\ e < Notified(x) THEN mixed \cup {x} ELSE mixed
    /\ UNCHANGED <<sources, series, checked, events, first, locked, run, announced, unsent,
                   silent, behind, rushed, views, mishaps>>

\* observe: the stored episode decides which statement follows.
ObserveFind(o, x) ==
    /\ CheckAt(o, x, "find")
    /\ check' = [check EXCEPT ![o][x].pc =
                   IF series[x] = <<>> THEN "create"
                   ELSE IF series[x][1].episode # check[o][x].current THEN "event" ELSE "update"]
    /\ behind' = IF series[x] # <<>> /\ check[o][x].current < series[x][1].episode
                 THEN behind \cup {x} ELSE behind
    /\ UNCHANGED <<sources, series, checked, events, first, locked, run, announced, unsent,
                   silent, mixed, rushed, views, mishaps>>

\* What follows observe in checkOne, and nothing on the schedule page.
Observed(o, x, notified) ==
    IF o = Page \/ notified = check[o][x].current THEN EndCheck(o, x)
    ELSE check' = [check EXCEPT ![o][x] = [@ EXCEPT !.pc = "mark", !.prev = notified]]

\* The insert of a second observer fails on the key; the error ends the run while
\* its other checks go on.
ObserveCreate(o, x) ==
    /\ CheckAt(o, x, "create")
    /\ IF series[x] = <<>>
       THEN /\ series' = [series EXCEPT ![x] = <<[episode |-> check[o][x].current, notified |-> 0]>>]
            /\ checked' = Append(checked, x)
            /\ first' = [first EXCEPT ![x] = check[o][x].current]
            /\ Observed(o, x, 0)
            /\ UNCHANGED run
       ELSE /\ EndCheck(o, x)
            /\ run' = IF o \in Hosts THEN [run EXCEPT ![o] = "idle"] ELSE run
            /\ UNCHANGED <<series, checked, first>>
    /\ UNCHANGED <<sources, events, locked, announced, unsent, silent, excuses, views, mishaps>>

\* Variant: the event is logged with the update, whatever the stored episode.
ObserveEventAlways(o, x) ==
    /\ check[o][x].pc \in {"event", "update"}
    /\ events' = [events EXCEPT ![x][check[o][x].current] = UpTo2(@)]
    /\ CheckGoto(o, x, "update")
    /\ UNCHANGED <<sources, series, checked, first, locked, run, announced, unsent, silent,
                   excuses, views, mishaps>>

\* Variant: the insert of the event is not awaited, so the update goes on without it.
ObserveEventUnawaited(o, x) ==
    /\ CheckAt(o, x, "event")
    /\ events' \in {events, [events EXCEPT ![x][check[o][x].current] = UpTo2(@)]}
    /\ CheckGoto(o, x, "update")
    /\ UNCHANGED <<sources, series, checked, first, locked, run, announced, unsent, silent,
                   excuses, views, mishaps>>

ObserveEvent(o, x) ==
    /\ CheckAt(o, x, "event")
    /\ events' = [events EXCEPT ![x][check[o][x].current] = UpTo2(@)]
    /\ CheckGoto(o, x, "update")
    /\ UNCHANGED <<sources, series, checked, first, locked, run, announced, unsent, silent,
                   excuses, views, mishaps>>

ObserveUpdate(o, x) ==
    /\ CheckAt(o, x, "update")
    /\ series' = [series EXCEPT ![x][1].episode = check[o][x].current]
    /\ checked' = Append(RemoveFirst(checked, x), x)
    /\ Observed(o, x, series[x][1].notified)
    /\ UNCHANGED <<sources, events, first, locked, run, announced, unsent, silent, excuses, views,
                   mishaps>>

\* Variant: the push goes first.
MarkAfterPush(h, x) ==
    LET c == check[h][x] IN
    /\ CheckAt(h, x, "mark")
    /\ IF c.prev = 0
       THEN /\ series' = [series EXCEPT ![x][1].notified = c.current]
            /\ EndCheck(h, x)
            /\ silent' = [silent EXCEPT ![x] = @ \cup {c.current}]
       ELSE /\ CheckGoto(h, x, "push")
            /\ UNCHANGED <<series, silent>>
    /\ UNCHANGED <<sources, checked, events, first, locked, run, announced, unsent, excuses,
                   views, mishaps>>

\* markNotified; the first sighting only sets the baseline.
MarkNotified(h, x) ==
    LET c == check[h][x] IN
    /\ CheckAt(h, x, "mark")
    /\ series' = [series EXCEPT ![x][1].notified = c.current]
    /\ IF c.prev = 0
       THEN EndCheck(h, x) /\ silent' = [silent EXCEPT ![x] = @ \cup {c.current}]
       ELSE CheckGoto(h, x, "push") /\ UNCHANGED silent
    /\ UNCHANGED <<sources, checked, events, first, locked, run, announced, unsent, excuses,
                   views, mishaps>>

Push(h, x) ==
    /\ CheckAt(h, x, "push")
    /\ announced' = [announced EXCEPT ![x][check[h][x].current] = UpTo2(@)]
    /\ EndCheck(h, x)
    /\ UNCHANGED <<sources, series, checked, events, first, locked, run, unsent, silent, excuses,
                   views, mishaps>>

-----------------------------------------------------------------------------
(* The schedule page and failures.                                         *)

\* forUser observes the ongoing series it lists.
ViewSchedule(x) ==
    /\ views < MaxViews
    /\ x \notin Films
    /\ check[Page][x] = NoCheck
    /\ views' = views + 1
    /\ \E e \in Answers(x) :
          check' = [check EXCEPT ![Page][x] = [NoCheck EXCEPT !.pc = "find", !.current = e]]
    /\ mixed' = mixed \cup Overlapping(Page, {x})
    /\ UNCHANGED <<sources, series, checked, events, first, locked, run, announced, unsent,
                   silent, behind, rushed, mishaps>>

\* Pushes that checks about to end will not send; the statement of a check that
\* is under way has been executed or has not.
Undone(o, xs) ==
    /\ unsent' = [x \in Slugs |-> IF x \in xs /\ CheckAt(o, x, "push")
                                  THEN unsent[x] \cup {check[o][x].current} ELSE unsent[x]]
    /\ mixed' = mixed \cup {x \in xs : CheckAt(o, x, "update")}

CheckFails(o, x) ==
    /\ check[o][x] # NoCheck /\ mishaps < MaxMishaps
    /\ mishaps' = mishaps + 1
    /\ Undone(o, {x})
    /\ EndCheck(o, x)
    /\ run' = IF o \in Hosts /\ ~CheckAt(o, x, "detail") THEN [run EXCEPT ![o] = "idle"] ELSE run
    /\ UNCHANGED <<sources, series, checked, events, first, locked, announced, silent, behind,
                   rushed, views>>

\* A host dies and comes back; its key in Redis stays until it expires.
HostCrash(h) ==
    /\ mishaps < MaxMishaps
    /\ mishaps' = mishaps + 1
    /\ Undone(h, Slugs)
    /\ run' = [run EXCEPT ![h] = "idle"]
    /\ check' = [check EXCEPT ![h] = [x \in Slugs |-> NoCheck]]
    /\ UNCHANGED <<sources, series, checked, events, first, locked, announced, silent, behind,
                   rushed, views>>

Observe(o, x) ==
    \/ ObserveFind(o, x) \/ ObserveCreate(o, x) \/ ObserveEvent(o, x) \/ ObserveUpdate(o, x)

HostStep(h) ==
    \/ Pick(h) \/ EndRun(h)
    \/ \E x \in Slugs : Detail(h, x) \/ Observe(h, x) \/ MarkNotified(h, x) \/ Push(h, x)

PageStep == \E x \in Slugs : Observe(Page, x)

NewEpisodesNext ==
    \/ \E x \in Slugs : Release(x) \/ Forget(x) \/ OtherSource(x) \/ ViewSchedule(x)
    \/ \E h \in Hosts : JobTick(h) \/ HostStep(h) \/ HostCrash(h)
    \/ PageStep
    \/ LockExpires
    \/ \E o \in Observers, x \in Slugs : CheckFails(o, x)

\* The interval fires again and again on every host, promises settle, the key and
\* what is cached expire.
NewEpisodesFairness ==
    /\ \A h \in Hosts : WF_newEpisodesVars(HostStep(h))
    /\ WF_newEpisodesVars(\E h \in Hosts : JobTick(h))
    /\ WF_newEpisodesVars(LockExpires)
    /\ \A x \in Slugs : WF_newEpisodesVars(Forget(x))
    /\ WF_newEpisodesVars(PageStep)

NewEpisodesSpec == NewEpisodesInit /\ [][NewEpisodesNext]_newEpisodesVars /\ NewEpisodesFairness

-----------------------------------------------------------------------------
(* Properties.                                                             *)

\* Types; a check that goes on to mark an episode has found its row.
NewEpisodesTypeOK ==
    /\ upstream \in [Slugs -> Releases] /\ first \in [Slugs -> Releases]
    /\ kept \in [Slugs -> Releases \ {0}] /\ \A x \in Slugs : kept[x] <= upstream[x]
    /\ \A x \in Slugs : series[x] \in {<<>>} \cup
          {<<r>> : r \in [episode : Releases \ {0}, notified : Releases]}
    /\ IsInjective(checked) /\ ToSet(checked) = {x \in Slugs : series[x] # <<>>}
    /\ run \in [Hosts -> {"idle", "pick", "checking"}]
    /\ \A o \in Observers, x \in Slugs :
          check[o][x].pc \in {"event", "update", "mark", "push"} => series[x] # <<>>

Pushing(x, e) == {h \in Hosts : CheckAt(h, x, "push") /\ check[h][x].current = e}

\* "A series is announced once per episode; the first sighting only sets the
\* baseline": while no two observers meet, one source answers and runs keep their
\* distance, an episode that is marked was pushed, is being pushed, died with its
\* host or was the baseline; none is pushed twice, and the baseline never, although
\* instances answer from caches of different ages.
AnnouncedOncePerEpisode ==
    \A x \in Slugs \ mixed, e \in Releases \ {0} :
        LET pushes == announced[x][e] + Cardinality(Pushing(x, e))
                        + (IF e \in unsent[x] THEN 1 ELSE 0) IN
        /\ pushes <= 1
        /\ e \in silent[x] => pushes = 0
        /\ series[x] # <<>> /\ series[x][1].notified = e => pushes = 1 \/ e \in silent[x]

\* A release enters the history that the schedule is learned from once, as long as
\* no two observers meet and no older detail is stored over the row.
ReleaseLoggedOnce ==
    \A x \in Slugs \ (mixed \cup behind), e \in Releases : events[x][e] <= 1

\* The event is logged before the row moves on: whoever meets whom, whatever fails
\* or crashes between two statements and however old a detail is, the stored
\* episode is in the history, unless it is the one the row was created with, and so
\* is the one that a sighting is about to store.
ReleaseNeverLost ==
    \A x \in Slugs :
        LET Known(e) == events[x][e] >= 1 \/ first[x] = e IN
        /\ series[x] # <<>> => Known(series[x][1].episode)
        /\ \A o \in Observers : CheckAt(o, x, "update") => Known(check[o][x].current)

\* The history the schedule is learned from leaves no release out, and has none twice
\* but for the cases named.
ReleaseHistory == ReleaseLoggedOnce /\ ReleaseNeverLost

\* What the schema says of series_episode_events: a row says "when a series was
\* seen moving to a new episode", so an episode has one at most.
EventsAreNewEpisodes ==
    \A x \in Slugs \ mixed, e \in Releases : events[x][e] <= 1

\* Every followed series is looked at again and again, although a run stops at
\* MAX_SLUGS_PER_TICK titles.
SeriesGetTheirTurn ==
    \A x \in Slugs \ Films : []<>(\E h \in Hosts : check[h][x] # NoCheck)

=============================================================================
