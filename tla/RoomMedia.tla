------------------------------ MODULE RoomMedia ------------------------------
(***************************************************************************)
(* What one watch-party room plays next: the episode and the queue in the  *)
(* watch_rooms row, the media key of Redis that caches them, episode:change *)
(* and episode:ended of watch-party.gateway.ts, updateQueue and the change *)
(* of episode in updatePlayback of watch-party.service.ts.                 *)
(*                                                                         *)
(* Episodes are numbered in the order of the movie's list; a queue entry   *)
(* is an episode with its server.  The tasks of a room take turns on each  *)
(* instance, REST requests and fills by readers (join, reactions) do not.  *)
(* One step is the code between two answers with the statement it sends.   *)
(* The position and the mode that a switch also sets are in PlaybackQueue, *)
(* who may give these commands is in RoomControl.                          *)
(***************************************************************************)
EXTENDS Naturals, SequencesExt

CONSTANTS
    MediaInstances,
    MediaSlots,        \* slots for tasks and requests in progress
    LastEpisode,
    MAX_QUEUE_LENGTH,
    MaxMediaInputs     \* bound on commands, requests and failures together

ASSUME MediaAssumption ==
    /\ LastEpisode \in Nat \ {0} /\ MAX_QUEUE_LENGTH \in Nat /\ MaxMediaInputs \in Nat

Episodes == 1..LastEpisode
NoEpisode == 0
Queues == SeqOf(Episodes, MAX_QUEUE_LENGTH)

VARIABLES
    mediaRow,    \* episodeName, episodeQueue and autoNext of the row
    mediaKey,    \* the Redis media key, <<>> or <<state>>
    mediaTask,   \* the task or request in each slot
    mediaInputs,
    mediaLapses  \* history: why the key or a decision may be behind the row

mediaVars == <<mediaRow, mediaKey, mediaTask, mediaInputs, mediaLapses>>

NoCopy == <<>>
NoTask == [op |-> "none", pc |-> "free", at |-> NoEpisode, item |-> NoEpisode,
           copy |-> NoCopy]

MediaInit ==
    /\ \E q \in Queues : mediaRow = [episode |-> 1, queue |-> q, autoNext |-> TRUE]
    /\ mediaKey = NoCopy
    /\ mediaTask = [k \in MediaSlots |-> NoTask]
    /\ mediaInputs = 0
    /\ mediaLapses = {}

\* toMediaState: what is cached of a row; a longer queue is cut.
ToMediaState(r) ==
    [r EXCEPT !.queue = SubSeq(@, 1, IF Len(@) > MAX_QUEUE_LENGTH THEN MAX_QUEUE_LENGTH ELSE Len(@))]

MediaAt(k, pc) == mediaTask[k].pc = pc
MediaGoto(k, pc) == mediaTask' = [mediaTask EXCEPT ![k].pc = pc]
MediaDone(k) == mediaTask' = [mediaTask EXCEPT ![k] = NoTask]
MediaStart(k, t) ==
    /\ mediaTask[k] = NoTask
    /\ mediaTask' = [mediaTask EXCEPT ![k] = t]
MediaInput == mediaInputs < MaxMediaInputs /\ mediaInputs' = mediaInputs + 1

\* A change of the row or of the key passes by whoever holds a copy, to decide on or to store.
\* Reports of the end of one episode do not: the row tells them apart, unless it
\* comes back to that episode.
Reports(k) == mediaTask[k].op = "auto"
Late(k, j) == /\ Reports(k) /\ Reports(j) /\ mediaTask[j].pc \in {"find", "switch"}
              /\ mediaTask[j].item # mediaRow'.episode
MediaCrossing(k) ==
    mediaLapses' = IF \E j \in MediaSlots \ {k} : mediaTask[j].copy # NoCopy /\ ~Late(k, j)
                   THEN mediaLapses \cup {"crossed"} ELSE mediaLapses

-----------------------------------------------------------------------------
(* The room's queue of tasks.                                              *)

RoomTasks == {"manual", "auto"}
Idle(i) == \A k \in MediaSlots : ~(mediaTask[k].op \in RoomTasks /\ mediaTask[k].at = i)

\* A task of the room, when those before it on this instance are over.
RoomTask(k, i, op, e) ==
    /\ MediaInput
    /\ Idle(i)
    /\ MediaStart(k, [NoTask EXCEPT !.op = op, !.pc = "get", !.at = i, !.item = e])
    /\ UNCHANGED <<mediaRow, mediaKey, mediaLapses>>

\* A controller switches the room to an episode.
EpisodeChange(k, i, e) == RoomTask(k, i, "manual", e)

\* Any viewer reports that an episode is over, possibly one that is no longer shown.
EpisodeEnded(k, i, e) == RoomTask(k, i, "auto", e)

\* A reaction or a join fills the key outside the queue.
ReadMedia(k) ==
    /\ MediaInput
    /\ mediaKey = NoCopy
    /\ MediaStart(k, [NoTask EXCEPT !.op = "reader", !.pc = "row"])
    /\ UNCHANGED <<mediaRow, mediaKey, mediaLapses>>

-----------------------------------------------------------------------------
(* loadMedia and what follows it.                                          *)

\* The end of an episode is news only while the cached state shows it; without
\* a queue the next episode of the movie is looked up.
Advance(k, media) ==
    LET t == mediaTask[k] IN
    IF ~media.autoNext \/ media.episode # t.item THEN MediaDone(k)
    ELSE mediaTask' = [mediaTask EXCEPT
             ![k].pc = IF media.queue = <<>> THEN "find" ELSE "switch",
             ![k].copy = <<media>>]

LoadedMedia(k, media) ==
    CASE mediaTask[k].op = "reader" -> MediaDone(k)
      [] mediaTask[k].op = "auto"   -> Advance(k, media)
      [] mediaTask[k].op = "manual" ->
           mediaTask' = [mediaTask EXCEPT ![k].pc = "switch", ![k].copy = <<media>>]

GetMedia(k) ==
    /\ MediaAt(k, "get")
    /\ IF mediaKey = NoCopy THEN MediaGoto(k, "row") ELSE LoadedMedia(k, mediaKey[1])
    /\ UNCHANGED <<mediaRow, mediaKey, mediaInputs, mediaLapses>>

ReadMediaRow(k) ==
    /\ MediaAt(k, "row")
    /\ mediaTask' = [mediaTask EXCEPT ![k].pc = "fill", ![k].copy = <<ToMediaState(mediaRow)>>]
    /\ UNCHANGED <<mediaRow, mediaKey, mediaInputs, mediaLapses>>

FillMedia(k) ==
    /\ MediaAt(k, "fill")
    /\ mediaKey' = mediaTask[k].copy
    /\ LoadedMedia(k, mediaTask[k].copy[1])
    /\ UNCHANGED <<mediaRow, mediaInputs, mediaLapses>>

\* findNextEpisode; nothing follows the last episode, and a failed lookup
\* counts as nothing.
FindNextEpisode(k) ==
    /\ MediaAt(k, "find")
    /\ \/ mediaTask[k].item < LastEpisode /\ MediaGoto(k, "switch")
       \/ mediaTask[k].item = LastEpisode /\ MediaDone(k)
    /\ UNCHANGED <<mediaRow, mediaKey, mediaInputs, mediaLapses>>

-----------------------------------------------------------------------------
(* switchEpisode.                                                          *)

\* What an automatic advance goes to, from the state it loaded.
NextItem(t) == IF t.copy[1].queue = <<>> THEN t.item + 1 ELSE Head(t.copy[1].queue)

ItemOf(t) == IF t.op = "auto" THEN NextItem(t) ELSE t.item

\* Variant: whoever comes second may win as well.
AnyReportWins(k) == TRUE

\* When advancing, only the first report for this episode may win.
ReportWins(k) == mediaTask[k].op = "auto" => mediaRow.episode = mediaTask[k].item

\* Variant: the published queue is the one that was loaded.
PublishedWithQueue(k) == [mediaTask[k].copy[1] EXCEPT !.episode = ItemOf(mediaTask[k])]

\* What is published: the loaded state with the new episode and queue.
Published(k) ==
    [mediaTask[k].copy[1] EXCEPT !.episode = ItemOf(mediaTask[k]),
                                 !.queue = RemoveFirst(@, ItemOf(mediaTask[k]))]

SwitchEpisode(k) ==
    LET t == mediaTask[k] IN
    /\ MediaAt(k, "switch")
    /\ IF ReportWins(k)
       THEN /\ mediaRow' = [mediaRow EXCEPT !.episode = ItemOf(t),
                                            !.queue = RemoveFirst(t.copy[1].queue, ItemOf(t))]
            /\ mediaTask' = [mediaTask EXCEPT ![k].pc = "publish", ![k].copy = <<Published(k)>>]
            /\ MediaCrossing(k)
       ELSE MediaDone(k) /\ UNCHANGED <<mediaRow, mediaLapses>>
    /\ UNCHANGED <<mediaKey, mediaInputs>>

PublishMedia(k) ==
    /\ MediaAt(k, "publish")
    /\ mediaKey' = mediaTask[k].copy
    /\ MediaDone(k)
    /\ UNCHANGED <<mediaRow, mediaInputs>>
    /\ MediaCrossing(k)

-----------------------------------------------------------------------------
(* REST.                                                                   *)

\* updateQueue: one update, then the row it returns is published.
UpdateQueue(k, q) ==
    /\ MediaInput
    /\ \E auto \in BOOLEAN : mediaRow' = [mediaRow EXCEPT !.queue = q, !.autoNext = auto]
    /\ MediaStart(k, [NoTask EXCEPT !.op = "rest", !.pc = "publish",
                                    !.copy = <<ToMediaState(mediaRow')>>])
    /\ MediaCrossing(k)
    /\ UNCHANGED mediaKey

\* updatePlayback names an episode; whether that is a change is decided on the
\* row read before the update.
UpdateEpisode(k, e) ==
    /\ MediaInput
    /\ MediaStart(k, [NoTask EXCEPT !.op = "rest", !.pc = "update",
                                    !.item = e, !.copy = <<mediaRow>>])
    /\ UNCHANGED <<mediaRow, mediaKey, mediaLapses>>

WriteEpisode(k) ==
    LET t == mediaTask[k] IN
    /\ MediaAt(k, "update")
    /\ mediaRow' = [mediaRow EXCEPT !.episode = t.item]
    /\ IF t.copy[1].episode # t.item
       THEN mediaTask' = [mediaTask EXCEPT ![k].pc = "publish",
                                           ![k].copy = <<ToMediaState(mediaRow')>>]
       ELSE MediaDone(k)
    /\ MediaCrossing(k)
    /\ UNCHANGED <<mediaKey, mediaInputs>>

\* The database, Redis or the instance fails: the rest is not done.
MediaFail(k) ==
    /\ mediaTask[k] # NoTask
    /\ MediaInput
    /\ mediaLapses' = IF MediaAt(k, "publish") THEN mediaLapses \cup {"unpublished"}
                      ELSE mediaLapses
    /\ MediaDone(k)
    /\ UNCHANGED <<mediaRow, mediaKey>>

MediaStep(k) ==
    \/ GetMedia(k) \/ ReadMediaRow(k) \/ FillMedia(k) \/ FindNextEpisode(k)
    \/ SwitchEpisode(k) \/ PublishMedia(k) \/ WriteEpisode(k)

RoomCommand(k) ==
    \E i \in MediaInstances, e \in Episodes : EpisodeChange(k, i, e) \/ EpisodeEnded(k, i, e)

MediaRequest(k) ==
    \/ ReadMedia(k)
    \/ \E e \in Episodes : UpdateEpisode(k, e)
    \/ \E q \in Queues : UpdateQueue(k, q)

MediaNext ==
    \E k \in MediaSlots :
        \/ MediaStep(k)
        \/ RoomCommand(k)
        \/ MediaRequest(k)
        \/ MediaFail(k)

MediaSpec == MediaInit /\ [][MediaNext]_mediaVars

-----------------------------------------------------------------------------
(* Properties.                                                             *)

Medias == [episode : Episodes, queue : Queues, autoNext : BOOLEAN]

\* Types; a task about to decide or to store holds the state it does that with.
MediaTypeOK ==
    /\ mediaRow \in Medias
    /\ mediaKey \in {NoCopy} \cup {<<m>> : m \in Medias}
    /\ \A k \in MediaSlots :
         /\ mediaTask[k].copy \in {NoCopy} \cup {<<m>> : m \in Medias}
         /\ mediaTask[k].item \in Episodes \cup {NoEpisode}
         /\ mediaTask[k].pc \in {"fill", "find", "switch", "publish", "update"}
              => mediaTask[k].copy # NoCopy
    /\ mediaInputs \in 0..MaxMediaInputs
    /\ mediaLapses \subseteq {"crossed", "unpublished"}

\* Once the requests that store it are over, the cached episode and queue, which
\* decide what plays next and which report counts, are those of the row.  The
\* exceptions are named: requests that crossed, a publish that failed.
MediaFollowsRow ==
    mediaKey # NoCopy /\ mediaLapses = {}
      /\ (\A k \in MediaSlots : mediaTask[k].pc \notin {"publish", "fill"})
    => mediaKey[1] = mediaRow

\* WATCH_PARTY_FE.md: at the end of an episode the room goes to the first entry
\* of the queue, or else to the next episode of the movie, and the entry leaves
\* the queue.  Several viewers report the same end, on several instances: no
\* entry is skipped for it, as long as nobody else changes the queue or the
\* episode in between.
AdvancesInOrder ==
    [][\A k \in MediaSlots :
         /\ Reports(k) /\ mediaTask[k].pc = "switch" /\ mediaTask'[k].pc = "publish"
         /\ mediaLapses' = {}
         => /\ mediaRow.episode = mediaTask[k].item
            /\ mediaRow'.episode = IF mediaRow.queue = <<>> THEN mediaRow.episode + 1
                                   ELSE Head(mediaRow.queue)
            /\ mediaRow'.queue = IF mediaRow.queue = <<>> THEN <<>> ELSE Tail(mediaRow.queue)
       ]_mediaVars

=============================================================================
