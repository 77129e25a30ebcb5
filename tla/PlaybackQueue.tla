---------------------------- MODULE PlaybackQueue ----------------------------
(***************************************************************************)
(* The playback state of one watch-party room: watch-party.gateway.ts,     *)
(* watch-party.store.ts (Redis mode) and updatePlayback of                 *)
(* watch-party.service.ts.                                                 *)
(*                                                                         *)
(* Commands of controllers reach the gateway of some server instance,      *)
(* where a seek is debounced and everything else goes into the room's      *)
(* queue.  The queue of an instance runs one task at a time; a task is     *)
(* several round trips to Redis and to the database, each a step here.     *)
(* Several instances share the cached state, the auto-pause mark and the   *)
(* database row, and nothing else.                                         *)
(*                                                                         *)
(* A position is named by the command that sets it, so a number stands for *)
(* a position of an episode; an episode is named by the command that       *)
(* switched to it.  0 is the start of the room's first episode.            *)
(***************************************************************************)
EXTENDS Naturals, Sequences, SequencesExt

CONSTANTS
    Instances,     \* server instances (gateways)
    Inputs,        \* what controllers do in an instance of this model
    MaxCommands,   \* bound on commands given
    MaxFaults,     \* bound on failed tasks and restarts
    NONE           \* null

ASSUME BoundsAssumption == MaxCommands \in Nat /\ MaxFaults \in Nat
\* null is neither a state nor a request.
ASSUME NoneAssumption ==
    /\ NONE \notin [time : Nat, mode : {"playing", "paused"}]
    /\ NONE \notin [time : Nat, mode : {"playing", "paused"}, by : {"person", "server"}]
    /\ NONE \notin [type : {"PLAY", "PAUSE"}, time : Nat, publish : BOOLEAN]
ASSUME InputsAssumption == Inputs \subseteq {"PLAY", "PAUSE", "SEEK", "SWITCH", "NEXT", "REST"}

VARIABLES
    sent,       \* commands given so far: the last name used
    pending,    \* pendingSeeks: the debounced seek of an instance, or 0
    queue,      \* commitQueues: tasks of an instance; the head is running
    worker,     \* where the running task of an instance is
    rest,       \* the updatePlayback request in progress at an instance
    cache,      \* Redis playback key: NONE until the first commit
    marked,     \* Redis autopause key
    media,      \* Redis media key: the episode viewers are told
    db,         \* the watch_rooms row
    faults      \* failed tasks and restarts so far

sharedVars == <<cache, marked, media, db>>
vars == <<sent, pending, queue, worker, rest, sharedVars, faults>>

Times == 0..MaxCommands
Modes == {"playing", "paused"}
EpisodeTypes == {"SWITCH", "NEXT"}

Command(type, time) == [type |-> type, time |-> time, by |-> "person", from |-> 0]
Idle == [pc |-> "idle", mode |-> "paused"]

Init ==
    /\ sent = 0
    /\ pending = [i \in Instances |-> 0]
    /\ queue = [i \in Instances |-> <<>>]
    /\ worker = [i \in Instances |-> Idle]
    /\ rest = [i \in Instances |-> NONE]
    /\ cache = NONE
    /\ marked = FALSE
    /\ media = 0
    /\ db = [time |-> 0, mode |-> "paused", episode |-> 0]
    /\ faults = 0

-----------------------------------------------------------------------------
(* Commands reach an instance.  Permission checks happened: only commands  *)
(* the room accepts appear.                                                *)

\* Variant: the command goes in without flushing the pending seek.
EnqueueOnly(i, c) ==
    /\ queue' = [queue EXCEPT ![i] = Append(@, c)]
    /\ UNCHANGED pending

\* flushPendingSeek followed by enqueueCommit: the seek goes in first.
FlushAndEnqueue(i, c) ==
    /\ queue' = [queue EXCEPT ![i] =
          IF pending[i] = 0 THEN Append(@, c)
          ELSE @ \o <<Command("SEEK", pending[i]), c>>]
    /\ pending' = [pending EXCEPT ![i] = 0]

Given(input) == input \in Inputs /\ sent < MaxCommands /\ sent' = sent + 1

\* Every seek rearms the timer with its own position.
Seek(i) ==
    /\ Given("SEEK")
    /\ pending' = [pending EXCEPT ![i] = sent']
    /\ UNCHANGED <<queue, worker, rest, sharedVars, faults>>

SeekTimer(i) ==
    /\ pending[i] # 0
    /\ queue' = [queue EXCEPT ![i] = Append(@, Command("SEEK", pending[i]))]
    /\ pending' = [pending EXCEPT ![i] = 0]
    /\ UNCHANGED <<sent, worker, rest, sharedVars, faults>>

Press(i, type) ==
    /\ Given(type)
    /\ FlushAndEnqueue(i, Command(type, sent'))
    /\ UNCHANGED <<worker, rest, sharedVars, faults>>

\* handleEpisodeChange does not flush the pending seek.
ChangeEpisode(i) ==
    /\ Given("SWITCH")
    /\ queue' = [queue EXCEPT ![i] = Append(@, Command("SWITCH", sent'))]
    /\ UNCHANGED <<pending, worker, rest, sharedVars, faults>>

\* handleEpisodeEnded: a viewer finished the room's episode, or reports late
\* the first one.
EndEpisode(i) ==
    /\ Given("NEXT")
    /\ \E e \in {0, media} :
         queue' = [queue EXCEPT ![i] = Append(@, [Command("NEXT", sent') EXCEPT !.from = e])]
    /\ UNCHANGED <<pending, worker, rest, sharedVars, faults>>

-----------------------------------------------------------------------------
(* updatePlayback (REST): writes the row, announces a changed episode,     *)
(* then hands the new state to the gateway.                                *)

RestWrite(i, type, changes) ==
    /\ rest[i] = NONE
    /\ Given("REST")
    /\ db' = [time |-> sent', mode |-> IF type = "PLAY" THEN "playing" ELSE "paused",
              episode |-> IF changes THEN sent' ELSE db.episode]
    /\ rest' = [rest EXCEPT ![i] = [type |-> type, time |-> sent', publish |-> changes]]
    /\ UNCHANGED <<pending, queue, worker, cache, marked, media, faults>>

RestPublish(i) ==
    /\ rest[i] # NONE /\ rest[i].publish
    /\ media' = rest[i].time
    /\ rest' = [rest EXCEPT ![i].publish = FALSE]
    /\ UNCHANGED <<sent, pending, queue, worker, cache, marked, db, faults>>

\* Variant: updatePlayback leaves the state to its own row update.
RestRowOnly(i) ==
    /\ rest[i] # NONE /\ ~rest[i].publish
    /\ rest' = [rest EXCEPT ![i] = NONE]
    /\ UNCHANGED <<sent, pending, queue, worker, sharedVars, faults>>

RestApply(i) ==
    /\ rest[i] # NONE /\ ~rest[i].publish
    /\ FlushAndEnqueue(i, Command(rest[i].type, rest[i].time))
    /\ rest' = [rest EXCEPT ![i] = NONE]
    /\ UNCHANGED <<sent, worker, sharedVars, faults>>

-----------------------------------------------------------------------------
(* The task at the head of the queue.                                      *)

Running(i) == Head(queue[i])
At(i, pc) == queue[i] # <<>> /\ worker[i].pc = pc
Goto(i, pc, mode) == worker' = [worker EXCEPT ![i] = [pc |-> pc, mode |-> mode]]

\* Variant: the next task starts where the last one stopped.
FinishNoReset(i) ==
    /\ queue' = [queue EXCEPT ![i] = Tail(@)]
    /\ UNCHANGED worker

Finish(i) ==
    /\ queue' = [queue EXCEPT ![i] = Tail(@)]
    /\ worker' = [worker EXCEPT ![i] = Idle]

ModeOf(type) == IF type = "PLAY" THEN "playing" ELSE "paused"

\* Variant: a seek does not count as taking control.
TakeUnlessSeek(i) ==
    /\ \/ At(i, "idle") /\ Running(i).by = "person" /\ Running(i).type \notin EpisodeTypes
       \/ At(i, "take")
    /\ marked' = (marked /\ Running(i).type = "SEEK")
    /\ IF worker[i].pc = "take" THEN Goto(i, "commit", worker[i].mode)
       ELSE IF Running(i).type = "SEEK" THEN Goto(i, "resolve", "paused")
       ELSE Goto(i, "commit", ModeOf(Running(i).type))
    /\ UNCHANGED <<sent, pending, queue, rest, cache, media, db, faults>>

\* commitPlaybackEvent: a person's command clears the auto-pause mark.
Take(i) ==
    /\ \/ At(i, "idle") /\ Running(i).by = "person" /\ Running(i).type \notin EpisodeTypes
       \/ At(i, "take")
    /\ marked' = FALSE
    /\ IF worker[i].pc = "take" THEN Goto(i, "commit", worker[i].mode)
       ELSE IF Running(i).type = "SEEK" THEN Goto(i, "resolve", "paused")
       ELSE Goto(i, "commit", ModeOf(Running(i).type))
    /\ UNCHANGED <<sent, pending, queue, rest, cache, media, db, faults>>

\* currentIsPlaying, for a seek and for a manual episode change.
Resolve(i) ==
    /\ At(i, "resolve")
    /\ IF cache = NONE THEN Goto(i, "resolveRow", "paused")
       ELSE Goto(i, IF Running(i).type = "SEEK" THEN "commit" ELSE "write", cache.mode)
    /\ UNCHANGED <<sent, pending, queue, rest, sharedVars, faults>>

ResolveRow(i) ==
    /\ At(i, "resolveRow")
    /\ Goto(i, IF Running(i).type = "SEEK" THEN "commit" ELSE "write", db.mode)
    /\ UNCHANGED <<sent, pending, queue, rest, sharedVars, faults>>

\* The Lua script assigns the next seq and stores the state atomically; the
\* state then goes out as playback:event.  The server's own pause and resume
\* start here and leave the mark alone.
Commit(i) ==
    /\ \/ At(i, "commit")
       \/ At(i, "idle") /\ Running(i).by = "server"
    /\ LET mode == IF Running(i).by = "server" THEN ModeOf(Running(i).type)
                  ELSE worker[i].mode IN
       /\ cache' = [time |-> Running(i).time, mode |-> mode, by |-> Running(i).by]
       /\ Goto(i, "persist", mode)
    /\ UNCHANGED <<sent, pending, queue, rest, marked, media, db, faults>>

Persist(i) ==
    /\ At(i, "persist")
    /\ db' = [db EXCEPT !.time = Running(i).time, !.mode = worker[i].mode]
    /\ Finish(i)
    /\ UNCHANGED <<sent, pending, rest, cache, marked, media, faults>>

\* An episode task starts by reading the room's episode.
LoadMedia(i) ==
    /\ At(i, "idle") /\ Running(i).type \in EpisodeTypes
    /\ IF Running(i).type = "SWITCH" THEN Goto(i, "resolve", "paused") /\ UNCHANGED queue
       ELSE IF media = Running(i).from THEN Goto(i, "write", "playing") /\ UNCHANGED queue
       ELSE Finish(i)
    /\ UNCHANGED <<sent, pending, rest, sharedVars, faults>>

\* Auto-next is off, the last episode is over or the lookup failed.
NothingNext(i) ==
    /\ At(i, "write") /\ Running(i).type = "NEXT"
    /\ Finish(i)
    /\ UNCHANGED <<sent, pending, rest, sharedVars, faults>>

\* switchEpisode's updateMany: advancing is conditional on the episode.
WriteEpisode(i) ==
    /\ At(i, "write")
    /\ IF Running(i).type = "NEXT" /\ db.episode # Running(i).from
       THEN Finish(i) /\ UNCHANGED db
       ELSE /\ db' = [time |-> Running(i).time, mode |-> worker[i].mode,
                      episode |-> Running(i).time]
            /\ Goto(i, "publish", worker[i].mode)
            /\ UNCHANGED queue
    /\ UNCHANGED <<sent, pending, rest, cache, marked, media, faults>>

\* Cancels the pending seek, then publishMedia.
PublishEpisode(i) ==
    /\ At(i, "publish")
    /\ pending' = [pending EXCEPT ![i] = 0]
    /\ media' = Running(i).time
    /\ Goto(i, "take", worker[i].mode)
    /\ UNCHANGED <<sent, queue, rest, cache, marked, db, faults>>

-----------------------------------------------------------------------------
(* Failures.                                                               *)

Fault == faults < MaxFaults /\ faults' = faults + 1

\* Redis or the database rejects: enqueue logs it and the next task runs.
FailTask(i) ==
    /\ queue[i] # <<>>
    /\ Fault
    /\ Finish(i)
    /\ UNCHANGED <<sent, pending, rest, sharedVars>>

\* publishMedia rejects: the request ends in an error after its row was written.
FailRest(i) ==
    /\ rest[i] # NONE /\ rest[i].publish
    /\ Fault
    /\ rest' = [rest EXCEPT ![i] = NONE]
    /\ UNCHANGED <<sent, pending, queue, worker, sharedVars>>

\* The instance restarts; Redis and the database stay.
Restart(i) ==
    /\ Fault
    /\ pending' = [pending EXCEPT ![i] = 0]
    /\ queue' = [queue EXCEPT ![i] = <<>>]
    /\ worker' = [worker EXCEPT ![i] = Idle]
    /\ rest' = [rest EXCEPT ![i] = NONE]
    /\ UNCHANGED <<sent, sharedVars>>

-----------------------------------------------------------------------------
Controller(i) ==
    \/ Seek(i)
    \/ Press(i, "PLAY")
    \/ Press(i, "PAUSE")
    \/ ChangeEpisode(i)
    \/ EndEpisode(i)
    \/ \E type \in {"PLAY", "PAUSE"}, changes \in BOOLEAN : RestWrite(i, type, changes)

Worker(i) ==
    \/ Take(i)
    \/ Resolve(i)
    \/ ResolveRow(i)
    \/ Commit(i)
    \/ Persist(i)
    \/ LoadMedia(i)
    \/ NothingNext(i)
    \/ WriteEpisode(i)
    \/ PublishEpisode(i)

Request(i) == RestPublish(i) \/ RestApply(i)

Next ==
    \E i \in Instances :
        \/ Controller(i)
        \/ SeekTimer(i)
        \/ Request(i)
        \/ Worker(i)
        \/ FailTask(i)
        \/ FailRest(i)
        \/ Restart(i)

\* Timers fire, promises settle: no step of the server waits forever.
Fairness ==
    \A i \in Instances :
        WF_vars(Worker(i)) /\ WF_vars(SeekTimer(i)) /\ WF_vars(Request(i))

Spec == Init /\ [][Next]_vars /\ Fairness

-----------------------------------------------------------------------------
(* Properties.                                                             *)

Task ==
    [type : {"PLAY", "PAUSE"}, time : Times, by : {"person", "server"}, from : {0}]
      \cup [type : {"SEEK", "SWITCH"}, time : Times, by : {"person"}, from : {0}]
      \cup [type : {"NEXT"}, time : Times, by : {"person"}, from : Times]
Pcs == {"idle", "resolve", "resolveRow", "write", "publish", "take", "commit", "persist"}

\* Types, and what a running task presupposes of the head of the queue.
TypeOK ==
    /\ sent \in Times
    /\ pending \in [Instances -> Times]
    /\ \A i \in Instances : queue[i] \in Seq(Task)
    /\ worker \in [Instances -> [pc : Pcs, mode : Modes]]
    /\ rest \in [Instances -> {NONE} \cup [type : {"PLAY", "PAUSE"}, time : Times,
                                          publish : BOOLEAN]]
    /\ cache \in {NONE} \cup [time : Times, mode : Modes, by : {"person", "server"}]
    /\ marked \in BOOLEAN
    /\ media \in Times
    /\ db \in [time : Times, mode : Modes, episode : Times]
    /\ faults \in 0..MaxFaults
    /\ \A i \in Instances :
         /\ worker[i].pc # "idle" => queue[i] # <<>>
         /\ worker[i].pc \in {"publish", "take", "write"} => Running(i).type \in EpisodeTypes

\* Nothing is on its way through any instance.
Quiet ==
    \A i \in Instances : queue[i] = <<>> /\ pending[i] = 0 /\ rest[i] = NONE

\* Once everything settled without a fault, the row holds what the cache holds
\* (removePresence drops the cached state because "the DB row already holds the
\* latest state"), although updatePlayback writes the row outside the queue.
RowFollowsCache ==
    Quiet /\ faults = 0 /\ cache # NONE => db.time = cache.time /\ db.mode = cache.mode

\* The commands of each instance take effect one at a time, in order, each on
\* the state its predecessor left, and each is settled (PlaybackControl).
Uncommitted(i) == IF worker[i].pc = "persist" THEN Tail(queue[i]) ELSE queue[i]
Waiting(i) ==
    Uncommitted(i) \o (IF pending[i] = 0 THEN <<>> ELSE <<Command("SEEK", pending[i])>>)

Control == INSTANCE PlaybackControl
               WITH room <- IF cache = NONE THEN NONE
                            ELSE [time |-> cache.time, mode |-> cache.mode],
                    waiting <- [i \in Instances |-> Waiting(i)]
InOrder == Control!Spec
InOrderSteps == Control!Init /\ [][Control!Next]_(Control!vars)

=============================================================================
