---------------------------- MODULE RoomBuffering ----------------------------
(***************************************************************************)
(* Waiting for viewers who buffer: startBuffering and stopBuffering of     *)
(* watch-party.gateway.ts and the buffering hash and auto-pause mark of    *)
(* watch-party.store.ts, on top of the room's playback queue.              *)
(*                                                                         *)
(* A viewer's report starts a handler; handlers of one or of several       *)
(* viewers run at the same time and meet at every await.  One step of a    *)
(* handler is the code between two answers of Redis together with the      *)
(* command it then sends, which Redis executes in the order sent; what a   *)
(* handler hands to the queue on its last answer is a step of its own.     *)
(*                                                                         *)
(* There is no clock: a timer fires at any time after it was armed.  The   *)
(* cooldown after a timeout and the setting that turns waiting off only    *)
(* silence reports, and a report that is never made models both.           *)
(***************************************************************************)
EXTENDS PlaybackQueue

CONSTANTS
    Sockets,     \* connections of viewers
    Handlers,    \* slots for handlers in progress
    MaxReports   \* bound on reports of buffering

ASSUME ReportsAssumption == MaxReports \in Nat

VARIABLES
    home,        \* the instance a socket is connected to
    gone,        \* sockets that disconnected
    entry,       \* bufferingBySocket: sockets waited for, with a timer armed
    orphan,      \* sockets with a second timer whose entry was overwritten
    buffering,   \* Redis buffering hash: the entries younger than BUFFER_STALE_MS
    handler,     \* the handler in each slot
    reports      \* reports of buffering so far

bufferingVars == <<home, gone, entry, orphan, buffering, handler, reports>>
roomVars == <<vars, bufferingVars>>

Free == [pc |-> "free", sock |-> NONE, time |-> 0]

RoomInit ==
    /\ Init
    /\ home \in [Sockets -> Instances]
    /\ gone = {}
    /\ entry = {}
    /\ orphan = {}
    /\ buffering = {}
    /\ handler = [h \in Handlers |-> Free]
    /\ reports = 0

-----------------------------------------------------------------------------
\* The playback part of the room as seen by steps that leave it alone.
QueueUnchanged == UNCHANGED vars
Start(h, s, pc) ==
    /\ handler[h] = Free
    /\ handler' = [handler EXCEPT ![h] = [Free EXCEPT !.pc = pc, !.sock = s]]
Step(h, pc) == handler' = [handler EXCEPT ![h].pc = pc]
Done(h) == handler' = [handler EXCEPT ![h] = Free]

(* viewer:status with buffering: true                                      *)

\* Only the start of a spell counts.  A report that finds waiting turned off
\* (waitForBuffering) or the viewer's cooldown running ends here: no step.
Report(s, h) ==
    /\ s \notin gone \cup entry
    /\ reports < MaxReports
    /\ reports' = reports + 1
    /\ Start(h, s, "arm")
    /\ QueueUnchanged
    /\ UNCHANGED <<home, gone, entry, orphan, buffering>>

\* Another report may have armed a timer since; its entry is overwritten.
Arm(h) ==
    /\ handler[h].pc = "arm"
    /\ LET s == handler[h].sock IN
       /\ entry' = entry \cup {s}
       /\ orphan' = IF s \in entry THEN orphan \cup {s} ELSE orphan
       /\ buffering' = buffering \cup {s}
    /\ Step(h, "look")
    /\ QueueUnchanged
    /\ UNCHANGED <<home, gone, reports>>

Look(h) ==
    /\ handler[h].pc = "look"
    /\ IF cache # NONE /\ cache.mode = "playing"
       THEN handler' = [handler EXCEPT ![h] = [@ EXCEPT !.pc = "mark", !.time = cache.time]]
       ELSE Done(h)
    /\ QueueUnchanged
    /\ UNCHANGED <<home, gone, entry, orphan, buffering, reports>>

ServerCommand(type, time) == [Command(type, time) EXCEPT !.by = "server"]

\* SET NX: one caller wins and pauses the room.
AutoMark(h) ==
    /\ handler[h].pc = "mark"
    /\ IF marked THEN Done(h) ELSE Step(h, "pause")
    /\ marked' = TRUE
    /\ UNCHANGED <<sent, pending, queue, worker, rest, cache, media, db, faults>>
    /\ UNCHANGED <<home, gone, entry, orphan, buffering, reports>>

\* The position is the one read before; a pending seek goes first.
AutoPause(h) ==
    /\ handler[h].pc = "pause"
    /\ FlushAndEnqueue(home[handler[h].sock], ServerCommand("PAUSE", handler[h].time))
    /\ Done(h)
    /\ UNCHANGED <<sent, worker, rest, sharedVars, faults>>
    /\ UNCHANGED <<home, gone, entry, orphan, buffering, reports>>

-----------------------------------------------------------------------------
(* stopBuffering                                                           *)

\* Variant: the entry goes, the Redis hash keeps the viewer.
StopHere(s, h) ==
    /\ s \in entry
    /\ entry' = entry \ {s}
    /\ UNCHANGED buffering
    /\ Start(h, s, "list")
    /\ QueueUnchanged

\* Without an entry there is nothing to stop.
Stop(s, h) ==
    /\ s \in entry
    /\ entry' = entry \ {s}
    /\ buffering' = buffering \ {s}
    /\ Start(h, s, "list")
    /\ QueueUnchanged

\* viewer:status with buffering: false.
ReportDone(s, h) ==
    /\ s \notin gone
    /\ Stop(s, h)
    /\ UNCHANGED <<home, gone, orphan, reports>>

\* BUFFER_MAX_WAIT_MS passed.
Timeout(s, h) ==
    /\ Stop(s, h)
    /\ UNCHANGED <<home, gone, orphan, reports>>

\* The timer that stopBuffering could no longer clear.
OrphanTimeout(s, h) ==
    /\ s \in orphan
    /\ orphan' = orphan \ {s}
    /\ \/ Stop(s, h)
       \/ /\ s \notin entry
          /\ QueueUnchanged
          /\ UNCHANGED <<entry, buffering, handler, reports>>
    /\ UNCHANGED <<home, gone, reports>>

\* handleDisconnect forgets the cooldown and leaves the room.
Disconnect(s, h) ==
    /\ s \notin gone
    /\ gone' = gone \cup {s}
    /\ \/ Stop(s, h)
       \/ /\ s \notin entry
          /\ QueueUnchanged
          /\ UNCHANGED <<entry, buffering, handler, reports>>
    /\ UNCHANGED <<home, orphan, reports>>

List(h) ==
    /\ handler[h].pc = "list"
    /\ IF buffering = {} THEN Step(h, "unmark") ELSE Done(h)
    /\ QueueUnchanged
    /\ UNCHANGED <<home, gone, entry, orphan, buffering, reports>>

Unmark(h) ==
    /\ handler[h].pc = "unmark"
    /\ IF marked THEN Step(h, "check") ELSE Done(h)
    /\ marked' = FALSE
    /\ UNCHANGED <<sent, pending, queue, worker, rest, cache, media, db, faults>>
    /\ UNCHANGED <<home, gone, entry, orphan, buffering, reports>>

Check(h) ==
    /\ handler[h].pc = "check"
    /\ IF cache # NONE /\ cache.mode = "paused"
       THEN handler' = [handler EXCEPT ![h] = [@ EXCEPT !.pc = "resume", !.time = cache.time]]
       ELSE Done(h)
    /\ QueueUnchanged
    /\ UNCHANGED <<home, gone, entry, orphan, buffering, reports>>

\* Unlike the pause, the resume does not flush a pending seek.
AutoResume(h) ==
    /\ handler[h].pc = "resume"
    /\ LET i == home[handler[h].sock] IN
       queue' = [queue EXCEPT ![i] = Append(@, ServerCommand("PLAY", handler[h].time))]
    /\ Done(h)
    /\ UNCHANGED <<sent, pending, worker, rest, sharedVars, faults>>
    /\ UNCHANGED <<home, gone, entry, orphan, buffering, reports>>

-----------------------------------------------------------------------------
(* Time and failures.                                                       *)

\* Variant: only a viewer still connected is dropped from the list.
StaleConnected(s) ==
    /\ s \in buffering \ (entry \cup gone)
    /\ buffering' = buffering \ {s}
    /\ QueueUnchanged
    /\ UNCHANGED <<home, gone, entry, orphan, handler, reports>>

\* listWaiting ignores what a dead instance left: an entry older than twice
\* the longest wait, which no live timer stands behind.
Stale(s) ==
    /\ s \in buffering \ entry
    /\ buffering' = buffering \ {s}
    /\ QueueUnchanged
    /\ UNCHANGED <<home, gone, entry, orphan, handler, reports>>

\* Redis rejects a handler's command.
FailHandler(h) ==
    /\ handler[h] # Free
    /\ Fault
    /\ Done(h)
    /\ UNCHANGED <<sent, pending, queue, worker, rest, sharedVars>>
    /\ UNCHANGED <<home, gone, entry, orphan, buffering, reports>>

\* A restart takes the timers, the handlers and the connections with it.
RoomRestart(i) ==
    /\ Restart(i)
    /\ LET here == {s \in Sockets : home[s] = i} IN
       /\ gone' = gone \cup here
       /\ entry' = entry \ here
       /\ orphan' = orphan \ here
       /\ handler' = [h \in Handlers |-> IF handler[h].sock \in here THEN Free ELSE handler[h]]
    /\ UNCHANGED <<home, buffering, reports>>

-----------------------------------------------------------------------------
HandlerStep(h) ==
    \/ Arm(h)
    \/ Look(h)
    \/ AutoMark(h)
    \/ AutoPause(h)
    \/ List(h)
    \/ Unmark(h)
    \/ Check(h)
    \/ AutoResume(h)

Viewer(s) ==
    \E h \in Handlers :
        \/ Report(s, h)
        \/ ReportDone(s, h)
        \/ Disconnect(s, h)

Timer(s) ==
    \/ \E h \in Handlers : Timeout(s, h) \/ OrphanTimeout(s, h)
    \/ Stale(s)

QueueStep(i) ==
    /\ Controller(i) \/ SeekTimer(i) \/ Request(i) \/ Worker(i) \/ FailTask(i) \/ FailRest(i)
    /\ UNCHANGED bufferingVars

RoomNext ==
    \/ \E i \in Instances : QueueStep(i) \/ RoomRestart(i)
    \/ \E h \in Handlers : HandlerStep(h) \/ FailHandler(h)
    \/ \E s \in Sockets : Viewer(s) \/ Timer(s)

RoomFairness ==
    /\ \A i \in Instances :
         /\ WF_roomVars(Worker(i) /\ UNCHANGED bufferingVars)
         /\ WF_roomVars(SeekTimer(i) /\ UNCHANGED bufferingVars)
         /\ WF_roomVars(Request(i) /\ UNCHANGED bufferingVars)
    /\ \A h \in Handlers : WF_roomVars(HandlerStep(h))
    /\ \A s \in Sockets :
         /\ WF_roomVars(\E h \in Handlers : Timeout(s, h))
         /\ WF_roomVars(Stale(s))

RoomSpec == RoomInit /\ [][RoomNext]_roomVars /\ RoomFairness

-----------------------------------------------------------------------------
(* Properties.                                                             *)

HandlerPcs == {"free", "arm", "look", "mark", "pause", "list", "unmark", "check", "resume"}

\* Types of the waiting part of a room, on top of those of the queue.
RoomTypeOK ==
    /\ TypeOK
    /\ home \in [Sockets -> Instances]
    /\ gone \subseteq Sockets /\ entry \subseteq Sockets /\ orphan \subseteq Sockets
    /\ buffering \subseteq Sockets
    /\ reports \in 0..MaxReports
    /\ handler \in [Handlers -> [pc : HandlerPcs, sock : Sockets \cup {NONE}, time : Times]]

Settled == Quiet /\ \A h \in Handlers : handler[h] = Free

\* What playback:waiting tells the room agrees with the timers behind it: no
\* viewer is waited for without a timer, none has a timer unseen by others.
WaitersAgree ==
    Settled /\ faults = 0 => buffering = entry

\* watch-party.gateway.ts: "A person taking control cancels any pending
\* auto-resume".  Once all is settled, a room a person commanded last is not
\* marked as paused by the server.
PersonClearsMark ==
    Settled /\ faults = 0 /\ cache # NONE /\ cache.by = "person" => ~marked

\* Nobody is waited for forever: a spell ends by the viewer, by the timer, or by
\* its entry growing stale after the instance died (BUFFER_STALE_MS).
SpellEnds == \A s \in Sockets : s \in buffering ~> s \notin buffering

\* WATCH_PARTY_FE.md: "Khi không còn ai buffer -> server tự PLAY lại", once nobody
\* buffers any more the server resumes.  So a settled room where nobody buffers
\* is not left paused by the server.
ServerResumes ==
    Settled /\ faults = 0 /\ buffering = {} /\ cache # NONE /\ cache.by = "server"
    => cache.mode = "playing"

=============================================================================
