------------------------------ MODULE Reminders ------------------------------
(***************************************************************************)
(* The scheduler of watch-party rooms (watch-party-scheduler.service.ts),  *)
(* room-reminders.repository.ts, remindMe and cancelReminder of            *)
(* watch-party.service.ts and claimOnce of watch-party.store.ts: reminders *)
(* of one scheduled room and the announcement of its start, by several     *)
(* instances whose ticks run at the same time.                             *)
(*                                                                         *)
(* Time is counted in ticks of TICK_MS.  A job is the tick an instance is  *)
(* running; its "at" is the time it began, against which it judges what is *)
(* due however long it takes.  The push that accompanies a reminder is     *)
(* best effort and belongs to PushDevices.                                 *)
(***************************************************************************)
EXTENDS Integers, FiniteSets

CONSTANTS
    Viewers,
    Servers,
    REMIND_BEFORE, LATE_REMINDER, STARTING_WINDOW,   \* in ticks
    BATCH_SIZE,
    ScheduledAt,   \* when the room starts
    MaxTick,       \* bound on how long a tick runs
    MaxTime,       \* bound on the clock
    MaxRequests,   \* bound on subscriptions, and on cancellations
    MaxFaults      \* bound on crashes and failed statements

\* A tick slower than STARTING_WINDOW could announce a start a second time, after
\* the first claim expired; twenty statements make it a matter of seconds.
\* A room is scheduled for a later time than its creation.
ASSUME RemindersAssumption ==
    /\ {REMIND_BEFORE, LATE_REMINDER, STARTING_WINDOW, BATCH_SIZE, ScheduledAt} \subseteq Nat \ {0}
    /\ {MaxTick, MaxTime, MaxRequests, MaxFaults} \subseteq Nat
    /\ MaxTick < STARTING_WINDOW
    /\ IsFiniteSet(Servers)

VARIABLES
    now,
    reminder,    \* room_reminders of the room: user -> <<>> or <<row>>
    claimUntil,  \* Redis: when the key claimed for this start expires
    up,          \* servers that run
    ticked,      \* when the interval of a server last fired
    job,         \* the tick a server is running
    sent,        \* history: how often each reminder went out
    lost,        \* history: reminders whose server died between claim and send
    starts,      \* history: how often the start was announced
    lostStart,   \* history: the server that claimed the start died before telling
    requests, faults

reminderVars == <<now, reminder, claimUntil, up, ticked, job, sent, lost, starts, lostStart,
                  requests, faults>>

Ids == 1..MaxRequests
NoJob == [pc |-> "idle", at |-> 0, due |-> {}, id |-> 0]

RemindersInit ==
    /\ now = 0
    /\ reminder = [v \in Viewers |-> <<>>]
    /\ claimUntil = 0
    /\ up = Servers
    /\ ticked = [s \in Servers |-> 0]
    /\ job = [s \in Servers |-> NoJob]
    /\ sent = [id \in Ids |-> 0]
    /\ lost = {}
    /\ starts = 0
    /\ lostStart = 0
    /\ requests = 0
    /\ faults = 0

-----------------------------------------------------------------------------
(* People.                                                                 *)

\* remindMe: only before the start; the upsert leaves an existing row alone.
RemindMe(v) ==
    /\ now < ScheduledAt
    /\ requests < MaxRequests
    /\ reminder[v] = <<>>
    /\ requests' = requests + 1
    /\ reminder' = [reminder EXCEPT ![v] = <<[id |-> requests', notified |-> FALSE]>>]
    /\ UNCHANGED <<now, claimUntil, up, ticked, job, sent, lost, starts, lostStart, faults>>

CancelReminder(v) ==
    /\ reminder[v] # <<>>
    /\ reminder' = [reminder EXCEPT ![v] = <<>>]
    /\ UNCHANGED <<now, claimUntil, up, ticked, job, sent, lost, starts, lostStart, requests, faults>>

-----------------------------------------------------------------------------
(* One tick of a server, await by await.                                   *)

JobGoto(s, pc) == job' = [job EXCEPT ![s].pc = pc]
EndJob(s) == job' = [job EXCEPT ![s] = NoJob]

\* The interval fires; a tick that is still running lets this one pass.
Tick(s) ==
    /\ s \in up /\ ticked[s] # now
    /\ ticked' = [ticked EXCEPT ![s] = now]
    /\ job' = IF job[s] = NoJob
              THEN [job EXCEPT ![s] = [NoJob EXCEPT !.pc = "find", !.at = now]]
              ELSE job
    /\ UNCHANGED <<now, reminder, claimUntil, up, sent, lost, starts, lostStart, requests, faults>>

\* Unsent reminders of a room that starts within (at - LATE, at + BEFORE].
Due(at) ==
    IF at - LATE_REMINDER < ScheduledAt /\ ScheduledAt <= at + REMIND_BEFORE
    THEN {reminder[v][1].id : v \in {w \in Viewers : reminder[w] # <<>> /\ ~reminder[w][1].notified}}
    ELSE {}

FindDue(s) ==
    /\ job[s].pc = "find"
    /\ \E batch \in SUBSET Due(job[s].at) :
          /\ Cardinality(batch) <= BATCH_SIZE
          /\ batch = Due(job[s].at) \/ Cardinality(batch) = BATCH_SIZE
          /\ job' = [job EXCEPT ![s].due = batch,
                                ![s].pc = IF batch = {} THEN "starting" ELSE "claim"]
    /\ UNCHANGED <<now, reminder, claimUntil, up, ticked, sent, lost, starts, lostStart, requests, faults>>

\* Variant: the reminder just handled stays with the job.
KeepDue(s, id) ==
    job' = [job EXCEPT ![s].due = @ \ {id},
                       ![s].pc = IF job[s].due = {id} THEN "starting" ELSE "claim"]

\* The next reminder of the batch.
NextDue(s, id) ==
    job' = [job EXCEPT ![s].due = @ \ {id}, ![s].id = 0,
                       ![s].pc = IF job[s].due = {id} THEN "starting" ELSE "claim"]

\* Variant: the update names the reminder only.
ClaimableById(v, id) == reminder[v] # <<>> /\ reminder[v][1].id = id

\* updateMany on the id and on notifiedAt null.
Claimable(v, id) == reminder[v] # <<>> /\ reminder[v][1] = [id |-> id, notified |-> FALSE]

Claim(s) ==
    /\ job[s].pc = "claim"
    /\ \E id \in job[s].due :
         \/ \E v \in Viewers :
              /\ Claimable(v, id)
              /\ reminder' = [reminder EXCEPT ![v][1].notified = TRUE]
              /\ job' = [job EXCEPT ![s].pc = "send", ![s].id = id]
         \/ /\ \A v \in Viewers : ~Claimable(v, id)
            /\ NextDue(s, id)
            /\ UNCHANGED reminder
    /\ UNCHANGED <<now, claimUntil, up, ticked, sent, lost, starts, lostStart, requests, faults>>

\* reminder:due to the user, whichever instance the user is connected to.
Send(s) ==
    /\ job[s].pc = "send"
    /\ sent' = [sent EXCEPT ![job[s].id] = @ + 1]
    /\ NextDue(s, job[s].id)
    /\ UNCHANGED <<now, reminder, claimUntil, up, ticked, lost, starts, lostStart, requests, faults>>

\* The room is found while its start lies within (at - WINDOW, at].
FindStarting(s) ==
    /\ job[s].pc = "starting"
    /\ IF job[s].at - STARTING_WINDOW < ScheduledAt /\ ScheduledAt <= job[s].at
       THEN JobGoto(s, "claimStart") ELSE EndJob(s)
    /\ UNCHANGED <<now, reminder, claimUntil, up, ticked, sent, lost, starts, lostStart, requests, faults>>

\* Variant: the claim is held for one window.
ClaimTtlOfOneWindow == STARTING_WINDOW

ClaimTtl == STARTING_WINDOW * 2

\* claimOnce: SET NX with an expiry.
ClaimStart(s) ==
    /\ job[s].pc = "claimStart"
    /\ IF claimUntil <= now
       THEN claimUntil' = now + ClaimTtl /\ JobGoto(s, "announce")
       ELSE EndJob(s) /\ UNCHANGED claimUntil
    /\ UNCHANGED <<now, reminder, up, ticked, sent, lost, starts, lostStart, requests, faults>>

\* room:starting to the room.
Announce(s) ==
    /\ job[s].pc = "announce"
    /\ starts' = starts + 1
    /\ EndJob(s)
    /\ UNCHANGED <<now, reminder, claimUntil, up, ticked, sent, lost, lostStart, requests, faults>>

-----------------------------------------------------------------------------
(* Time and failures.                                                      *)

\* What a job takes with it when it ends before its time.
Dropped(s) ==
    /\ lost' = IF job[s].pc = "send" THEN lost \cup {job[s].id} ELSE lost
    /\ lostStart' = IF job[s].pc = "announce" THEN lostStart + 1 ELSE lostStart
    /\ EndJob(s)

\* A statement fails, or its answer is lost: the tick ends and the next one
\* starts over.
FailTick(s) ==
    /\ job[s] # NoJob /\ faults < MaxFaults
    /\ faults' = faults + 1
    /\ Dropped(s)
    /\ UNCHANGED <<now, reminder, claimUntil, up, ticked, sent, starts, requests>>

CrashServer(s) ==
    /\ s \in up /\ faults < MaxFaults
    /\ faults' = faults + 1
    /\ up' = up \ {s}
    /\ Dropped(s)
    /\ UNCHANGED <<now, reminder, claimUntil, ticked, sent, starts, requests>>

\* The first tick comes one interval after the restart.
RestartServer(s) ==
    /\ s \notin up
    /\ up' = up \cup {s}
    /\ ticked' = [ticked EXCEPT ![s] = now]
    /\ UNCHANGED <<now, reminder, claimUntil, job, sent, lost, starts, lostStart, requests, faults>>

\* Intervals fire on time and no tick runs for longer than MaxTick.
Advance ==
    /\ now < MaxTime
    /\ \A s \in up : ticked[s] = now
    /\ \A s \in Servers : job[s] # NoJob => now + 1 <= job[s].at + MaxTick
    /\ now' = now + 1
    /\ UNCHANGED <<reminder, claimUntil, up, ticked, job, sent, lost, starts, lostStart, requests, faults>>

JobStep(s) ==
    \/ FindDue(s) \/ Claim(s) \/ Send(s)
    \/ FindStarting(s) \/ ClaimStart(s) \/ Announce(s)

RemindersNext ==
    \/ \E v \in Viewers : RemindMe(v) \/ CancelReminder(v)
    \/ \E s \in Servers :
         Tick(s) \/ JobStep(s) \/ FailTick(s) \/ CrashServer(s) \/ RestartServer(s)
    \/ Advance

RemindersSpec == RemindersInit /\ [][RemindersNext]_reminderVars

-----------------------------------------------------------------------------
(* Properties.                                                             *)

JobPcs == {"idle", "find", "claim", "send", "starting", "claimStart", "announce"}

\* Types; only a claim on its way to the user names a reminder.
RemindersTypeOK ==
    /\ now \in 0..MaxTime
    /\ \A v \in Viewers :
         reminder[v] \in {<<>>} \cup {<<r>> : r \in [id : Ids, notified : BOOLEAN]}
    /\ claimUntil \in Nat /\ up \subseteq Servers /\ ticked \in [Servers -> 0..MaxTime]
    /\ \A s \in Servers :
         /\ job[s].pc \in JobPcs /\ job[s].due \subseteq Ids /\ job[s].at \in 0..MaxTime
         /\ IF job[s].pc = "send" THEN job[s].id \in job[s].due ELSE job[s].id = 0
    /\ sent \in [Ids -> Nat] /\ lost \subseteq Ids /\ starts \in Nat /\ lostStart \in Nat

Sending(id) == {s \in Servers : job[s].pc = "send" /\ job[s].id = id}
AtMostOnce == \A id \in Ids : sent[id] + Cardinality(Sending(id)) + Cardinality(lost \cap {id}) <= 1
MarkedIsSent ==
    \A v \in Viewers :
        reminder[v] # <<>> => LET id == reminder[v][1].id IN
            reminder[v][1].notified <=> (sent[id] = 1 \/ Sending(id) # {} \/ id \in lost)
EnoughTicks ==
    /\ MaxFaults < Cardinality(Servers)
    /\ BATCH_SIZE * (LATE_REMINDER \div (MaxTick + 1)) >= MaxRequests
NobodyForgotten ==
    now >= ScheduledAt + LATE_REMINDER + MaxTick /\ EnoughTicks
    => \A v \in Viewers : reminder[v] # <<>> => reminder[v][1].notified

\* WATCH_PARTY_FE.md: the reminder is sent once per person.  Although several
\* instances tick at once, a reminder goes out at most once; the mark in the row
\* means it was sent, is being sent or died with the instance that claimed it; and
\* once the room has started long ago nobody who asked is left unmarked, unless
\* there were too few ticks for the batches (failures, a flood of reminders).
RemindedOnce == AtMostOnce /\ MarkedIsSent /\ NobodyForgotten

\* A start is announced once: while one instance holds the claim nobody else
\* announces it, and when the claim expires no tick finds the room any more.  It is
\* announced unless the instance that claimed it died.
StartAnnouncedOnce ==
    /\ starts + lostStart + Cardinality({s \in Servers : job[s].pc = "announce"}) <= 1
    /\ now >= ScheduledAt + STARTING_WINDOW + MaxTick /\ MaxFaults < Cardinality(Servers)
         => starts + lostStart = 1

=============================================================================
