--------------------------- MODULE RemindersProofs ---------------------------
(* Proofs about Reminders, for any number of instances, rooms, requests and *)
(* failures and any windows: a reminder goes out once and, while there are  *)
(* more instances than failures, nobody is forgotten; the start of a room   *)
(* is announced once.                                                       *)
EXTENDS Reminders, FiniteSetTheorems, TLAPS

-----------------------------------------------------------------------------
(* Reminders: what a server holds at each await of its tick.               *)

Jobs == [pc : JobPcs, at : 0..MaxTime, due : SUBSET Ids, id : 0..MaxRequests]

\* A tick is not older than MaxTick; only the part on reminders keeps a batch.
JobSound(j, time) ==
    /\ j.pc = "idle" => j = NoJob
    /\ IF j.pc = "send" THEN j.id \in j.due ELSE j.id = 0
    /\ j.pc \notin {"claim", "send"} => j.due = {}
    /\ j.pc # "idle" => j.at =< time /\ time =< j.at + MaxTick

JobsInv ==
    /\ now \in 0..MaxTime /\ ticked \in [Servers -> 0..MaxTime] /\ up \subseteq Servers
    /\ requests \in 0..MaxRequests /\ faults \in 0..MaxFaults
    /\ job \in [Servers -> Jobs]
    /\ \A s \in Servers : JobSound(job[s], now) /\ (job[s].pc # "idle" => s \in up)

RowsInv ==
    /\ reminder \in [Viewers -> {<<>>} \cup {<<r>> : r \in [id : Ids, notified : BOOLEAN]}]
    /\ \A v \in Viewers : reminder[v] # <<>> => reminder[v][1].id =< requests
    /\ \A v, w \in Viewers : reminder[v] # <<>> /\ reminder[w] # <<>>
                             /\ reminder[v][1].id = reminder[w][1].id => v = w

\* What became of a claimed reminder.
Sends(s, id) == job[s].pc = "send" /\ job[s].id = id
Taken == {id \in Ids : sent[id] = 1 \/ id \in lost \/ \E s \in Servers : Sends(s, id)}

\* A reminder is claimed once, by the mark in its row.
ClaimsInv ==
    /\ sent \in [Ids -> {0, 1}] /\ lost \subseteq Ids
    /\ \A id \in Taken : id =< requests
    /\ \A id \in lost : sent[id] = 0
    /\ \A s \in Servers, id \in Ids :
         Sends(s, id) => sent[id] = 0 /\ id \notin lost /\ \A r \in Servers : Sends(r, id) => r = s
    /\ \A v \in Viewers : reminder[v] # <<>> =>
         (reminder[v][1].notified <=> reminder[v][1].id \in Taken)

LEMMA ReminderBounds ==
  /\ REMIND_BEFORE \in Nat \ {0} /\ LATE_REMINDER \in Nat \ {0}
  /\ STARTING_WINDOW \in Nat \ {0} /\ BATCH_SIZE \in Nat \ {0}
  /\ ScheduledAt \in Nat \ {0} /\ MaxTick \in Nat /\ MaxTime \in Nat
  /\ MaxRequests \in Nat /\ MaxFaults \in Nat /\ MaxTick < STARTING_WINDOW
  /\ IsFiniteSet(Servers)
  /\ 0 \in 0..MaxRequests /\ Ids \subseteq 0..MaxRequests
BY RemindersAssumption DEF Ids

LEMMA NoJobFacts ==
  /\ NoJob \in Jobs /\ NoJob.pc = "idle" /\ NoJob.at = 0 /\ NoJob.due = {} /\ NoJob.id = 0
  /\ \A time : JobSound(NoJob, time)
<1>1. NoJob \in Jobs /\ NoJob.pc = "idle" /\ NoJob.at = 0 /\ NoJob.due = {} /\ NoJob.id = 0
  BY RemindersAssumption DEF NoJob, Jobs, JobPcs
<1> QED BY <1>1 DEF JobSound

LEMMA RemindersInitInv == RemindersInit => JobsInv /\ RowsInv /\ ClaimsInv
<1> SUFFICES ASSUME RemindersInit PROVE JobsInv /\ RowsInv /\ ClaimsInv
  OBVIOUS
<1>1. JobsInv
  BY NoJobFacts, RemindersAssumption DEF RemindersInit, JobsInv
<1>2. RowsInv
  BY DEF RemindersInit, RowsInv
<1>3. Taken = {}
  BY NoJobFacts DEF RemindersInit, Taken, Sends
<1>4. \A s \in Servers, id \in Ids : ~Sends(s, id)
  BY NoJobFacts DEF RemindersInit, Sends
<1> QED BY <1>1, <1>2, <1>3, <1>4 DEF RemindersInit, ClaimsInv

-----------------------------------------------------------------------------
(* What each await does to the job of its server.                          *)

\* One server's job moves on within its tick, or ends.
Works(s) ==
    /\ job' \in [Servers -> Jobs]
    /\ \A r \in Servers \ {s} : job'[r] = job[r]
    /\ UNCHANGED <<now, up, ticked, requests, faults>>

\* The tick goes on to another await.
Stays(s, pc) ==
    /\ Works(s)
    /\ job'[s].pc = pc /\ job'[s].at = job[s].at

LEMMA WorksSound ==
  ASSUME JobsInv, NEW s \in Servers, Works(s), JobSound(job'[s], now), job[s].pc # "idle"
  PROVE  JobsInv'
BY DEF JobsInv, Works

LEMMA EndJobDoes ==
  ASSUME JobsInv, NEW s \in Servers, EndJob(s)
  PROVE  /\ job' \in [Servers -> Jobs] /\ job'[s] = NoJob
         /\ \A r \in Servers \ {s} : job'[r] = job[r]
BY NoJobFacts DEF EndJob, JobsInv

LEMMA JobGotoDoes ==
  ASSUME JobsInv, NEW s \in Servers, NEW pc \in JobPcs, JobGoto(s, pc)
  PROVE  /\ job' \in [Servers -> Jobs]
         /\ job'[s].pc = pc /\ job'[s].at = job[s].at
         /\ job'[s].due = job[s].due /\ job'[s].id = job[s].id
         /\ \A r \in Servers \ {s} : job'[r] = job[r]
BY DEF JobGoto, JobsInv, Jobs

LEMMA NextDueDoes ==
  ASSUME JobsInv, NEW s \in Servers, NEW id \in job[s].due, NextDue(s, id)
  PROVE  /\ job' \in [Servers -> Jobs]
         /\ job'[s].pc = IF job[s].due = {id} THEN "starting" ELSE "claim"
         /\ job'[s].at = job[s].at
         /\ job'[s].due = job[s].due \ {id} /\ job'[s].id = 0
         /\ \A r \in Servers \ {s} : job'[r] = job[r]
<1> DEFINE j == [job[s] EXCEPT !.due = @ \ {id}, !.id = 0,
                               !.pc = IF job[s].due = {id} THEN "starting" ELSE "claim"]
<1>1. job[s] \in Jobs
  BY DEF JobsInv
<1>2. /\ j \in Jobs /\ j.pc = IF job[s].due = {id} THEN "starting" ELSE "claim"
      /\ j.at = job[s].at /\ j.due = job[s].due \ {id} /\ j.id = 0
  BY <1>1, ReminderBounds DEF Jobs, JobPcs
<1>3. job' = [job EXCEPT ![s] = j]
  BY <1>1 DEF NextDue, Jobs
<1> HIDE DEF j
<1> QED BY <1>2, <1>3 DEF JobsInv

\* The ids of reminders still to be sent; Due picks from them within the window.
Unmarked == {reminder[v][1].id : v \in {w \in Viewers : reminder[w] # <<>> /\ ~reminder[w][1].notified}}

LEMMA RowOfViewer ==
  ASSUME RowsInv, NEW v \in Viewers, reminder[v] # <<>>
  PROVE  /\ reminder[v] = <<reminder[v][1]>>
         /\ reminder[v][1] \in [id : Ids, notified : BOOLEAN]
         /\ reminder[v][1].id \in Ids /\ reminder[v][1].id =< requests
         /\ reminder[v][1].notified \in BOOLEAN
<1>1. reminder[v] \in {<<r>> : r \in [id : Ids, notified : BOOLEAN]}
  BY DEF RowsInv
<1>2. PICK r \in [id : Ids, notified : BOOLEAN] : reminder[v] = <<r>>
  BY <1>1
<1> QED BY <1>2 DEF RowsInv

LEMMA UnmarkedIds == RowsInv => Unmarked \subseteq Ids /\ \A at : Due(at) \subseteq Unmarked
BY RowOfViewer DEF Unmarked, Due

LEMMA FindDueDoes ==
  ASSUME JobsInv, RowsInv, NEW s \in Servers, FindDue(s)
  PROVE  /\ Works(s) /\ job[s].pc = "find"
         /\ job'[s].at = job[s].at /\ job'[s].id = 0
         /\ job'[s].due \subseteq Due(job[s].at)
         /\ job'[s].due = Due(job[s].at) \/ Cardinality(job'[s].due) = BATCH_SIZE
         /\ job'[s].pc = IF job'[s].due = {} THEN "starting" ELSE "claim"
         /\ UNCHANGED <<reminder, claimUntil, sent, lost, starts, lostStart>>
<1>1. PICK batch \in SUBSET Due(job[s].at) :
          /\ batch = Due(job[s].at) \/ Cardinality(batch) = BATCH_SIZE
          /\ job' = [job EXCEPT ![s].due = batch,
                                ![s].pc = IF batch = {} THEN "starting" ELSE "claim"]
  BY DEF FindDue
<1> DEFINE j == [job[s] EXCEPT !.due = batch, !.pc = IF batch = {} THEN "starting" ELSE "claim"]
<1>2. job[s] \in Jobs /\ job[s].pc = "find" /\ job[s].id = 0
  BY DEF JobsInv, JobSound, FindDue
<1>3. batch \in SUBSET Ids
  BY UnmarkedIds
<1>4. /\ j \in Jobs /\ j.pc = IF batch = {} THEN "starting" ELSE "claim"
      /\ j.at = job[s].at /\ j.due = batch /\ j.id = 0
  BY <1>2, <1>3 DEF Jobs, JobPcs
<1>5. job' = [job EXCEPT ![s] = j]
  BY <1>1, <1>2 DEF Jobs
<1> HIDE DEF j
<1>6. job' \in [Servers -> Jobs] /\ job'[s] = j /\ \A r \in Servers \ {s} : job'[r] = job[r]
  BY <1>4, <1>5 DEF JobsInv
<1> QED BY <1>1, <1>2, <1>4, <1>6 DEF FindDue, Works

\* A claim marks one row that was unmarked, or finds that somebody else was faster.
Claims(s, id, v) ==
    /\ Works(s) /\ job[s].pc = "claim" /\ id \in job[s].due
    /\ Claimable(v, id)
    /\ reminder' = [reminder EXCEPT ![v][1].notified = TRUE]
    /\ job'[s].pc = "send" /\ job'[s].at = job[s].at
    /\ job'[s].due = job[s].due /\ job'[s].id = id
    /\ UNCHANGED <<claimUntil, sent, lost, starts, lostStart>>

Passes(s, id) ==
    /\ Works(s) /\ id \in job[s].due
    /\ job'[s].pc = IF job[s].due = {id} THEN "starting" ELSE "claim"
    /\ job'[s].at = job[s].at
    /\ job'[s].due = job[s].due \ {id} /\ job'[s].id = 0

LEMMA ClaimDoes ==
  ASSUME JobsInv, NEW s \in Servers, Claim(s)
  PROVE  \/ \E id \in job[s].due, v \in Viewers : Claims(s, id, v)
         \/ \E id \in job[s].due : /\ job[s].pc = "claim" /\ Passes(s, id)
                                   /\ \A v \in Viewers : ~Claimable(v, id)
                                   /\ UNCHANGED <<reminder, claimUntil, sent, lost, starts, lostStart>>
<1>1. PICK id \in job[s].due :
         \/ \E v \in Viewers :
              /\ Claimable(v, id)
              /\ reminder' = [reminder EXCEPT ![v][1].notified = TRUE]
              /\ job' = [job EXCEPT ![s].pc = "send", ![s].id = id]
         \/ /\ \A v \in Viewers : ~Claimable(v, id)
            /\ NextDue(s, id)
            /\ UNCHANGED reminder
  BY DEF Claim
<1>2. /\ job[s].pc = "claim" /\ job[s] \in Jobs /\ id \in Ids
      /\ UNCHANGED <<now, claimUntil, up, ticked, sent, lost, starts, lostStart, requests, faults>>
  BY DEF Claim, JobsInv, Jobs
<1>3. CASE \E v \in Viewers :
              /\ Claimable(v, id)
              /\ reminder' = [reminder EXCEPT ![v][1].notified = TRUE]
              /\ job' = [job EXCEPT ![s].pc = "send", ![s].id = id]
  <2> DEFINE j == [job[s] EXCEPT !.pc = "send", !.id = id]
  <2>1. PICK v \in Viewers :
              /\ Claimable(v, id)
              /\ reminder' = [reminder EXCEPT ![v][1].notified = TRUE]
              /\ job' = [job EXCEPT ![s].pc = "send", ![s].id = id]
    BY <1>3
  <2>2. j \in Jobs /\ j.pc = "send" /\ j.at = job[s].at /\ j.due = job[s].due /\ j.id = id
    BY <1>2, ReminderBounds DEF Jobs, JobPcs
  <2>3. job' = [job EXCEPT ![s] = j]
    BY <2>1, <1>2 DEF Jobs
  <2> HIDE DEF j
  <2>4. job' \in [Servers -> Jobs] /\ job'[s] = j /\ \A r \in Servers \ {s} : job'[r] = job[r]
    BY <2>2, <2>3 DEF JobsInv
  <2> QED BY <1>2, <2>1, <2>2, <2>4 DEF Works, Claims
<1>4. CASE /\ \A v \in Viewers : ~Claimable(v, id)
           /\ NextDue(s, id)
           /\ UNCHANGED reminder
  BY <1>2, <1>4, NextDueDoes DEF Works, Passes
<1> QED BY <1>1, <1>3, <1>4

LEMMA SendDoes ==
  ASSUME JobsInv, NEW s \in Servers, Send(s)
  PROVE  /\ job[s].pc = "send" /\ Passes(s, job[s].id)
         /\ sent' = [sent EXCEPT ![job[s].id] = @ + 1]
         /\ UNCHANGED <<reminder, claimUntil, lost, starts, lostStart>>
<1>1. job[s].id \in job[s].due
  BY DEF Send, JobsInv, JobSound
<1> QED BY <1>1, NextDueDoes DEF Send, Works, Passes

\* The second part of a tick: the start of the room.
Rests(s) == Works(s) /\ job[s].pc # "idle" /\ job'[s] = NoJob

InWindow(at) == at - STARTING_WINDOW < ScheduledAt /\ ScheduledAt <= at

GoesTo(s, from, to) ==
    /\ Works(s)
    /\ job[s].pc = from /\ job'[s].pc = to /\ job'[s].at = job[s].at
    /\ job'[s].due = {} /\ job'[s].id = 0

LEMMA StartingDoes ==
  ASSUME JobsInv, NEW s \in Servers, FindStarting(s) \/ ClaimStart(s) \/ Announce(s)
  PROVE  /\ UNCHANGED <<reminder, sent, lost, lostStart>>
         /\ job[s].due = {}
         /\ \/ /\ GoesTo(s, "starting", "claimStart") /\ InWindow(job[s].at)
               /\ UNCHANGED <<claimUntil, starts>>
            \/ /\ Rests(s) /\ job[s].pc = "starting" /\ ~InWindow(job[s].at)
               /\ UNCHANGED <<claimUntil, starts>>
            \/ /\ GoesTo(s, "claimStart", "announce")
               /\ claimUntil <= now /\ claimUntil' = now + ClaimTtl /\ UNCHANGED starts
            \/ /\ Rests(s) /\ job[s].pc = "claimStart" /\ ~(claimUntil <= now)
               /\ UNCHANGED <<claimUntil, starts>>
            \/ /\ Rests(s) /\ job[s].pc = "announce"
               /\ starts' = starts + 1 /\ UNCHANGED claimUntil
<1>1. job[s].pc \in {"starting", "claimStart", "announce"} => job[s].due = {} /\ job[s].id = 0
  BY DEF JobsInv, JobSound
<1>2. CASE FindStarting(s)
  BY <1>1, <1>2, EndJobDoes, JobGotoDoes
  DEF FindStarting, Works, Rests, GoesTo, InWindow, JobPcs
<1>3. CASE ClaimStart(s)
  BY <1>1, <1>3, EndJobDoes, JobGotoDoes DEF ClaimStart, Works, Rests, GoesTo, JobPcs
<1>4. CASE Announce(s)
  BY <1>1, <1>4, EndJobDoes, JobGotoDoes DEF Announce, Works, Rests, GoesTo, JobPcs
<1> QED BY <1>2, <1>3, <1>4

LEMMA TickDoes ==
  ASSUME JobsInv, NEW s \in Servers, Tick(s)
  PROVE  /\ s \in up /\ ticked[s] # now /\ ticked' = [ticked EXCEPT ![s] = now]
         /\ UNCHANGED <<now, up, requests, faults, reminder, claimUntil, sent, lost, starts, lostStart>>
         /\ job' \in [Servers -> Jobs]
         /\ \A r \in Servers \ {s} : job'[r] = job[r]
         /\ \/ /\ job[s].pc = "idle" /\ job'[s].pc = "find"
               /\ job'[s].at = now /\ job'[s].due = {} /\ job'[s].id = 0
            \/ job[s].pc # "idle" /\ job' = job
<1>1. /\ s \in up /\ ticked[s] # now /\ ticked' = [ticked EXCEPT ![s] = now]
      /\ UNCHANGED <<now, up, requests, faults, reminder, claimUntil, sent, lost, starts, lostStart>>
  BY DEF Tick
<1>2. CASE job[s] = NoJob
  <2> DEFINE j == [NoJob EXCEPT !.pc = "find", !.at = now]
  <2>1. job' = [job EXCEPT ![s] = j]
    BY <1>2 DEF Tick
  <2>2. j \in Jobs /\ j.pc = "find" /\ j.at = now /\ j.due = {} /\ j.id = 0
    BY NoJobFacts DEF JobsInv, Jobs, JobPcs
  <2> HIDE DEF j
  <2>3. job' \in [Servers -> Jobs] /\ job'[s] = j /\ \A r \in Servers \ {s} : job'[r] = job[r]
    BY <2>1, <2>2 DEF JobsInv
  <2> QED BY <1>1, <1>2, <2>2, <2>3, NoJobFacts
<1>3. CASE job[s] # NoJob
  <2>1. job[s].pc # "idle"
    BY <1>3 DEF JobsInv, JobSound
  <2>2. job' = job
    BY <1>3 DEF Tick
  <2> QED BY <1>1, <2>1, <2>2 DEF JobsInv
<1> QED BY <1>2, <1>3

\* A tick that fails, or dies with its server, takes a claim with it.
Fails(s) ==
    /\ faults < MaxFaults /\ faults' = faults + 1
    /\ job' \in [Servers -> Jobs] /\ job'[s] = NoJob
    /\ \A r \in Servers \ {s} : job'[r] = job[r]
    /\ lost' = IF job[s].pc = "send" THEN lost \cup {job[s].id} ELSE lost
    /\ lostStart' = IF job[s].pc = "announce" THEN lostStart + 1 ELSE lostStart
    /\ UNCHANGED <<now, reminder, claimUntil, ticked, sent, starts, requests>>

LEMMA FaultDoes ==
  ASSUME JobsInv, NEW s \in Servers, FailTick(s) \/ CrashServer(s)
  PROVE  /\ Fails(s)
         /\ \/ UNCHANGED up /\ job[s].pc # "idle"
            \/ up' = up \ {s}
<1>1. job[s] # NoJob => job[s].pc # "idle"
  BY DEF JobsInv, JobSound
<1> QED BY <1>1, EndJobDoes DEF FailTick, CrashServer, Dropped, Fails

-----------------------------------------------------------------------------
(* The jobs and the rows stay sound.                                       *)

LEMMA WorkedSound ==
  ASSUME JobsInv, RowsInv, NEW s \in Servers, JobStep(s)
  PROVE  /\ JobsInv' /\ Works(s) /\ job[s].pc # "idle"
         /\ UNCHANGED <<lost, lostStart>>
<1>1. CASE FindDue(s)
  <2>1. JobSound(job'[s], now)
    BY <1>1, FindDueDoes DEF JobSound, JobsInv, Works
  <2> QED BY <1>1, <2>1, FindDueDoes, WorksSound DEF JobSound, JobsInv
<1>2. CASE Claim(s)
  <2>1. CASE \E id \in job[s].due, v \in Viewers : Claims(s, id, v)
    <3>1. JobSound(job'[s], now) /\ Works(s) /\ job[s].pc = "claim"
      BY <2>1 DEF Claims, JobSound, JobsInv
    <3> QED BY <1>2, <3>1, WorksSound DEF Claim
  <2>2. CASE \E id \in job[s].due : job[s].pc = "claim" /\ Passes(s, id)
    <3>1. JobSound(job'[s], now) /\ Works(s) /\ job[s].pc = "claim"
      BY <2>2 DEF Passes, JobSound, JobsInv
    <3> QED BY <1>2, <3>1, WorksSound DEF Claim
  <2> QED BY <1>2, <2>1, <2>2, ClaimDoes
<1>3. CASE Send(s)
  <2>1. JobSound(job'[s], now) /\ Works(s) /\ job[s].pc = "send"
    BY <1>3, SendDoes DEF Passes, JobSound, JobsInv
  <2> QED BY <1>3, <2>1, WorksSound DEF Send
<1>4. CASE FindStarting(s) \/ ClaimStart(s) \/ Announce(s)
  <2>1. JobSound(job'[s], now) /\ Works(s) /\ job[s].pc # "idle" /\ UNCHANGED lostStart
    BY <1>4, StartingDoes, NoJobFacts DEF GoesTo, Rests, JobSound, JobsInv
  <2> QED BY <1>4, <2>1, WorksSound DEF FindStarting, ClaimStart, Announce
<1> QED BY <1>1, <1>2, <1>3, <1>4 DEF JobStep

LEMMA JobsInvNext ==
  ASSUME JobsInv, RowsInv, [RemindersNext]_reminderVars
  PROVE  JobsInv'
<1>1. CASE UNCHANGED reminderVars
  BY <1>1 DEF reminderVars, JobsInv
<1>2. ASSUME NEW v \in Viewers, RemindMe(v) \/ CancelReminder(v) PROVE JobsInv'
  BY <1>2, ReminderBounds DEF RemindMe, CancelReminder, JobsInv
<1>3. ASSUME NEW s \in Servers, Tick(s) PROVE JobsInv'
  <2>1. \A r \in Servers : JobSound(job'[r], now)
    BY <1>3, TickDoes, ReminderBounds DEF JobsInv, JobSound
  <2>2. \A r \in Servers : job'[r].pc # "idle" => r \in up
    BY <1>3, TickDoes DEF JobsInv
  <2> QED BY <1>3, <2>1, <2>2, TickDoes DEF JobsInv
<1>4. ASSUME NEW s \in Servers, JobStep(s) PROVE JobsInv'
  BY <1>4, WorkedSound
<1>5. ASSUME NEW s \in Servers, FailTick(s) \/ CrashServer(s) PROVE JobsInv'
  <2>1. Fails(s) /\ (up' = up \/ up' = up \ {s})
    BY <1>5, FaultDoes
  <2> QED BY <2>1, NoJobFacts, ReminderBounds DEF JobsInv, Fails
<1>6. ASSUME NEW s \in Servers, RestartServer(s) PROVE JobsInv'
  BY <1>6 DEF RestartServer, JobsInv
<1>7. CASE Advance
  <2>1. \A s \in Servers : job[s].pc # "idle" => now + 1 <= job[s].at + MaxTick
    BY <1>7, NoJobFacts DEF Advance
  <2>2. \A s \in Servers : JobSound(job[s], now + 1)
    BY <2>1, ReminderBounds DEF JobsInv, JobSound, Jobs
  <2> QED BY <1>7, <2>2, ReminderBounds DEF Advance, JobsInv
<1> QED BY <1>1, <1>2, <1>3, <1>4, <1>5, <1>6, <1>7 DEF RemindersNext

\* The steps of jobs that leave the rows as they are.
LEMMA RowsKept ==
  ASSUME JobsInv, RowsInv, NEW s \in Servers,
         \/ Tick(s) \/ FindDue(s) \/ Send(s) \/ FindStarting(s) \/ ClaimStart(s) \/ Announce(s)
         \/ FailTick(s) \/ CrashServer(s) \/ RestartServer(s)
  PROVE  UNCHANGED <<reminder, requests>>
BY DEF Tick, FindDue, Send, FindStarting, ClaimStart, Announce, FailTick, CrashServer, RestartServer

LEMMA RowsUnchanged ==
  ASSUME RowsInv, UNCHANGED <<reminder, requests>> PROVE RowsInv'
BY DEF RowsInv

\* A claim marks exactly the row of the viewer.
LEMMA MarkedRow ==
  ASSUME RowsInv, NEW v \in Viewers, NEW id, Claimable(v, id),
         reminder' = [reminder EXCEPT ![v][1].notified = TRUE], requests' = requests
  PROVE  /\ RowsInv'
         /\ reminder[v] # <<>> /\ reminder[v][1].id = id /\ ~reminder[v][1].notified /\ id \in Ids
         /\ reminder'[v] # <<>> /\ reminder'[v][1].id = id /\ reminder'[v][1].notified
         /\ \A w \in Viewers \ {v} : reminder'[w] = reminder[w]
<1>1. reminder[v] # <<>> /\ reminder[v][1] = [id |-> id, notified |-> FALSE]
  BY DEF Claimable
<1>2. id \in Ids /\ id =< requests /\ reminder[v] = <<[id |-> id, notified |-> FALSE]>>
  BY <1>1, RowOfViewer
<1> DEFINE old == [id |-> id, notified |-> FALSE]
           r == [old EXCEPT !.notified = TRUE]
<1>3. reminder' = [reminder EXCEPT ![v] = <<r>>]
  <2>4. [<<old>> EXCEPT ![1].notified = TRUE] = [<<old>> EXCEPT ![1] = r]
    OBVIOUS
  <2> HIDE DEF old, r
  <2>5. [<<old>> EXCEPT ![1] = r] = <<r>>
    OBVIOUS
  <2>1. [<<old>> EXCEPT ![1].notified = TRUE] = <<r>>
    BY <2>4, <2>5
  <2>2. reminder' = [reminder EXCEPT ![v] = [reminder[v] EXCEPT ![1].notified = TRUE]]
    OBVIOUS
  <2> QED BY <1>2, <2>1, <2>2 DEF old
<1>4. r \in [id : Ids, notified : BOOLEAN] /\ r.id = id /\ r.notified
  BY <1>2
<1> HIDE DEF r
<1>5. reminder' \in [Viewers -> {<<>>} \cup {<<x>> : x \in [id : Ids, notified : BOOLEAN]}]
  BY <1>3, <1>4 DEF RowsInv
<1>6. reminder'[v] = <<r>> /\ \A w \in Viewers \ {v} : reminder'[w] = reminder[w]
  BY <1>3 DEF RowsInv
<1>7. reminder'[v] # <<>> /\ reminder'[v][1].id = id /\ reminder'[v][1].notified
  BY <1>4, <1>6
<1>8. RowsInv'
  <2>1. \A w \in Viewers : reminder'[w] # <<>> =>
           reminder[w] # <<>> /\ reminder'[w][1].id = reminder[w][1].id
    BY <1>1, <1>6, <1>7
  <2>2. \A w \in Viewers : reminder'[w] # <<>> => reminder'[w][1].id =< requests'
    BY <2>1 DEF RowsInv
  <2>3. \A w, x \in Viewers : reminder'[w] # <<>> /\ reminder'[x] # <<>>
                               /\ reminder'[w][1].id = reminder'[x][1].id => w = x
    BY <2>1 DEF RowsInv
  <2> QED BY <1>5, <2>2, <2>3 DEF RowsInv
<1> QED BY <1>1, <1>2, <1>6, <1>7, <1>8

LEMMA RemindMeDoes ==
  ASSUME JobsInv, RowsInv, NEW v \in Viewers, RemindMe(v)
  PROVE  /\ RowsInv'
         /\ reminder'[v] # <<>> /\ reminder'[v][1].id = requests + 1 /\ ~reminder'[v][1].notified
         /\ \A w \in Viewers \ {v} : reminder'[w] = reminder[w]
<1> DEFINE r == [id |-> requests + 1, notified |-> FALSE]
<1>1. requests' = requests + 1 /\ requests' \in Ids
  BY ReminderBounds DEF RemindMe, JobsInv, Ids
<1>2. reminder' = [reminder EXCEPT ![v] = <<r>>]
  BY DEF RemindMe
<1>3. r \in [id : Ids, notified : BOOLEAN] /\ r.id = requests + 1 /\ ~r.notified
  BY <1>1
<1> HIDE DEF r
<1>4. reminder' \in [Viewers -> {<<>>} \cup {<<x>> : x \in [id : Ids, notified : BOOLEAN]}]
  BY <1>2, <1>3 DEF RowsInv
<1>5. reminder'[v] = <<r>> /\ \A w \in Viewers \ {v} : reminder'[w] = reminder[w]
  BY <1>2 DEF RowsInv
<1>6. reminder'[v] # <<>> /\ reminder'[v][1].id = requests + 1 /\ ~reminder'[v][1].notified
  BY <1>3, <1>5
<1>7. \A w \in Viewers : reminder[w] # <<>> => reminder[w][1].id \in Ids /\ reminder[w][1].id =< requests
  BY RowOfViewer
<1>8. requests \in Nat /\ Ids \subseteq Nat
  BY DEF JobsInv, Ids
<1>9. RowsInv'
  <2>1. \A w \in Viewers : reminder'[w] # <<>> =>
           /\ reminder'[w][1].id =< requests'
           /\ w # v => reminder'[w][1].id < requests + 1
    <3>1. \A n \in Ids : n =< requests => n =< requests + 1 /\ n < requests + 1
      BY <1>8
    <3> SUFFICES ASSUME NEW w \in Viewers, reminder'[w] # <<>>
                 PROVE  /\ reminder'[w][1].id =< requests'
                        /\ w # v => reminder'[w][1].id < requests + 1
      OBVIOUS
    <3>2. CASE w = v
      BY <1>1, <1>6, <1>8, <3>2
    <3>3. CASE w # v
      BY <1>1, <1>5, <1>7, <3>1, <3>3
    <3> QED BY <3>2, <3>3
  <2>2. \A w, x \in Viewers : reminder'[w] # <<>> /\ reminder'[x] # <<>>
                               /\ reminder'[w][1].id = reminder'[x][1].id => w = x
    BY <1>5, <1>6, <1>7, <1>8, <2>1 DEF RowsInv
  <2> QED BY <1>4, <2>1, <2>2 DEF RowsInv
<1> QED BY <1>5, <1>6, <1>9

LEMMA CancelDoes ==
  ASSUME RowsInv, NEW v \in Viewers, CancelReminder(v)
  PROVE  /\ RowsInv' /\ reminder'[v] = <<>>
         /\ \A w \in Viewers \ {v} : reminder'[w] = reminder[w]
<1>1. reminder' \in [Viewers -> {<<>>} \cup {<<x>> : x \in [id : Ids, notified : BOOLEAN]}]
  BY DEF CancelReminder, RowsInv
<1>2. reminder'[v] = <<>> /\ \A w \in Viewers \ {v} : reminder'[w] = reminder[w]
  BY DEF CancelReminder, RowsInv
<1> QED BY <1>1, <1>2 DEF RowsInv, CancelReminder

LEMMA RowsInvNext ==
  ASSUME JobsInv, RowsInv, [RemindersNext]_reminderVars
  PROVE  RowsInv'
<1>1. CASE UNCHANGED reminderVars
  BY <1>1, RowsUnchanged DEF reminderVars
<1>2. ASSUME NEW v \in Viewers, RemindMe(v) \/ CancelReminder(v) PROVE RowsInv'
  BY <1>2, RemindMeDoes, CancelDoes
<1>3. ASSUME NEW s \in Servers, Claim(s) PROVE RowsInv'
  BY <1>3, ClaimDoes, MarkedRow, RowsUnchanged DEF Claims, Passes, Works
<1>4. ASSUME NEW s \in Servers,
             \/ Tick(s) \/ FindDue(s) \/ Send(s) \/ FindStarting(s) \/ ClaimStart(s) \/ Announce(s)
             \/ FailTick(s) \/ CrashServer(s) \/ RestartServer(s)
      PROVE RowsInv'
  BY <1>4, RowsKept, RowsUnchanged
<1>5. CASE Advance
  BY <1>5, RowsUnchanged DEF Advance
<1> QED BY <1>1, <1>2, <1>3, <1>4, <1>5 DEF RemindersNext, JobStep

-----------------------------------------------------------------------------
(* A reminder is taken once.                                               *)

\* Steps that neither claim nor send.
LEMMA ClaimsKept ==
  ASSUME ClaimsInv, UNCHANGED <<reminder, sent, lost>>, requests =< requests',
         RowsInv, JobsInv, JobsInv',
         \A s \in Servers : (job'[s].pc = "send" \/ job[s].pc = "send") =>
                               job'[s].pc = job[s].pc /\ job'[s].id = job[s].id
  PROVE  ClaimsInv'
<1>1. \A s \in Servers : \A id \in Ids : Sends(s, id)' <=> Sends(s, id)
  BY DEF Sends
<1>2. Taken' = Taken
  BY DEF Taken, Sends
<1>3. \A id \in Taken' : id =< requests'
  BY <1>2 DEF ClaimsInv, JobsInv, Ids, Taken
<1>4. \A s \in Servers, id \in Ids :
         Sends(s, id)' => sent'[id] = 0 /\ id \notin lost' /\ \A r \in Servers : Sends(r, id)' => r = s
  BY <1>1 DEF ClaimsInv, Sends
<1> QED BY <1>2, <1>3, <1>4 DEF ClaimsInv, Sends

LEMMA ClaimTaken ==
  ASSUME JobsInv, RowsInv, ClaimsInv, NEW s \in Servers, NEW id, NEW v \in Viewers, Claims(s, id, v)
  PROVE  ClaimsInv'
<1>1. /\ reminder[v] # <<>> /\ reminder[v][1].id = id /\ ~reminder[v][1].notified /\ id \in Ids
      /\ reminder'[v] # <<>> /\ reminder'[v][1].id = id /\ reminder'[v][1].notified
      /\ \A w \in Viewers \ {v} : reminder'[w] = reminder[w]
  <2>1. Claimable(v, id) /\ requests' = requests
        /\ reminder' = [reminder EXCEPT ![v][1].notified = TRUE]
    BY DEF Claims, Works
  <2> QED BY <2>1, MarkedRow
<1>2. id \notin Taken /\ id =< requests
  BY <1>1, RowOfViewer DEF ClaimsInv
<1>3. \A r \in Servers : \A i \in Ids : Sends(r, i)' <=> (Sends(r, i) \/ (r = s /\ i = id))
  BY <1>1 DEF Sends, Claims, Works
<1>4. Taken' = Taken \cup {id}
  <2>1. \A i \in Ids : i \in Taken' <=> (i \in Taken \/ i = id)
    BY <1>3 DEF Taken, Claims, Sends
  <2>2. Taken \subseteq Ids /\ Taken' \subseteq Ids
    BY DEF Taken
  <2> QED BY <1>1, <2>1, <2>2
<1>5. sent[id] = 0 /\ id \notin lost /\ \A r \in Servers : ~Sends(r, id)
  BY <1>1, <1>2 DEF Taken, ClaimsInv
<1>6. \A w \in Viewers : reminder'[w] # <<>> =>
         (reminder'[w][1].notified <=> reminder'[w][1].id \in Taken')
  <2> SUFFICES ASSUME NEW w \in Viewers, reminder'[w] # <<>>
               PROVE  reminder'[w][1].notified <=> reminder'[w][1].id \in Taken'
    OBVIOUS
  <2>1. CASE w = v
    BY <1>1, <1>4, <2>1
  <2>2. CASE w # v
    BY <1>1, <1>4, <2>2 DEF RowsInv, ClaimsInv
  <2> QED BY <2>1, <2>2
<1>7. \A i \in Taken' : i =< requests'
  BY <1>2, <1>4 DEF ClaimsInv, Claims, Works
<1>8. \A r \in Servers, i \in Ids :
         Sends(r, i)' => sent[i] = 0 /\ i \notin lost /\ \A q \in Servers : Sends(q, i)' => q = r
  <2> SUFFICES ASSUME NEW r \in Servers, NEW i \in Ids, Sends(r, i)'
               PROVE  sent[i] = 0 /\ i \notin lost /\ \A q \in Servers : Sends(q, i)' => q = r
    BY DEF Sends
  <2>1. CASE i = id
    BY <1>3, <1>5, <2>1
  <2>2. CASE i # id
    BY <1>3, <2>2 DEF ClaimsInv
  <2> QED BY <2>1, <2>2
<1> QED BY <1>6, <1>7, <1>8 DEF ClaimsInv, Claims, Sends

\* A claim that is sent, or lost, is no longer on its way.
LEMMA ClaimSettled ==
  ASSUME JobsInv, RowsInv, ClaimsInv, NEW s \in Servers,
         job[s].pc = "send", UNCHANGED <<reminder, requests>>,
         \A r \in Servers \ {s} : job'[r] = job[r],
         job'[s].pc # "send",
         \/ sent' = [sent EXCEPT ![job[s].id] = @ + 1] /\ UNCHANGED lost
         \/ lost' = lost \cup {job[s].id} /\ UNCHANGED sent
  PROVE  ClaimsInv'
<1>1. PICK id \in Ids : id = job[s].id /\ Sends(s, id)
  BY DEF JobsInv, JobSound, Jobs, Sends
<1>2. sent[id] = 0 /\ id \notin lost /\ \A r \in Servers : Sends(r, id) => r = s
  BY <1>1 DEF ClaimsInv
<1>3. /\ sent' \in [Ids -> {0, 1}] /\ lost' \subseteq Ids
      /\ \A i \in Ids \ {id} : sent'[i] = sent[i] /\ (i \in lost' <=> i \in lost)
      /\ \/ sent'[id] = 1 /\ id \notin lost'
         \/ sent'[id] = 0 /\ id \in lost'
  <2>1. CASE sent' = [sent EXCEPT ![id] = @ + 1] /\ UNCHANGED lost
    BY <1>2, <2>1 DEF ClaimsInv
  <2>2. CASE lost' = lost \cup {id} /\ UNCHANGED sent
    BY <1>2, <2>2 DEF ClaimsInv
  <2> QED BY <1>1, <2>1, <2>2
<1>4. \A r \in Servers : \A i \in Ids : Sends(r, i)' <=> (Sends(r, i) /\ r # s)
  BY DEF Sends
<1>5. \A i \in Ids : Sends(s, i) => i = id
  BY <1>1 DEF Sends
<1>6. \A r \in Servers : ~Sends(r, id)'
  BY <1>1, <1>2, <1>4 DEF Sends
<1>7. Taken' = Taken
  <2>1. id \in Taken /\ id \in Taken'
    BY <1>1, <1>3 DEF Taken
  <2>2. \A i \in Ids \ {id} : i \in Taken' <=> i \in Taken
    BY <1>3, <1>4, <1>5 DEF Taken, Sends
  <2>3. Taken \subseteq Ids /\ Taken' \subseteq Ids
    BY DEF Taken
  <2> QED BY <2>1, <2>2, <2>3
<1>8. \A r \in Servers, i \in Ids :
         Sends(r, i)' => sent'[i] = 0 /\ i \notin lost' /\ \A q \in Servers : Sends(q, i)' => q = r
  <2> SUFFICES ASSUME NEW r \in Servers, NEW i \in Ids, Sends(r, i)'
               PROVE  sent'[i] = 0 /\ i \notin lost' /\ \A q \in Servers : Sends(q, i)' => q = r
    BY DEF Sends
  <2>1. i # id /\ Sends(r, i)
    BY <1>4, <1>6
  <2>2. sent'[i] = 0 /\ i \notin lost'
    BY <1>3, <2>1 DEF ClaimsInv
  <2>3. \A q \in Servers : Sends(q, i)' => q = r
    BY <1>4, <2>1 DEF ClaimsInv
  <2> QED BY <2>2, <2>3
<1>9. \A i \in lost' : sent'[i] = 0
  BY <1>3 DEF ClaimsInv
<1> QED BY <1>3, <1>7, <1>8, <1>9 DEF ClaimsInv, Sends

LEMMA ClaimsInvNext ==
  ASSUME JobsInv, RowsInv, ClaimsInv, JobsInv', [RemindersNext]_reminderVars
  PROVE  ClaimsInv'
<1>0. requests \in Nat
  BY DEF JobsInv
<1>1. CASE UNCHANGED reminderVars
  BY <1>0, <1>1, ClaimsKept DEF reminderVars
<1>2. ASSUME NEW v \in Viewers, RemindMe(v) \/ CancelReminder(v) PROVE ClaimsInv'
  <2>1. UNCHANGED <<job, sent, lost>> /\ (requests' = requests \/ requests' = requests + 1)
    BY <1>2 DEF RemindMe, CancelReminder
  <2>2. Taken' = Taken /\ Taken \subseteq Ids
    BY <2>1 DEF Taken, Sends
  <2>3. requests + 1 \notin Taken
    BY <1>0 DEF ClaimsInv
  <2>4. /\ \A w \in Viewers \ {v} : reminder'[w] = reminder[w]
        /\ \/ reminder'[v] = <<>>
           \/ reminder'[v][1].id = requests + 1 /\ ~reminder'[v][1].notified
    BY <1>2, RemindMeDoes, CancelDoes
  <2>5. \A w \in Viewers : reminder'[w] # <<>> =>
         (reminder'[w][1].notified <=> reminder'[w][1].id \in Taken')
    BY <2>2, <2>3, <2>4 DEF ClaimsInv
  <2>6. \A i \in Taken' : i =< requests'
    BY <1>0, <2>1, <2>2 DEF ClaimsInv, Ids
  <2> QED BY <2>1, <2>2, <2>5, <2>6 DEF ClaimsInv, Sends
<1>3. ASSUME NEW s \in Servers, Claim(s) PROVE ClaimsInv'
  <2>1. CASE \E id \in job[s].due, v \in Viewers : Claims(s, id, v)
    BY <2>1, ClaimTaken
  <2>2. CASE \E id \in job[s].due : /\ job[s].pc = "claim" /\ Passes(s, id)
                                    /\ UNCHANGED <<reminder, claimUntil, sent, lost, starts, lostStart>>
    BY <1>0, <2>2, ClaimsKept DEF Passes, Works
  <2> QED BY <1>3, <2>1, <2>2, ClaimDoes
<1>4. ASSUME NEW s \in Servers, Send(s) PROVE ClaimsInv'
  BY <1>4, SendDoes, ClaimSettled DEF Passes, Works
<1>5. ASSUME NEW s \in Servers, Tick(s) PROVE ClaimsInv'
  BY <1>0, <1>5, TickDoes, ClaimsKept
<1>6. ASSUME NEW s \in Servers, FindDue(s) PROVE ClaimsInv'
  BY <1>0, <1>6, FindDueDoes, ClaimsKept DEF Works
<1>7. ASSUME NEW s \in Servers, FindStarting(s) \/ ClaimStart(s) \/ Announce(s) PROVE ClaimsInv'
  BY <1>0, <1>7, StartingDoes, NoJobFacts, ClaimsKept DEF GoesTo, Rests, Works
<1>8. ASSUME NEW s \in Servers, FailTick(s) \/ CrashServer(s) PROVE ClaimsInv'
  <2>1. Fails(s)
    BY <1>8, FaultDoes
  <2>2. CASE job[s].pc = "send"
    BY <2>1, <2>2, NoJobFacts, ClaimSettled DEF Fails
  <2>3. CASE job[s].pc # "send"
    BY <1>0, <2>1, <2>3, NoJobFacts, ClaimsKept DEF Fails
  <2> QED BY <2>2, <2>3
<1>9. ASSUME NEW s \in Servers, RestartServer(s) PROVE ClaimsInv'
  BY <1>0, <1>9, ClaimsKept DEF RestartServer
<1>10. CASE Advance
  BY <1>0, <1>10, ClaimsKept DEF Advance
<1> QED BY <1>1, <1>2, <1>3, <1>4, <1>5, <1>6, <1>7, <1>8, <1>9, <1>10 DEF RemindersNext, JobStep

-----------------------------------------------------------------------------
(* The start of the room is claimed once.                                  *)

Announcers == {s \in Servers : job[s].pc = "announce"}

\* While the claim is unused it has not been held; after it was, it outlives the
\* window in which the room is found.
StartInv ==
    /\ claimUntil \in Nat /\ starts \in Nat /\ lostStart \in Nat
    /\ \A s \in Servers : job[s].pc \in {"claimStart", "announce"} => InWindow(job[s].at)
    /\ IF claimUntil = 0 THEN Announcers = {} /\ starts + lostStart = 0
       ELSE /\ claimUntil >= ScheduledAt + 2 * STARTING_WINDOW
            /\ \/ Announcers = {} /\ starts + lostStart = 1
               \/ starts + lostStart = 0 /\ \E s \in Servers : Announcers = {s}

LEMMA StartInitInv == RemindersInit => StartInv
<1> SUFFICES ASSUME RemindersInit PROVE StartInv
  OBVIOUS
<1>1. \A s \in Servers : job[s].pc = "idle"
  BY NoJobFacts DEF RemindersInit
<1>2. Announcers = {}
  BY <1>1 DEF Announcers
<1> QED BY <1>1, <1>2 DEF RemindersInit, StartInv

LEMMA StartKept ==
  ASSUME StartInv, UNCHANGED <<claimUntil, starts, lostStart>>,
         \A s \in Servers : job'[s].pc = "announce" <=> job[s].pc = "announce",
         \A s \in Servers : job'[s].pc \in {"claimStart", "announce"} => InWindow(job'[s].at)
  PROVE  StartInv'
<1>1. Announcers' = Announcers
  BY DEF Announcers
<1> QED BY <1>1 DEF StartInv, InWindow

\* Nobody claims twice: when the claim is over, so is the window.
LEMMA StartClaimed ==
  ASSUME JobsInv, StartInv, NEW s \in Servers, GoesTo(s, "claimStart", "announce"),
         claimUntil <= now, claimUntil' = now + ClaimTtl, UNCHANGED <<starts, lostStart>>
  PROVE  StartInv'
<1>1. InWindow(job[s].at) /\ job[s].at \in Nat /\ now =< job[s].at + MaxTick /\ job[s].at =< now
  BY DEF StartInv, GoesTo, JobsInv, JobSound, Jobs
<1>2. claimUntil = 0
  <2>1. now \in Nat /\ claimUntil \in Nat
    BY DEF JobsInv, StartInv
  <2>2. now < ScheduledAt + 2 * STARTING_WINDOW
    BY <1>1, <2>1, ReminderBounds DEF InWindow
  <2> QED BY <2>1, <2>2, ReminderBounds DEF StartInv
<1>3. Announcers' = {s}
  BY <1>2 DEF StartInv, Announcers, GoesTo, Works
<1>4. claimUntil' \in Nat /\ claimUntil' # 0 /\ claimUntil' >= ScheduledAt + 2 * STARTING_WINDOW
  BY <1>1, ReminderBounds DEF InWindow, ClaimTtl, JobsInv
<1>5. \A r \in Servers : job'[r].pc \in {"claimStart", "announce"} => InWindow(job'[r].at)
  BY <1>1 DEF StartInv, GoesTo, Works
<1> QED BY <1>2, <1>3, <1>4, <1>5 DEF StartInv, InWindow

\* The one that holds the claim announces, or dies.
LEMMA StartSettled ==
  ASSUME JobsInv, StartInv, NEW s \in Servers, job[s].pc = "announce", job'[s] = NoJob,
         \A r \in Servers \ {s} : job'[r] = job[r], UNCHANGED claimUntil,
         \/ starts' = starts + 1 /\ UNCHANGED lostStart
         \/ lostStart' = lostStart + 1 /\ UNCHANGED starts
  PROVE  StartInv'
<1>1. s \in Announcers
  BY DEF Announcers
<1>2. Announcers = {s} /\ starts + lostStart = 0 /\ claimUntil # 0
  BY <1>1 DEF StartInv
<1>3. Announcers' = {}
  BY <1>2, NoJobFacts DEF Announcers
<1>4. starts' \in Nat /\ lostStart' \in Nat /\ starts' + lostStart' = 1
  BY <1>2 DEF StartInv
<1>5. \A r \in Servers : job'[r].pc \in {"claimStart", "announce"} => InWindow(job'[r].at)
  BY NoJobFacts DEF StartInv
<1> QED BY <1>2, <1>3, <1>4, <1>5 DEF StartInv, InWindow

LEMMA StartInvNext ==
  ASSUME JobsInv, RowsInv, StartInv, [RemindersNext]_reminderVars
  PROVE  StartInv'
<1>0. \A s \in Servers : job[s].pc \in {"claimStart", "announce"} => InWindow(job[s].at)
  BY DEF StartInv
<1>1. CASE UNCHANGED reminderVars
  BY <1>0, <1>1, StartKept DEF reminderVars
<1>2. ASSUME NEW v \in Viewers, RemindMe(v) \/ CancelReminder(v) PROVE StartInv'
  BY <1>0, <1>2, StartKept DEF RemindMe, CancelReminder
<1>3. ASSUME NEW s \in Servers, Claim(s) PROVE StartInv'
  <2>1. CASE \E id \in job[s].due, v \in Viewers : Claims(s, id, v)
    BY <1>0, <2>1, StartKept DEF Claims, Works
  <2>2. CASE \E id \in job[s].due : /\ job[s].pc = "claim" /\ Passes(s, id)
                                    /\ UNCHANGED <<reminder, claimUntil, sent, lost, starts, lostStart>>
    BY <1>0, <2>2, StartKept DEF Passes, Works
  <2> QED BY <1>3, <2>1, <2>2, ClaimDoes
<1>4. ASSUME NEW s \in Servers, Send(s) PROVE StartInv'
  BY <1>0, <1>4, SendDoes, StartKept DEF Passes, Works
<1>5. ASSUME NEW s \in Servers, Tick(s) PROVE StartInv'
  BY <1>0, <1>5, TickDoes, StartKept
<1>6. ASSUME NEW s \in Servers, FindDue(s) PROVE StartInv'
  BY <1>0, <1>6, FindDueDoes, StartKept DEF Works
<1>7. ASSUME NEW s \in Servers, FindStarting(s) \/ ClaimStart(s) \/ Announce(s) PROVE StartInv'
  <2>1. UNCHANGED lostStart
    BY <1>7, StartingDoes
  <2>2. CASE /\ GoesTo(s, "starting", "claimStart") /\ InWindow(job[s].at)
             /\ UNCHANGED <<claimUntil, starts>>
    BY <1>0, <2>1, <2>2, StartKept DEF GoesTo, Works
  <2>3. CASE /\ Rests(s) /\ job[s].pc # "announce"
             /\ UNCHANGED <<claimUntil, starts>>
    BY <1>0, <2>1, <2>3, NoJobFacts, StartKept DEF Rests, Works
  <2>4. CASE /\ GoesTo(s, "claimStart", "announce")
             /\ claimUntil <= now /\ claimUntil' = now + ClaimTtl /\ UNCHANGED starts
    BY <2>1, <2>4, StartClaimed
  <2>5. CASE /\ Rests(s) /\ job[s].pc = "announce"
             /\ starts' = starts + 1 /\ UNCHANGED claimUntil
    BY <2>1, <2>5, StartSettled DEF Rests, Works
  <2> QED BY <1>7, <2>2, <2>3, <2>4, <2>5, StartingDoes
<1>8. ASSUME NEW s \in Servers, FailTick(s) \/ CrashServer(s) PROVE StartInv'
  <2>1. Fails(s)
    BY <1>8, FaultDoes
  <2>2. CASE job[s].pc = "announce"
    BY <2>1, <2>2, StartSettled DEF Fails
  <2>3. CASE job[s].pc # "announce"
    BY <1>0, <2>1, <2>3, NoJobFacts, StartKept DEF Fails
  <2> QED BY <2>2, <2>3
<1>9. ASSUME NEW s \in Servers, RestartServer(s) PROVE StartInv'
  BY <1>0, <1>9, StartKept DEF RestartServer
<1>10. CASE Advance
  BY <1>0, <1>10, StartKept DEF Advance
<1> QED BY <1>1, <1>2, <1>3, <1>4, <1>5, <1>6, <1>7, <1>8, <1>9, <1>10 DEF RemindersNext, JobStep

-----------------------------------------------------------------------------
(* Somebody has the time to do it.                                         *)

Period == MaxTick + 1

\* When the interval of a server fires next, if it has no tick under way.
NextTick(last, time) == IF last = time THEN time + 1 ELSE time

\* A server that will find the room within its window.
WillFind(j, next) ==
    IF j.pc = "idle" THEN next =< ScheduledAt + MaxTick ELSE j.at =< ScheduledAt + MaxTick

\* What is left of the reminders u after k full batches.
Left(u, k) == u = {} \/ Cardinality(u) + BATCH_SIZE * k =< MaxRequests

\* A server that has completed k ticks since the start, each within one Period.
Completed(j, next, u, k) ==
    IF j.pc = "idle" THEN next < ScheduledAt + (k + 1) * Period /\ Left(u, k)
    ELSE /\ j.at < ScheduledAt + (k + 1) * Period /\ Left(u, k)
         /\ j.pc # "find" => Left(u \ j.due, k + 1)

OnTime(j, next, u) ==
    \/ j.pc # "idle" /\ j.at < ScheduledAt
    \/ \E k \in Nat : Completed(j, next, u, k)

Misses == {s \in Servers : s \notin up
             \/ (now >= ScheduledAt /\ ~WillFind(job[s], NextTick(ticked[s], now)))}
Behind == {s \in Servers : s \notin up
             \/ (now >= ScheduledAt /\ ~OnTime(job[s], NextTick(ticked[s], now), Unmarked))}

\* Only a failure keeps a server from finding the room in time, and each failure
\* keeps one server from it; the same for the reminders.
TimeInv ==
    /\ claimUntil = 0 => Cardinality(Misses) =< faults
    /\ EnoughTicks => Cardinality(Behind) =< faults

LEMMA FewIds ==
  ASSUME NEW u \in SUBSET Ids
  PROVE  /\ IsFiniteSet(u) /\ Cardinality(u) \in Nat /\ Cardinality(u) =< MaxRequests
         /\ \A w \in SUBSET u : Cardinality(w) =< Cardinality(u)
<1>1. IsFiniteSet(Ids) /\ Cardinality(Ids) = MaxRequests
  BY FS_Interval, ReminderBounds DEF Ids
<1>2. IsFiniteSet(u) /\ Cardinality(u) =< MaxRequests
  BY <1>1, FS_Subset
<1> QED BY <1>2, FS_CardinalityType, FS_Subset

LEMMA LeftFewer ==
  ASSUME NEW u \in SUBSET Ids, NEW w \in SUBSET u, NEW k \in Nat, Left(u, k)
  PROVE  Left(w, k)
<1>1. Cardinality(w) =< Cardinality(u) /\ Cardinality(u) \in Nat /\ Cardinality(w) \in Nat
  <2>1. w \in SUBSET Ids
    OBVIOUS
  <2> QED BY <2>1, FewIds
<1>2. BATCH_SIZE * k \in Nat
  BY ReminderBounds
<1>4. CASE u = {}
  BY <1>4 DEF Left
<1>5. CASE u # {}
  <2>1. Cardinality(u) + BATCH_SIZE * k =< MaxRequests
    BY <1>5 DEF Left
  <2>2. Cardinality(w) + BATCH_SIZE * k =< MaxRequests
    BY <1>1, <1>2, <2>1, ReminderBounds
  <2> QED BY <2>2 DEF Left
<1> QED BY <1>4, <1>5

\* At the start at most MaxRequests reminders wait.
LEMMA LeftAtStart ==
  ASSUME NEW u \in SUBSET Ids
  PROVE  Left(u, 0)
BY FewIds, ReminderBounds DEF Left

\* A batch that was picked is taken off, or is all there is.
LEMMA LeftAfterBatch ==
  ASSUME NEW u \in SUBSET Ids, NEW b \in SUBSET u, b = u \/ Cardinality(b) = BATCH_SIZE,
         NEW k \in Nat, Left(u, k)
  PROVE  Left(u \ b, k + 1)
<1>1. IsFiniteSet(u) /\ Cardinality(u) \in Nat
  BY FewIds
<1>2. CASE u = {} \/ b = u
  BY <1>2 DEF Left
<1>3. CASE u # {} /\ Cardinality(b) = BATCH_SIZE
  <2>1. u \cap b = b
    OBVIOUS
  <2>2. Cardinality(u \ b) = Cardinality(u) - BATCH_SIZE
    BY <1>1, <1>3, <2>1, FS_Difference
  <2>3. BATCH_SIZE * (k + 1) = BATCH_SIZE * k + BATCH_SIZE /\ BATCH_SIZE * k \in Nat
    BY ReminderBounds
  <2>4. Cardinality(u) + BATCH_SIZE * k =< MaxRequests
    BY <1>3 DEF Left
  <2>5. Cardinality(u \ b) + BATCH_SIZE * (k + 1) =< MaxRequests
    BY <1>1, <2>2, <2>3, <2>4, ReminderBounds
  <2> QED BY <2>5 DEF Left
<1> QED BY <1>2, <1>3

\* With enough ticks nothing is left when the reminders are too late.
LEMMA LeftNothing ==
  ASSUME EnoughTicks, NEW u \in SUBSET Ids, NEW k \in Nat, Left(u, k),
         NEW time \in Nat, time >= ScheduledAt + LATE_REMINDER,
         time < ScheduledAt + (k + 1) * Period
  PROVE  u = {}
<1> DEFINE n == LATE_REMINDER \div (MaxTick + 1)
<1>1. Period \in Nat \ {0} /\ Period = MaxTick + 1
  BY ReminderBounds DEF Period
<1>2. n \in Nat /\ n * Period =< LATE_REMINDER /\ LATE_REMINDER < (n + 1) * Period
  BY <1>1, ReminderBounds
<1>3. BATCH_SIZE * n >= MaxRequests
  BY DEF EnoughTicks
<1> HIDE DEF n
<1>4. n =< k
  <2>1. n * Period < (k + 1) * Period
    BY <1>1, <1>2, ReminderBounds
  <2>2. ~(n >= k + 1)
    <3> SUFFICES ASSUME n >= k + 1 PROVE FALSE
      OBVIOUS
    <3>1. n * Period >= (k + 1) * Period
      BY <1>1, <1>2
    <3> QED BY <1>1, <1>2, <2>1, <3>1
  <2> QED BY <1>2, <2>2
<1>5. IsFiniteSet(u) /\ Cardinality(u) \in Nat
  BY FewIds
<1>6. CASE u # {}
  <2>1. Cardinality(u) + BATCH_SIZE * k =< MaxRequests
    BY <1>6 DEF Left
  <2>2. BATCH_SIZE * n =< BATCH_SIZE * k /\ BATCH_SIZE * n \in Nat /\ BATCH_SIZE * k \in Nat
    BY <1>2, <1>4, ReminderBounds
  <2>3. Cardinality(u) =< 0
    BY <1>3, <1>5, <2>1, <2>2, ReminderBounds
  <2> QED BY <1>5, <2>3, FS_EmptySet
<1> QED BY <1>6

LEMMA PeriodKind == Period \in Nat \ {0} /\ Period = MaxTick + 1
BY ReminderBounds DEF Period

LEMMA OnTimeFewer ==
  ASSUME NEW j \in Jobs, NEW n \in Nat, NEW u \in SUBSET Ids, NEW w \in SUBSET u,
         OnTime(j, n, u)
  PROVE  OnTime(j, n, w)
<1>1. CASE j.pc # "idle" /\ j.at < ScheduledAt
  BY <1>1 DEF OnTime
<1>2. ASSUME NEW k \in Nat, Completed(j, n, u, k) PROVE OnTime(j, n, w)
  <2>1. Left(u, k) => Left(w, k)
    BY LeftFewer
  <2>2. Left(u \ j.due, k + 1) => Left(w \ j.due, k + 1)
    <3>1. u \ j.due \in SUBSET Ids /\ w \ j.due \in SUBSET (u \ j.due) /\ k + 1 \in Nat
      OBVIOUS
    <3> QED BY <3>1, LeftFewer
  <2>3. Completed(j, n, w, k)
    BY <1>2, <2>1, <2>2 DEF Completed
  <2> QED BY <2>3 DEF OnTime
<1> QED BY <1>1, <1>2 DEF OnTime

LEMMA OnTimeBegins ==
  ASSUME NEW j \in Jobs, NEW i \in Jobs, NEW n \in Nat, NEW m, NEW u,
         OnTime(j, n, u), j.pc = "idle", i.pc = "find", i.at = n
  PROVE  OnTime(i, m, u)
<1>1. PICK k \in Nat : Completed(j, n, u, k)
  BY DEF OnTime
<1>2. Completed(i, m, u, k)
  BY <1>1 DEF Completed
<1> QED BY <1>2 DEF OnTime

LEMMA OnTimeFinds ==
  ASSUME NEW j \in Jobs, NEW i \in Jobs, NEW n, NEW u \in SUBSET Ids,
         OnTime(j, n, u), j.pc = "find", i.pc \in {"starting", "claim"}, i.at = j.at,
         i.due \in SUBSET u, i.due = u \/ Cardinality(i.due) = BATCH_SIZE
           \/ (EnoughTicks /\ j.at >= ScheduledAt + LATE_REMINDER)
  PROVE  OnTime(i, n, u)
<1>1. CASE j.at < ScheduledAt
  BY <1>1 DEF OnTime
<1>2. ASSUME NEW k \in Nat, Completed(j, n, u, k) PROVE OnTime(i, n, u)
  <2>1. Left(u, k) /\ j.at < ScheduledAt + (k + 1) * Period /\ j.at \in Nat
    BY <1>2, ReminderBounds DEF Completed, Jobs
  <2>2. CASE i.due = u \/ Cardinality(i.due) = BATCH_SIZE
    <3>1. Left(u \ i.due, k + 1)
      BY <2>1, <2>2, LeftAfterBatch
    <3>2. Completed(i, n, u, k)
      BY <2>1, <3>1 DEF Completed
    <3> QED BY <3>2 DEF OnTime
  <2>3. CASE EnoughTicks /\ j.at >= ScheduledAt + LATE_REMINDER
    <3>1. u = {}
      BY <2>1, <2>3, LeftNothing
    <3>2. Completed(i, n, u, k)
      BY <2>1, <3>1 DEF Completed, Left
    <3> QED BY <3>2 DEF OnTime
  <2> QED BY <2>2, <2>3
<1> QED BY <1>1, <1>2 DEF OnTime

LEMMA OnTimeGoesOn ==
  ASSUME NEW j \in Jobs, NEW i \in Jobs, NEW n, NEW u \in SUBSET Ids, NEW w \in SUBSET u,
         OnTime(j, n, u), j.pc \notin {"idle", "find"}, i.pc \notin {"idle", "find"}, i.at = j.at,
         w \ i.due \subseteq u \ j.due
  PROVE  OnTime(i, n, w)
<1>1. CASE j.at < ScheduledAt
  BY <1>1 DEF OnTime
<1>2. ASSUME NEW k \in Nat, Completed(j, n, u, k) PROVE OnTime(i, n, w)
  <2>1. Left(u, k) /\ Left(u \ j.due, k + 1) /\ j.at < ScheduledAt + (k + 1) * Period
    BY <1>2 DEF Completed
  <2>2. Left(w, k)
    BY <2>1, LeftFewer
  <2>3. Left(w \ i.due, k + 1)
    <3>1. u \ j.due \in SUBSET Ids /\ w \ i.due \in SUBSET (u \ j.due) /\ k + 1 \in Nat
      OBVIOUS
    <3> QED BY <2>1, <3>1, LeftFewer
  <2>4. Completed(i, n, w, k)
    BY <2>1, <2>2, <2>3 DEF Completed
  <2> QED BY <2>4 DEF OnTime
<1> QED BY <1>1, <1>2 DEF OnTime

\* A tick that ended is followed by another within one Period.
LEMMA OnTimeEnds ==
  ASSUME NEW j \in Jobs, NEW i \in Jobs, NEW n, NEW m \in Nat, NEW u \in SUBSET Ids,
         OnTime(j, n, u), j.pc # "idle", i.pc = "idle", m =< j.at + Period, j.pc # "find", j.due = {}
  PROVE  OnTime(i, m, u)
<1>0. j.at \in Nat
  BY DEF Jobs
<1>1. CASE j.at < ScheduledAt
  <2>1. m < ScheduledAt + (0 + 1) * Period
    BY <1>0, <1>1, PeriodKind, ReminderBounds
  <2>2. Completed(i, m, u, 0)
    BY <2>1, LeftAtStart DEF Completed
  <2> QED BY <2>2 DEF OnTime
<1>2. ASSUME NEW k \in Nat, Completed(j, n, u, k) PROVE OnTime(i, m, u)
  <2>1. /\ Left(u, k) /\ j.at < ScheduledAt + (k + 1) * Period
        /\ j.pc # "find" => Left(u \ j.due, k + 1)
    BY <1>2 DEF Completed
  <2>2. Left(u, k + 1)
    <3>1. u \ j.due = u
      OBVIOUS
    <3> QED BY <2>1, <3>1
  <2>3. m < ScheduledAt + (k + 1 + 1) * Period
    <3>1. (k + 1 + 1) * Period = (k + 1) * Period + Period /\ (k + 1) * Period \in Nat
      BY PeriodKind
    <3> QED BY <1>0, <2>1, <3>1, PeriodKind, ReminderBounds
  <2>4. Completed(i, m, u, k + 1) /\ k + 1 \in Nat
    BY <2>2, <2>3 DEF Completed
  <2> QED BY <2>4 DEF OnTime
<1> QED BY <1>1, <1>2 DEF OnTime

LEMMA NextTickSoon ==
  ASSUME JobsInv, NEW s \in Servers
  PROVE  /\ NextTick(ticked[s], now) \in Nat /\ now =< NextTick(ticked[s], now)
         /\ NextTick(ticked[s], now) =< now + 1
         /\ job[s].pc # "idle" => NextTick(ticked[s], now) =< job[s].at + Period
                                  /\ NextTick(ticked[s], now) =< job[s].at + MaxTick + 1
<1>1. now \in Nat
  BY DEF JobsInv
<1>2. NextTick(ticked[s], now) \in {now, now + 1}
  BY DEF NextTick
<1>3. job[s].pc # "idle" => now =< job[s].at + MaxTick /\ job[s].at \in Nat
  BY DEF JobsInv, JobSound, Jobs
<1> QED BY <1>1, <1>2, <1>3, PeriodKind, ReminderBounds

LEMMA UnmarkedFewer ==
  ASSUME \A v \in Viewers : reminder'[v] # <<>> /\ ~reminder'[v][1].notified =>
           reminder[v] # <<>> /\ ~reminder[v][1].notified /\ reminder[v][1].id = reminder'[v][1].id
  PROVE  Unmarked' \subseteq Unmarked
BY DEF Unmarked

\* Servers that a step leaves alone are as timely as before.
LEMMA TimelyAsBefore ==
  ASSUME JobsInv, JobsInv', RowsInv, RowsInv', NEW D \in SUBSET Servers,
         now' = now, now >= ScheduledAt => Unmarked' \subseteq Unmarked,
         \A r \in Servers \ D : job'[r] = job[r] /\ ticked'[r] = ticked[r] /\ (r \in up => r \in up')
  PROVE  Behind' \subseteq Behind \cup D /\ Misses' \subseteq Misses \cup D
<1>1. Misses' \subseteq Misses \cup D
  BY DEF Misses
<1>2. ASSUME NEW r \in Servers \ D, r \notin Behind PROVE r \notin Behind'
  <2>1. r \in up /\ r \in up'
    BY <1>2 DEF Behind
  <2>2. CASE now < ScheduledAt
    BY <2>1, <2>2, ReminderBounds DEF Behind, JobsInv
  <2>3. CASE now >= ScheduledAt
    <3>1. OnTime(job[r], NextTick(ticked[r], now), Unmarked)
      BY <1>2, <2>3 DEF Behind
    <3>2. /\ Unmarked \in SUBSET Ids /\ Unmarked' \in SUBSET Unmarked
          /\ job[r] \in Jobs /\ NextTick(ticked[r], now) \in Nat
      BY <2>3, UnmarkedIds, NextTickSoon DEF JobsInv
    <3>3. OnTime(job[r], NextTick(ticked[r], now), Unmarked')
      BY <3>1, <3>2, OnTimeFewer
    <3> QED BY <2>1, <3>3 DEF Behind
  <2>4. now \in Int /\ ScheduledAt \in Int
    BY ReminderBounds DEF JobsInv
  <2> QED BY <2>2, <2>3, <2>4
<1>3. Behind' \subseteq Servers
  BY DEF Behind
<1> QED BY <1>1, <1>2, <1>3

LEMMA ServersCounted ==
  ASSUME NEW S \in SUBSET Servers, NEW T \in SUBSET Servers, NEW n \in Nat, Cardinality(S) =< n
  PROVE  /\ T \subseteq S => Cardinality(T) =< n
         /\ \A s \in Servers : T \subseteq S \cup {s} => Cardinality(T) =< n + 1
<1>1. IsFiniteSet(S) /\ IsFiniteSet(T) /\ Cardinality(S) \in Nat /\ Cardinality(T) \in Nat
  BY ReminderBounds, FS_Subset, FS_CardinalityType
<1>2. T \subseteq S => Cardinality(T) =< Cardinality(S)
  BY <1>1, FS_Subset
<1>3. ASSUME NEW s \in Servers, T \subseteq S \cup {s} PROVE Cardinality(T) =< Cardinality(S) + 1
  <2>1. IsFiniteSet(S \cup {s}) /\ Cardinality(S \cup {s}) =< Cardinality(S) + 1
    <3>1. IsFiniteSet(S \cup {s})
      BY <1>1, FS_AddElement
    <3>2. Cardinality(S \cup {s}) = IF s \in S THEN Cardinality(S) ELSE Cardinality(S) + 1
      BY <1>1, FS_AddElement
    <3> QED BY <1>1, <3>1, <3>2
  <2>2. Cardinality(T) =< Cardinality(S \cup {s}) /\ Cardinality(S \cup {s}) \in Nat
    BY <1>3, <2>1, FS_Subset, FS_CardinalityType
  <2> QED BY <1>1, <2>1, <2>2
<1> QED BY <1>1, <1>2, <1>3

LEMMA TimeKept ==
  ASSUME JobsInv, JobsInv', TimeInv, UNCHANGED faults,
         claimUntil' = 0 => claimUntil = 0 /\ Misses' \subseteq Misses,
         EnoughTicks => Behind' \subseteq Behind
  PROVE  TimeInv'
<1>1. /\ Behind \in SUBSET Servers /\ Behind' \in SUBSET Servers
      /\ Misses \in SUBSET Servers /\ Misses' \in SUBSET Servers /\ faults \in Nat
  BY DEF Behind, Misses, JobsInv
<1>2. claimUntil' = 0 => Cardinality(Misses') =< faults
  BY <1>1, ServersCounted DEF TimeInv
<1>3. EnoughTicks => Cardinality(Behind') =< faults
  BY <1>1, ServersCounted DEF TimeInv
<1> QED BY <1>2, <1>3 DEF TimeInv, EnoughTicks

LEMMA TimeAfterFault ==
  ASSUME JobsInv, TimeInv, faults' = faults + 1, claimUntil' = claimUntil, NEW s \in Servers,
         Misses' \subseteq Misses \cup {s}, Behind' \subseteq Behind \cup {s}
  PROVE  TimeInv'
<1>1. /\ Behind \in SUBSET Servers /\ Behind' \in SUBSET Servers
      /\ Misses \in SUBSET Servers /\ Misses' \in SUBSET Servers /\ faults \in Nat
  BY DEF Behind, Misses, JobsInv
<1>2. claimUntil' = 0 => Cardinality(Misses') =< faults + 1
  BY <1>1, ServersCounted DEF TimeInv
<1>3. EnoughTicks => Cardinality(Behind') =< faults + 1
  BY <1>1, ServersCounted DEF TimeInv
<1> QED BY <1>2, <1>3 DEF TimeInv, EnoughTicks

\* A step of one server that leaves this server as timely as it was.
LEMMA TimeWorked ==
  ASSUME JobsInv, JobsInv', RowsInv, RowsInv', TimeInv, NEW s \in Servers,
         UNCHANGED <<now, up, faults>>, Unmarked' \subseteq Unmarked,
         \A r \in Servers \ {s} : job'[r] = job[r] /\ ticked'[r] = ticked[r],
         claimUntil' = 0 =>
           /\ claimUntil = 0
           /\ now >= ScheduledAt /\ WillFind(job[s], NextTick(ticked[s], now))
                => WillFind(job'[s], NextTick(ticked'[s], now)),
         EnoughTicks /\ now >= ScheduledAt /\ OnTime(job[s], NextTick(ticked[s], now), Unmarked)
           => OnTime(job'[s], NextTick(ticked'[s], now), Unmarked')
  PROVE  TimeInv'
<1>1. Behind' \subseteq Behind \cup {s} /\ Misses' \subseteq Misses \cup {s}
  <2>2. {s} \in SUBSET Servers
    OBVIOUS
  <2>3. \A r \in Servers \ {s} : job'[r] = job[r] /\ ticked'[r] = ticked[r] /\ (r \in up => r \in up')
    OBVIOUS
  <2> QED BY <2>2, <2>3, TimelyAsBefore
<1>2. EnoughTicks /\ s \notin Behind => s \notin Behind'
  BY DEF Behind
<1>3. claimUntil' = 0 /\ s \notin Misses => s \notin Misses'
  BY DEF Misses
<1> QED BY <1>1, <1>2, <1>3, TimeKept

LEMMA TimeTick ==
  ASSUME JobsInv, JobsInv', RowsInv, RowsInv', TimeInv, NEW s \in Servers, Tick(s)
  PROVE  TimeInv'
<1> DEFINE n == NextTick(ticked[s], now)
           m == NextTick(ticked'[s], now)
<1>1. /\ ticked[s] # now /\ ticked' = [ticked EXCEPT ![s] = now]
      /\ UNCHANGED <<now, up, faults, claimUntil, reminder>>
      /\ \A r \in Servers \ {s} : job'[r] = job[r]
      /\ \/ job[s].pc = "idle" /\ job'[s].pc = "find" /\ job'[s].at = now
         \/ job[s].pc # "idle" /\ job' = job
  BY TickDoes
<1>2. n = now /\ n \in Nat /\ m \in Nat
  BY <1>1 DEF NextTick, JobsInv
<1>3. Unmarked' = Unmarked
  BY <1>1 DEF Unmarked
<1>4. job[s] \in Jobs /\ job'[s] \in Jobs
  BY DEF JobsInv
<1> HIDE DEF n, m
<1>5. WillFind(job[s], n) => WillFind(job'[s], m)
  BY <1>1, <1>2 DEF WillFind
<1>6. OnTime(job[s], n, Unmarked) => OnTime(job'[s], m, Unmarked)
  <2>1. CASE job[s].pc = "idle"
    BY <1>1, <1>2, <1>4, <2>1, OnTimeBegins
  <2>2. CASE job[s].pc # "idle" /\ job' = job
    BY <2>2 DEF OnTime, Completed
  <2> QED BY <1>1, <2>1, <2>2
<1>7. \A r \in Servers \ {s} : job'[r] = job[r] /\ ticked'[r] = ticked[r]
  BY <1>1 DEF JobsInv
<1> QED BY <1>1, <1>3, <1>5, <1>6, <1>7, TimeWorked DEF n, m

\* The steps of a tick, with what each needs from the others.
LEMMA TimeWorks ==
  ASSUME JobsInv, JobsInv', RowsInv, RowsInv', TimeInv, NEW s \in Servers, Works(s),
         Unmarked' \subseteq Unmarked,
         claimUntil' = 0 =>
           /\ claimUntil = 0
           /\ now >= ScheduledAt /\ WillFind(job[s], NextTick(ticked[s], now))
                => WillFind(job'[s], NextTick(ticked[s], now)),
         EnoughTicks /\ now >= ScheduledAt /\ OnTime(job[s], NextTick(ticked[s], now), Unmarked)
           => OnTime(job'[s], NextTick(ticked[s], now), Unmarked')
  PROVE  TimeInv'
<1>1. /\ UNCHANGED <<now, up, faults, ticked>>
      /\ \A r \in Servers \ {s} : job'[r] = job[r] /\ ticked'[r] = ticked[r]
  BY DEF Works
<1> QED BY <1>1, TimeWorked

LEMMA TimeFindDue ==
  ASSUME JobsInv, JobsInv', RowsInv, RowsInv', TimeInv, NEW s \in Servers, FindDue(s)
  PROVE  TimeInv'
<1> DEFINE n == NextTick(ticked[s], now)
<1>1. /\ Works(s) /\ job[s].pc = "find" /\ job'[s].at = job[s].at
      /\ job'[s].due \subseteq Due(job[s].at)
      /\ job'[s].due = Due(job[s].at) \/ Cardinality(job'[s].due) = BATCH_SIZE
      /\ job'[s].pc = IF job'[s].due = {} THEN "starting" ELSE "claim"
      /\ UNCHANGED <<reminder, claimUntil>>
  BY FindDueDoes
<1>2. Unmarked' = Unmarked /\ Unmarked \in SUBSET Ids /\ Due(job[s].at) \subseteq Unmarked
  BY <1>1, UnmarkedIds DEF Unmarked
<1>3. /\ job[s] \in Jobs /\ job'[s] \in Jobs /\ job[s].at \in Nat /\ faults \in 0..MaxFaults
      /\ n \in Nat
  BY NextTickSoon DEF JobsInv, Jobs
<1> HIDE DEF n
<1>4. WillFind(job[s], n) => WillFind(job'[s], n)
  BY <1>1 DEF WillFind
<1>5. ASSUME EnoughTicks, OnTime(job[s], n, Unmarked)
      PROVE  OnTime(job'[s], n, Unmarked)
  <2>1. CASE job[s].at < ScheduledAt
    BY <1>1, <2>1 DEF OnTime
  <2>2. CASE job[s].at >= ScheduledAt
    <3>1. job[s].at >= ScheduledAt + LATE_REMINDER \/ Due(job[s].at) = Unmarked
      BY <1>3, <2>2, ReminderBounds DEF Due, Unmarked
    <3>2. job'[s].due = Unmarked \/ Cardinality(job'[s].due) = BATCH_SIZE
            \/ (EnoughTicks /\ job[s].at >= ScheduledAt + LATE_REMINDER)
      BY <1>1, <1>5, <3>1
    <3>3. job'[s].due \in SUBSET Unmarked /\ job'[s].pc \in {"starting", "claim"}
      BY <1>1, <1>2
    <3> QED BY <1>1, <1>2, <1>3, <1>5, <3>2, <3>3, OnTimeFinds
  <2> QED BY <1>3, <2>1, <2>2, ReminderBounds
<1> QED BY <1>1, <1>2, <1>4, <1>5, TimeWorks DEF n

\* Reminders are tried one by one; what is left of the batch is still unmarked.
LEMMA TimeGoesOn ==
  ASSUME JobsInv, JobsInv', RowsInv, RowsInv', TimeInv, NEW s \in Servers, Works(s),
         Unmarked' \subseteq Unmarked, claimUntil' = claimUntil,
         job[s].pc \notin {"idle", "find"}, job'[s].pc \notin {"idle", "find"},
         job'[s].at = job[s].at,
         Unmarked' \ job'[s].due \subseteq Unmarked \ job[s].due
  PROVE  TimeInv'
<1> DEFINE n == NextTick(ticked[s], now)
<1>1. /\ job[s] \in Jobs /\ job'[s] \in Jobs /\ faults \in Nat
      /\ Unmarked \in SUBSET Ids /\ Unmarked' \in SUBSET Unmarked
  BY UnmarkedIds DEF JobsInv
<1> HIDE DEF n
<1>2. WillFind(job[s], n) => WillFind(job'[s], n)
  BY DEF WillFind
<1>3. OnTime(job[s], n, Unmarked) => OnTime(job'[s], n, Unmarked')
  BY <1>1, OnTimeGoesOn
<1> QED BY <1>2, <1>3, TimeWorks DEF n

\* A viewer whose row is marked waits no longer, nor does one that cannot be claimed.
LEMMA NotWaiting ==
  ASSUME RowsInv, ClaimsInv, NEW id,
         \/ \A v \in Viewers : ~Claimable(v, id)
         \/ \E s \in Servers : id \in Ids /\ Sends(s, id)
  PROVE  id \notin Unmarked
<1> SUFFICES ASSUME NEW v \in Viewers, reminder[v] # <<>>, ~reminder[v][1].notified,
                    reminder[v][1].id = id
             PROVE  FALSE
  BY DEF Unmarked
<1>1. reminder[v][1] \in [id : Ids, notified : BOOLEAN]
  BY RowOfViewer
<1>2. reminder[v][1] = [id |-> id, notified |-> FALSE]
  BY <1>1
<1>3. CASE \A w \in Viewers : ~Claimable(w, id)
  BY <1>2, <1>3 DEF Claimable
<1>4. CASE \E s \in Servers : id \in Ids /\ Sends(s, id)
  <2>1. id \in Taken
    BY <1>4 DEF Taken
  <2> QED BY <2>1 DEF ClaimsInv
<1> QED BY <1>3, <1>4

LEMMA TimePasses ==
  ASSUME JobsInv, JobsInv', RowsInv, RowsInv', TimeInv, NEW s \in Servers, NEW id, Passes(s, id),
         job[s].pc \in {"claim", "send"}, UNCHANGED <<reminder, claimUntil>>, id \notin Unmarked
  PROVE  TimeInv'
<1>1. Unmarked' = Unmarked
  BY DEF Unmarked
<1>2. Unmarked' \ job'[s].due \subseteq Unmarked \ job[s].due
  BY <1>1 DEF Passes
<1> QED BY <1>1, <1>2, TimeGoesOn DEF Passes

LEMMA TimeClaim ==
  ASSUME JobsInv, JobsInv', RowsInv, RowsInv', ClaimsInv, TimeInv, NEW s \in Servers, Claim(s)
  PROVE  TimeInv'
<1>1. ASSUME NEW id \in job[s].due, NEW v \in Viewers, Claims(s, id, v) PROVE TimeInv'
  <2>1. Claimable(v, id) /\ requests' = requests
        /\ reminder' = [reminder EXCEPT ![v][1].notified = TRUE]
    BY <1>1 DEF Claims, Works
  <2>2. reminder'[v][1].notified /\ \A w \in Viewers \ {v} : reminder'[w] = reminder[w]
    BY <2>1, MarkedRow
  <2>3. Unmarked' \subseteq Unmarked
    BY <2>2, UnmarkedFewer
  <2> QED BY <1>1, <2>3, TimeGoesOn DEF Claims
<1>2. ASSUME NEW id \in job[s].due, job[s].pc = "claim", Passes(s, id),
             \A v \in Viewers : ~Claimable(v, id), UNCHANGED <<reminder, claimUntil>>
      PROVE  TimeInv'
  BY <1>2, NotWaiting, TimePasses
<1> QED BY <1>1, <1>2, ClaimDoes

LEMMA TimeSend ==
  ASSUME JobsInv, JobsInv', RowsInv, RowsInv', ClaimsInv, TimeInv, NEW s \in Servers, Send(s)
  PROVE  TimeInv'
<1>1. job[s].pc = "send" /\ Passes(s, job[s].id) /\ UNCHANGED <<reminder, claimUntil>>
  BY SendDoes
<1>2. job[s].id \in Ids /\ Sends(s, job[s].id)
  BY <1>1 DEF JobsInv, JobSound, Jobs, Sends
<1> QED BY <1>1, <1>2, NotWaiting, TimePasses

LEMMA TimeRests ==
  ASSUME JobsInv, JobsInv', RowsInv, RowsInv', TimeInv, NEW s \in Servers, Rests(s),
         job[s].due = {}, job[s].pc # "find", UNCHANGED <<reminder, claimUntil>>,
         claimUntil = 0 => job[s].pc = "starting" /\ ~InWindow(job[s].at)
  PROVE  TimeInv'
<1> DEFINE n == NextTick(ticked[s], now)
<1>1. Unmarked' = Unmarked /\ Unmarked \in SUBSET Ids
  BY UnmarkedIds DEF Unmarked
<1>2. /\ job[s] \in Jobs /\ job'[s] \in Jobs /\ faults \in Nat /\ job[s].at \in Nat
      /\ job[s].pc # "idle" /\ job'[s].pc = "idle"
  BY NoJobFacts DEF JobsInv, Rests, Jobs
<1>3. n \in Nat /\ n =< job[s].at + Period /\ n =< job[s].at + MaxTick + 1
  BY <1>2, NextTickSoon
<1> HIDE DEF n
<1>4. claimUntil = 0 /\ WillFind(job[s], n) => WillFind(job'[s], n)
  <2> SUFFICES ASSUME claimUntil = 0, job[s].at =< ScheduledAt + MaxTick
               PROVE  n =< ScheduledAt + MaxTick
    BY <1>2 DEF WillFind
  <2>1. job[s].at < ScheduledAt
    BY <1>2, ReminderBounds DEF InWindow
  <2> QED BY <1>2, <1>3, <2>1, ReminderBounds
<1>5. OnTime(job[s], n, Unmarked) => OnTime(job'[s], n, Unmarked)
  BY <1>1, <1>2, <1>3, OnTimeEnds
<1> QED BY <1>1, <1>4, <1>5, TimeWorks DEF n, Rests

LEMMA TimeStarting ==
  ASSUME JobsInv, JobsInv', RowsInv, RowsInv', StartInv, TimeInv, NEW s \in Servers,
         FindStarting(s) \/ ClaimStart(s) \/ Announce(s)
  PROVE  TimeInv'
<1>1. Unmarked' = Unmarked /\ UNCHANGED reminder /\ job[s].due = {}
  BY StartingDoes DEF Unmarked
<1>2. CASE /\ GoesTo(s, "starting", "claimStart") /\ UNCHANGED claimUntil
  BY <1>1, <1>2, TimeGoesOn DEF GoesTo
<1>3. CASE /\ Rests(s) /\ job[s].pc = "starting" /\ ~InWindow(job[s].at) /\ UNCHANGED claimUntil
  BY <1>1, <1>3, TimeRests
<1>4. CASE /\ GoesTo(s, "claimStart", "announce")
           /\ claimUntil <= now /\ claimUntil' = now + ClaimTtl
  <2> DEFINE n == NextTick(ticked[s], now)
  <2>1. claimUntil' # 0
    BY <1>4, ReminderBounds DEF ClaimTtl, JobsInv
  <2>2. /\ job[s] \in Jobs /\ job'[s] \in Jobs /\ faults \in Nat /\ Unmarked \in SUBSET Ids
        /\ Unmarked \ job'[s].due \subseteq Unmarked \ job[s].due
    BY <1>1, <1>4, UnmarkedIds DEF JobsInv, GoesTo
  <2> HIDE DEF n
  <2>3. OnTime(job[s], n, Unmarked) => OnTime(job'[s], n, Unmarked)
    BY <1>4, <2>2, OnTimeGoesOn DEF GoesTo
  <2> QED BY <1>1, <1>4, <2>1, <2>3, TimeWorks DEF n, GoesTo
<1>5. CASE /\ Rests(s) /\ job[s].pc = "claimStart" /\ ~(claimUntil <= now) /\ UNCHANGED claimUntil
  <2>1. claimUntil # 0
    BY <1>5 DEF JobsInv
  <2> QED BY <1>1, <1>5, <2>1, TimeRests
<1>6. CASE /\ Rests(s) /\ job[s].pc = "announce" /\ UNCHANGED claimUntil
  <2>1. claimUntil # 0
    BY <1>6 DEF StartInv, Announcers
  <2> QED BY <1>1, <1>6, <2>1, TimeRests
<1> QED BY <1>2, <1>3, <1>4, <1>5, <1>6, StartingDoes

LEMMA TimeFault ==
  ASSUME JobsInv, JobsInv', RowsInv, RowsInv', TimeInv, NEW s \in Servers,
         FailTick(s) \/ CrashServer(s)
  PROVE  TimeInv'
<1>1. Fails(s) /\ (up' = up \/ up' = up \ {s})
  BY FaultDoes
<1>2. Unmarked' = Unmarked
  BY <1>1 DEF Unmarked, Fails
<1>3. {s} \in SUBSET Servers /\ now' = now
  BY <1>1 DEF Fails
<1>4. \A r \in Servers \ {s} : job'[r] = job[r] /\ ticked'[r] = ticked[r] /\ (r \in up => r \in up')
  BY <1>1 DEF Fails
<1>5. Behind' \subseteq Behind \cup {s} /\ Misses' \subseteq Misses \cup {s}
  BY <1>2, <1>3, <1>4, TimelyAsBefore
<1> QED BY <1>1, <1>5, TimeAfterFault DEF Fails

\* A server that is restarted may be timely again.
LEMMA TimeRestart ==
  ASSUME JobsInv, JobsInv', RowsInv, RowsInv', TimeInv, NEW s \in Servers, RestartServer(s)
  PROVE  TimeInv'
<1>1. /\ s \notin up /\ up' = up \cup {s} /\ ticked' = [ticked EXCEPT ![s] = now]
      /\ UNCHANGED <<now, job, reminder, faults, claimUntil>>
  BY DEF RestartServer
<1>2. Unmarked' = Unmarked
  BY <1>1 DEF Unmarked
<1>3. {s} \in SUBSET Servers
  OBVIOUS
<1>4. \A r \in Servers \ {s} : job'[r] = job[r] /\ ticked'[r] = ticked[r] /\ (r \in up => r \in up')
  BY <1>1 DEF JobsInv
<1>5. Behind' \subseteq Behind \cup {s} /\ Misses' \subseteq Misses \cup {s}
  BY <1>1, <1>2, <1>3, <1>4, TimelyAsBefore
<1>6. s \in Behind /\ s \in Misses
  BY <1>1 DEF Behind, Misses
<1> QED BY <1>1, <1>5, <1>6, TimeKept

LEMMA TimeAsked ==
  ASSUME JobsInv, JobsInv', RowsInv, RowsInv', TimeInv, NEW v \in Viewers,
         RemindMe(v) \/ CancelReminder(v)
  PROVE  TimeInv'
<1>1. UNCHANGED <<now, up, ticked, job, faults, claimUntil>>
  BY DEF RemindMe, CancelReminder
<1>2. now >= ScheduledAt => Unmarked' \subseteq Unmarked
  <2>1. CASE RemindMe(v)
    BY <2>1, ReminderBounds DEF RemindMe, JobsInv
  <2>2. CASE CancelReminder(v)
    BY <2>2, CancelDoes, UnmarkedFewer
  <2> QED BY <2>1, <2>2
<1>3. {} \in SUBSET Servers
  OBVIOUS
<1>4. \A r \in Servers \ {} : job'[r] = job[r] /\ ticked'[r] = ticked[r] /\ (r \in up => r \in up')
  BY <1>1
<1>5. Behind' \subseteq Behind \cup {} /\ Misses' \subseteq Misses \cup {}
  BY <1>1, <1>2, <1>3, <1>4, TimelyAsBefore
<1> QED BY <1>1, <1>5, TimeKept

\* The clock moves on when every server that runs has ticked.
LEMMA TimeAdvance ==
  ASSUME JobsInv, JobsInv', RowsInv, RowsInv', TimeInv, Advance
  PROVE  TimeInv'
<1>1. /\ now' = now + 1 /\ UNCHANGED <<up, ticked, job, faults, claimUntil, reminder>>
      /\ \A s \in up : ticked[s] = now
  BY DEF Advance
<1>2. Unmarked' = Unmarked /\ Unmarked \in SUBSET Ids
  BY <1>1, UnmarkedIds DEF Unmarked
<1>3. now \in Nat /\ now + 1 # now
  BY DEF JobsInv
<1>4. ASSUME NEW s \in up
      PROVE  NextTick(ticked[s], now) = now + 1 /\ NextTick(ticked[s], now') = now + 1
  BY <1>1, <1>3, <1>4 DEF NextTick
<1>5. ASSUME NEW s \in up, now' >= ScheduledAt, now < ScheduledAt
      PROVE  WillFind(job[s], now + 1) /\ OnTime(job[s], now + 1, Unmarked)
  <2>1. job[s].pc # "idle" => job[s].at < ScheduledAt /\ job[s].at \in Nat
    BY <1>3, <1>5, ReminderBounds DEF JobsInv, JobSound, Jobs
  <2>2. now + 1 = ScheduledAt
    BY <1>1, <1>3, <1>5, ReminderBounds
  <2>3. CASE job[s].pc # "idle"
    BY <2>1, <2>3, ReminderBounds DEF WillFind, OnTime
  <2>4. CASE job[s].pc = "idle"
    <3>1. now + 1 < ScheduledAt + (0 + 1) * Period
      BY <2>2, PeriodKind, ReminderBounds
    <3>2. Completed(job[s], now + 1, Unmarked, 0)
      BY <1>2, <2>4, <3>1, LeftAtStart DEF Completed
    <3>3. WillFind(job[s], now + 1)
      BY <2>2, <2>4, ReminderBounds DEF WillFind
    <3> QED BY <3>2, <3>3 DEF OnTime
  <2> QED BY <2>3, <2>4
<1>6. now >= ScheduledAt \/ now < ScheduledAt
  BY <1>3, ReminderBounds
<1>7. Behind' \subseteq Behind
  <2> SUFFICES ASSUME NEW s \in Servers, s \in up, now' >= ScheduledAt,
                      ~OnTime(job[s], NextTick(ticked[s], now'), Unmarked)
               PROVE  s \in Behind
    BY <1>1, <1>2 DEF Behind
  <2> QED BY <1>4, <1>5, <1>6 DEF Behind
<1>8. Misses' \subseteq Misses
  <2> SUFFICES ASSUME NEW s \in Servers, s \in up, now' >= ScheduledAt,
                      ~WillFind(job[s], NextTick(ticked[s], now'))
               PROVE  s \in Misses
    BY <1>1 DEF Misses
  <2> QED BY <1>4, <1>5, <1>6 DEF Misses
<1> QED BY <1>1, <1>7, <1>8, TimeKept

-----------------------------------------------------------------------------
(* All of it.                                                              *)

RemindersInv == JobsInv /\ RowsInv /\ ClaimsInv /\ StartInv /\ TimeInv

LEMMA RemindersInvInit == RemindersInit => RemindersInv
<1> SUFFICES ASSUME RemindersInit PROVE TimeInv
  BY RemindersInitInv, StartInitInv DEF RemindersInv
<1>1. now < ScheduledAt /\ ~(now >= ScheduledAt) /\ up = Servers /\ faults = 0
  BY ReminderBounds DEF RemindersInit
<1>2. Misses = {} /\ Behind = {}
  BY <1>1 DEF Misses, Behind
<1> QED BY <1>1, <1>2, FS_EmptySet DEF TimeInv

LEMMA RemindersInvNext ==
  ASSUME RemindersInv, [RemindersNext]_reminderVars
  PROVE  RemindersInv'
<1>1. JobsInv' /\ RowsInv'
  BY JobsInvNext, RowsInvNext DEF RemindersInv
<1>2. ClaimsInv' /\ StartInv'
  BY <1>1, ClaimsInvNext, StartInvNext DEF RemindersInv
<1>3. TimeInv'
  <2> USE <1>1 DEF RemindersInv
  <2>1. CASE UNCHANGED reminderVars
    BY <2>1 DEF reminderVars, TimeInv, Misses, Behind, Unmarked, EnoughTicks
  <2>2. ASSUME NEW v \in Viewers, RemindMe(v) \/ CancelReminder(v) PROVE TimeInv'
    BY <2>2, TimeAsked
  <2>3. ASSUME NEW s \in Servers, Tick(s) PROVE TimeInv'
    BY <2>3, TimeTick
  <2>4. ASSUME NEW s \in Servers, JobStep(s) PROVE TimeInv'
    BY <2>4, TimeFindDue, TimeClaim, TimeSend, TimeStarting DEF JobStep
  <2>5. ASSUME NEW s \in Servers, FailTick(s) \/ CrashServer(s) PROVE TimeInv'
    BY <2>5, TimeFault
  <2>6. ASSUME NEW s \in Servers, RestartServer(s) PROVE TimeInv'
    BY <2>6, TimeRestart
  <2>7. CASE Advance
    BY <2>7, TimeAdvance
  <2> QED BY <2>1, <2>2, <2>3, <2>4, <2>5, <2>6, <2>7 DEF RemindersNext
<1> QED BY <1>1, <1>2, <1>3 DEF RemindersInv

\* A tick keeps what it read and what it works on: types of the rows, the marks, the
\* claims and the ticks under way, whatever stops, fails or restarts.
THEOREM ReminderTypes == RemindersSpec => []RemindersTypeOK
<1>1. RemindersInv => RemindersTypeOK
  <2> SUFFICES ASSUME RemindersInv PROVE RemindersTypeOK
    OBVIOUS
  <2>1. sent \in [Ids -> Nat]
    BY DEF RemindersInv, ClaimsInv
  <2>2. \A v \in Viewers :
         reminder[v] \in {<<>>} \cup {<<r>> : r \in [id : Ids, notified : BOOLEAN]}
    BY DEF RemindersInv, RowsInv
  <2>3. \A s \in Servers :
         /\ job[s].pc \in JobPcs /\ job[s].due \subseteq Ids /\ job[s].at \in 0..MaxTime
         /\ IF job[s].pc = "send" THEN job[s].id \in job[s].due ELSE job[s].id = 0
    BY DEF RemindersInv, JobsInv, Jobs, JobSound
  <2> QED BY <2>1, <2>2, <2>3 DEF RemindersInv, JobsInv, ClaimsInv, StartInv, RemindersTypeOK
<1> QED BY <1>1, RemindersInvInit, RemindersInvNext, PTL DEF RemindersSpec

LEMMA OneSender ==
  ASSUME RemindersInv, NEW id \in Ids
  PROVE  sent[id] + Cardinality(Sending(id)) + Cardinality(lost \cap {id}) <= 1
<1>1. /\ sent[id] \in {0, 1}
      /\ id \in lost => sent[id] = 0
      /\ Sending(id) # {} => sent[id] = 0 /\ id \notin lost
  BY DEF RemindersInv, ClaimsInv, Sending, Sends
<1>2. Cardinality(Sending(id)) = IF Sending(id) = {} THEN 0 ELSE 1
  <2>1. CASE Sending(id) = {}
    BY <2>1, FS_EmptySet
  <2>2. CASE Sending(id) # {}
    <3>1. PICK s \in Servers : s \in Sending(id)
      BY <2>2 DEF Sending
    <3>2. Sending(id) = {s}
      BY <3>1 DEF RemindersInv, ClaimsInv, Sending, Sends
    <3> QED BY <2>2, <3>2, FS_Singleton
  <2> QED BY <2>1, <2>2
<1>3. Cardinality(lost \cap {id}) = IF id \in lost THEN 1 ELSE 0
  <2>1. lost \cap {id} = IF id \in lost THEN {id} ELSE {}
    OBVIOUS
  <2> QED BY <2>1, FS_Singleton, FS_EmptySet
<1> QED BY <1>1, <1>2, <1>3

\* More servers than failures: one of them did all it had to do in time.
LEMMA SomebodyLeft ==
  ASSUME RemindersInv, MaxFaults < Cardinality(Servers),
         NEW S \in SUBSET Servers, Cardinality(S) =< faults
  PROVE  \E s \in Servers : s \notin S
<1>1. faults =< MaxFaults /\ faults \in Nat /\ MaxFaults \in Nat
  BY ReminderBounds DEF RemindersInv, JobsInv
<1>2. Cardinality(Servers) \in Nat
  BY ReminderBounds, FS_CardinalityType
<1>3. S # Servers
  BY <1>1, <1>2
<1> QED BY <1>3

LEMMA AllReminded == RemindersInv => NobodyForgotten
<1> SUFFICES ASSUME RemindersInv, now >= ScheduledAt + LATE_REMINDER + MaxTick, EnoughTicks
             PROVE  \A v \in Viewers : reminder[v] # <<>> => reminder[v][1].notified
  BY DEF NobodyForgotten
<1>1. now \in Nat /\ now >= ScheduledAt + LATE_REMINDER /\ now >= ScheduledAt
  BY ReminderBounds DEF RemindersInv, JobsInv
<1>2. PICK s \in Servers : s \notin Behind
  <2>1. Behind \in SUBSET Servers /\ Cardinality(Behind) =< faults
    BY DEF RemindersInv, TimeInv, Behind
  <2> QED BY <2>1, SomebodyLeft DEF EnoughTicks
<1> DEFINE n == NextTick(ticked[s], now)
<1>3. OnTime(job[s], n, Unmarked)
  BY <1>1, <1>2 DEF Behind
<1>4. n \in Nat /\ now =< n /\ Unmarked \in SUBSET Ids
  BY NextTickSoon, UnmarkedIds DEF RemindersInv
<1>5. job[s].pc # "idle" => job[s].at \in Nat /\ job[s].at >= ScheduledAt + LATE_REMINDER
  BY <1>1, ReminderBounds DEF RemindersInv, JobsInv, JobSound, Jobs
<1> HIDE DEF n
<1>6. PICK k \in Nat : Completed(job[s], n, Unmarked, k)
  BY <1>3, <1>5, ReminderBounds DEF OnTime
<1>7. Unmarked = {}
  <2>1. CASE job[s].pc = "idle"
    <3>1. n >= ScheduledAt + LATE_REMINDER
      BY <1>1, <1>4, ReminderBounds
    <3> QED BY <1>4, <1>6, <2>1, <3>1, LeftNothing DEF Completed
  <2>2. CASE job[s].pc # "idle"
    BY <1>4, <1>5, <1>6, <2>2, LeftNothing DEF Completed
  <2> QED BY <2>1, <2>2
<1> QED BY <1>7 DEF Unmarked

\* However many instances tick and fail, sendDueReminders sends a reminder once at
\* most; the mark in its row means that it was sent, is being sent or died with its
\* instance; and long after the start nobody who asked is left unmarked, if there
\* are more instances than failures and enough ticks for the batches.
THEOREM RemindersGoOutOnce == RemindersSpec => []RemindedOnce
<1>1. RemindersInv => RemindedOnce
  <2> SUFFICES ASSUME RemindersInv PROVE RemindedOnce
    OBVIOUS
  <2>1. AtMostOnce
    BY OneSender DEF AtMostOnce
  <2>2. MarkedIsSent
    <3> SUFFICES ASSUME NEW v \in Viewers, reminder[v] # <<>>, NEW id, id = reminder[v][1].id
                 PROVE  reminder[v][1].notified <=> (sent[id] = 1 \/ Sending(id) # {} \/ id \in lost)
      BY DEF MarkedIsSent
    <3>1. id \in Ids
      BY RowOfViewer DEF RemindersInv
    <3>2. id \in Taken <=> (sent[id] = 1 \/ Sending(id) # {} \/ id \in lost)
      BY <3>1 DEF Taken, Sending, Sends
    <3> QED BY <3>2 DEF RemindersInv, ClaimsInv
  <2> QED BY <2>1, <2>2, AllReminded DEF RemindedOnce
<1> QED BY <1>1, RemindersInvInit, RemindersInvNext, PTL DEF RemindersSpec

LEMMA OneAnnouncer == RemindersInv => starts + lostStart + Cardinality(Announcers) <= 1
<1> SUFFICES ASSUME RemindersInv PROVE starts + lostStart + Cardinality(Announcers) <= 1
  OBVIOUS
<1>1. \/ Announcers = {} /\ starts + lostStart \in {0, 1}
      \/ starts + lostStart = 0 /\ \E s \in Servers : Announcers = {s}
  BY DEF RemindersInv, StartInv
<1>2. CASE Announcers = {}
  BY <1>1, <1>2, FS_EmptySet, FS_Singleton
<1>3. CASE starts + lostStart = 0 /\ \E s \in Servers : Announcers = {s}
  <2>1. Cardinality(Announcers) = 1
    BY <1>3, FS_Singleton
  <2> QED BY <1>3, <2>1
<1> QED BY <1>1, <1>2, <1>3

LEMMA StartIsAnnounced ==
  ASSUME RemindersInv, now >= ScheduledAt + STARTING_WINDOW + MaxTick,
         MaxFaults < Cardinality(Servers)
  PROVE  starts + lostStart = 1
<1>0. /\ now \in Nat /\ now >= ScheduledAt
      /\ \A s \in Servers : job[s].pc # "idle" => job[s].at \in Nat /\ now =< job[s].at + MaxTick
  BY ReminderBounds DEF RemindersInv, JobsInv, JobSound, Jobs
<1>1. claimUntil # 0
  <2> SUFFICES ASSUME claimUntil = 0 PROVE FALSE
    OBVIOUS
  <2>1. PICK s \in Servers : s \notin Misses
    <3>1. Misses \in SUBSET Servers /\ Cardinality(Misses) =< faults
      BY DEF RemindersInv, TimeInv, Misses
    <3> QED BY <3>1, SomebodyLeft
  <2>2. WillFind(job[s], NextTick(ticked[s], now))
    BY <1>0, <2>1 DEF Misses
  <2>3. NextTick(ticked[s], now) \in Nat /\ now =< NextTick(ticked[s], now)
    BY NextTickSoon DEF RemindersInv
  <2> QED BY <1>0, <2>2, <2>3, ReminderBounds DEF WillFind
<1>2. Announcers = {}
  <2> SUFFICES ASSUME NEW s \in Servers, job[s].pc = "announce" PROVE FALSE
    BY DEF Announcers
  <2>1. InWindow(job[s].at)
    BY DEF RemindersInv, StartInv
  <2> QED BY <1>0, <2>1, ReminderBounds DEF InWindow
<1> QED BY <1>1, <1>2 DEF RemindersInv, StartInv

\* The start of a room is announced once at most over all instances, since the key
\* claimed for it outlives every tick that finds the room; and it is announced,
\* unless the instance that claimed it died, if there are more instances than
\* failures.
THEOREM StartGoesOutOnce == RemindersSpec => []StartAnnouncedOnce
<1>1. RemindersInv => StartAnnouncedOnce
  BY OneAnnouncer, StartIsAnnounced DEF StartAnnouncedOnce, Announcers
<1> QED BY <1>1, RemindersInvInit, RemindersInvNext, PTL DEF RemindersSpec

=============================================================================
