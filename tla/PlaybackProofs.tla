---------------------------- MODULE PlaybackProofs ----------------------------
(***************************************************************************)
(* Proofs about the playback of a room, its queue of commands and the      *)
(* viewers it waits for.                                                   *)
(*                                                                         *)
(* PlayInv says of each instance what its running task is and knows by the *)
(* step it is at.  A step of PlaybackQueue is an arrival (Arrives), a step *)
(* of the running task (WorkerSteps) or a fault; each is a step of         *)
(* PlaybackControl or changes nothing there.  The steps of RoomBuffering   *)
(* are those, besides the mark, a fault and two more kinds of arrival, so  *)
(* the same lemmas prove the order of commands of a room that waits.       *)
(***************************************************************************)
EXTENDS RoomBuffering, SequenceTheorems, TLAPS

-----------------------------------------------------------------------------
(* Sequences.                                                              *)

LEMMA Appended ==
  ASSUME NEW T, NEW s \in Seq(T), NEW c \in T
  PROVE  /\ s \o <<c>> = Append(s, c)
         /\ s \o <<>> = s
         /\ Append(s, c) \in Seq(T) /\ Append(s, c) # <<>>
         /\ Front(Append(s, c)) = s
         /\ Last(Append(s, c)) = c
<1>1. Append(s, c) = s \o <<c>> /\ s \o <<>> = s
  BY AppendIsConcat, ConcatEmptySeq
<1>2. /\ Append(s, c) \in Seq(T) /\ Append(s, c) # <<>> /\ Len(Append(s, c)) = Len(s) + 1
      /\ \A k \in 1..Len(s) : Append(s, c)[k] = s[k]
      /\ Append(s, c)[Len(s) + 1] = c
  BY AppendProperties
<1>3. Len(s) \in Nat
  BY LenProperties
<1>4. Last(Append(s, c)) = c
  BY <1>2 DEF Last
<1>5. Front(Append(s, c)) = s
  <2>1. Front(Append(s, c)) = SubSeq(Append(s, c), 1, Len(s))
    BY <1>2, <1>3 DEF Front
  <2>2. \A k \in 1..Len(s) : Append(s, c)[k] \in T
    BY <1>2, ElementOfSeq
  <2>3. /\ SubSeq(Append(s, c), 1, Len(s)) \in Seq(T)
        /\ Len(SubSeq(Append(s, c), 1, Len(s))) = Len(s)
        /\ \A k \in 1..Len(s) : SubSeq(Append(s, c), 1, Len(s))[k] = s[k]
    BY <1>2, <1>3, <2>2, SubSeqProperties
  <2> QED BY <2>1, <2>3, SeqEqual
<1> QED BY <1>1, <1>2, <1>4, <1>5

LEMMA TailOfConcat ==
  ASSUME NEW T, NEW s \in Seq(T), s # <<>>, NEW t \in Seq(T)
  PROVE  /\ s \o t # <<>>
         /\ Head(s \o t) = Head(s)
         /\ Tail(s \o t) = Tail(s) \o t
         /\ Tail(s) \in Seq(T)
  OBVIOUS

LEMMA ThreeParts ==
  ASSUME NEW T, NEW s \in Seq(T), NEW c \in T, NEW d \in T
  PROVE  /\ Append(s, c) \o <<d>> = s \o <<c, d>>
         /\ Append(Append(s, c), d) = s \o <<c, d>>
  OBVIOUS

LEMMA Whole ==
  ASSUME NEW T, NEW s \in Seq(T)
  PROVE  /\ SubSeq(s, 1, Len(s)) = s
         /\ SubSeq(s, Len(s) + 1, Len(s)) = <<>>
         /\ s # <<>> => SubSeq(s, 2, Len(s)) = Tail(s)
  OBVIOUS

-----------------------------------------------------------------------------
(* Types, and where the task of an instance can be.                        *)

\* What a running task is and knows, by the step it is at.
Stage(q, w) ==
    /\ w.pc # "idle" => q # <<>>
    /\ w.pc \in {"resolve", "resolveRow"} => Head(q).type \in {"SEEK", "SWITCH"}
    /\ w.pc \in {"write", "publish", "take"} => Head(q).type \in EpisodeTypes
    /\ w.pc \in {"write", "publish", "take", "commit"} /\ Head(q).type = "NEXT"
         => w.mode = "playing"
    /\ w.pc = "commit" /\ Head(q).type \in {"PLAY", "PAUSE"} => w.mode = ModeOf(Head(q).type)
    /\ w.pc = "commit" => Head(q).by = "person"

Workers == [pc : Pcs, mode : Modes]
Rests == [type : {"PLAY", "PAUSE"}, time : Times, publish : BOOLEAN]
Caches == [time : Times, mode : Modes, by : {"person", "server"}]

Typed ==
    /\ sent \in Times /\ media \in Times /\ marked \in BOOLEAN /\ faults \in 0..MaxFaults
    /\ cache \in {NONE} \cup Caches
    /\ db \in [time : Times, mode : Modes, episode : Times]
    /\ pending \in [Instances -> Times]
    /\ rest \in [Instances -> {NONE} \cup Rests]
    /\ queue \in [Instances -> Seq(Task)]
    /\ worker \in [Instances -> Workers]

PlayInv == Typed /\ \A i \in Instances : Stage(queue[i], worker[i])

LEMMA PlayTypes == PlayInv => TypeOK
BY DEF PlayInv, Typed, TypeOK, Stage, Workers, Rests, Caches, Running

LEMMA TimeKinds ==
  /\ 0 \in Times
  /\ \A n \in Times : n < MaxCommands => n + 1 \in Times
  /\ \A n \in 0..MaxFaults : n < MaxFaults => n + 1 \in 0..MaxFaults
BY BoundsAssumption DEF Times

LEMMA TaskKinds ==
  /\ \A type \in {"PLAY", "PAUSE", "SEEK", "SWITCH", "NEXT"}, time \in Times :
       Command(type, time) \in Task
  /\ \A time, e \in Times : [Command("NEXT", time) EXCEPT !.from = e] \in Task
  /\ \A type \in {"PLAY", "PAUSE"}, time \in Times : ServerCommand(type, time) \in Task
  /\ \A t \in Task :
       /\ t.type \in {"PLAY", "PAUSE", "SEEK", "SWITCH", "NEXT"}
       /\ t.time \in Times
       /\ t.by \in {"person", "server"}
       /\ t.by = "server" => t.type \in {"PLAY", "PAUSE"}
<1>1. 0 \in Times
  BY TimeKinds
<1>2. \A type \in {"PLAY", "PAUSE", "SEEK", "SWITCH", "NEXT"}, time \in Times :
        Command(type, time) \in Task
  BY <1>1 DEF Command, Task
<1>3. \A time, e \in Times : [Command("NEXT", time) EXCEPT !.from = e] \in Task
  BY DEF Command, Task
<1>4. \A type \in {"PLAY", "PAUSE"}, time \in Times : ServerCommand(type, time) \in Task
  BY DEF ServerCommand, Command, Task
<1>5. \A t \in Task :
       /\ t.type \in {"PLAY", "PAUSE", "SEEK", "SWITCH", "NEXT"}
       /\ t.time \in Times
       /\ t.by \in {"person", "server"}
       /\ t.by = "server" => t.type \in {"PLAY", "PAUSE"}
  BY <1>1 DEF Task
<1> QED BY <1>2, <1>3, <1>4, <1>5

LEMMA Idles == Idle \in Workers /\ Idle.pc = "idle" /\ \A q : Stage(q, Idle)
BY DEF Idle, Workers, Pcs, Modes, Stage

LEMMA HeadOfQueue ==
  ASSUME PlayInv, NEW i \in Instances, queue[i] # <<>>
  PROVE  /\ queue[i] \in Seq(Task) /\ Running(i) \in Task /\ Tail(queue[i]) \in Seq(Task)
         /\ worker[i] \in Workers
         /\ Stage(queue[i], worker[i])
<1>1. queue[i] \in Seq(Task) /\ worker[i] \in Workers
  BY DEF PlayInv, Typed
<1> QED BY <1>1, HeadTailProperties DEF PlayInv, Running

\* A step of instance i is the business of no other instance.
Only(i) == \A j \in Instances \ {i} :
    /\ queue'[j] = queue[j] /\ worker'[j] = worker[j]
    /\ pending'[j] = pending[j] /\ rest'[j] = rest[j]

\* A step of one instance keeps the invariant if the instance is left sound.
LEMMA OneInstanceMoves ==
  ASSUME PlayInv, Typed', NEW i \in Instances, Only(i), Stage(queue'[i], worker'[i])
  PROVE  PlayInv'
BY DEF PlayInv, Only

\* What joins a queue leaves the running task what it is.
LEMMA JoinsQueue ==
  ASSUME NEW q \in Seq(Task), NEW w, Stage(q, w), NEW c \in Task, NEW d \in Task
  PROVE  /\ Append(q, c) \in Seq(Task) /\ q \o <<c, d>> \in Seq(Task)
         /\ Stage(Append(q, c), w)
         /\ Stage(q \o <<c, d>>, w)
<1>1. /\ Append(q, c) \in Seq(Task) /\ Append(q, c) # <<>>
      /\ q # <<>> => Head(Append(q, c)) = Head(q)
  BY Appended, HeadTailAppend
<1>2. q \o <<c, d>> = Append(Append(q, c), d)
  BY ThreeParts
<1>3. /\ q \o <<c, d>> \in Seq(Task) /\ q \o <<c, d>> # <<>>
      /\ q # <<>> => Head(q \o <<c, d>>) = Head(q)
  BY <1>1, <1>2, Appended, HeadTailAppend
<1> QED BY <1>1, <1>3 DEF Stage

LEMMA Flushes ==
  ASSUME PlayInv, NEW i \in Instances, NEW c \in Task, FlushAndEnqueue(i, c)
  PROVE  /\ queue' \in [Instances -> Seq(Task)] /\ pending' \in [Instances -> Times]
         /\ queue'[i] = IF pending[i] = 0 THEN Append(queue[i], c)
                        ELSE queue[i] \o <<Command("SEEK", pending[i]), c>>
         /\ pending'[i] = 0
         /\ \A j \in Instances \ {i} : queue'[j] = queue[j] /\ pending'[j] = pending[j]
         /\ Stage(queue'[i], worker[i])
<1>1. /\ queue[i] \in Seq(Task) /\ pending[i] \in Times /\ Stage(queue[i], worker[i])
      /\ queue \in [Instances -> Seq(Task)] /\ pending \in [Instances -> Times]
  BY DEF PlayInv, Typed
<1>2. Command("SEEK", pending[i]) \in Task
  BY <1>1, TaskKinds
<1>3. DEFINE q == IF pending[i] = 0 THEN Append(queue[i], c)
                  ELSE queue[i] \o <<Command("SEEK", pending[i]), c>>
<1>4. q \in Seq(Task) /\ Stage(q, worker[i])
  BY <1>1, <1>2, JoinsQueue
<1>5. queue' = [queue EXCEPT ![i] = q] /\ pending' = [pending EXCEPT ![i] = 0]
  BY DEF FlushAndEnqueue
<1> HIDE DEF q
<1>6. /\ queue' \in [Instances -> Seq(Task)] /\ pending' \in [Instances -> Times]
      /\ queue'[i] = q /\ pending'[i] = 0
      /\ \A j \in Instances \ {i} : queue'[j] = queue[j] /\ pending'[j] = pending[j]
  BY <1>1, <1>4, <1>5, TimeKinds
<1> QED BY <1>4, <1>6 DEF q

LEMMA Finishes ==
  ASSUME PlayInv, NEW i \in Instances, queue[i] # <<>>, Finish(i)
  PROVE  /\ queue' \in [Instances -> Seq(Task)] /\ worker' \in [Instances -> Workers]
         /\ queue'[i] = Tail(queue[i]) /\ worker'[i] = Idle
         /\ \A j \in Instances \ {i} : queue'[j] = queue[j] /\ worker'[j] = worker[j]
         /\ Stage(queue'[i], worker'[i])
<1>1. /\ Tail(queue[i]) \in Seq(Task) /\ queue \in [Instances -> Seq(Task)]
      /\ worker \in [Instances -> Workers]
  BY HeadOfQueue DEF PlayInv, Typed
<1> QED BY <1>1, Idles DEF Finish

LEMMA Goes ==
  ASSUME PlayInv, NEW i \in Instances, NEW pc \in Pcs, NEW mode \in Modes, Goto(i, pc, mode)
  PROVE  /\ worker' \in [Instances -> Workers]
         /\ worker'[i] = [pc |-> pc, mode |-> mode]
         /\ worker'[i].pc = pc /\ worker'[i].mode = mode
         /\ \A j \in Instances \ {i} : worker'[j] = worker[j]
BY DEF Goto, PlayInv, Typed, Workers

\* Commands of controllers, timers and requests.
LEMMA ControllerInv ==
  ASSUME PlayInv, NEW i \in Instances, Controller(i) \/ SeekTimer(i) \/ Request(i)
  PROVE  PlayInv' /\ Only(i) /\ worker' = worker
<1>1. /\ queue[i] \in Seq(Task) /\ pending[i] \in Times /\ Stage(queue[i], worker[i])
      /\ Typed
  BY DEF PlayInv, Typed
<1>2. ASSUME NEW input, Given(input)
      PROVE  sent' \in Times
  BY <1>1, <1>2, TimeKinds DEF Given, Typed
<1>3. ASSUME NEW c \in Task, queue' = [queue EXCEPT ![i] = Append(@, c)]
      PROVE  /\ queue' \in [Instances -> Seq(Task)]
             /\ \A j \in Instances \ {i} : queue'[j] = queue[j]
             /\ Stage(queue'[i], worker[i])
  <2>1. Append(queue[i], c) \in Seq(Task) /\ Stage(Append(queue[i], c), worker[i])
    BY <1>1, JoinsQueue
  <2> QED BY <1>1, <1>3, <2>1 DEF Typed
<1>4. CASE Seek(i)
  <2>1. sent' \in Times
    BY <1>4, <1>2 DEF Seek
  <2>2. Typed' /\ Only(i) /\ Stage(queue'[i], worker'[i])
    BY <1>1, <1>4, <2>1 DEF Seek, Typed, Only, sharedVars, Given
  <2> QED BY <1>4, <2>2, OneInstanceMoves DEF Seek
<1>5. CASE SeekTimer(i)
  <2>1. Command("SEEK", pending[i]) \in Task
    BY <1>1, TaskKinds
  <2>2. /\ queue' \in [Instances -> Seq(Task)]
        /\ \A j \in Instances \ {i} : queue'[j] = queue[j]
        /\ Stage(queue'[i], worker[i])
    BY <1>5, <2>1, <1>3 DEF SeekTimer
  <2>3. Typed' /\ Only(i) /\ Stage(queue'[i], worker'[i])
    BY <1>1, <1>5, <2>2, TimeKinds DEF SeekTimer, Typed, Only, sharedVars
  <2> QED BY <1>5, <2>3, OneInstanceMoves DEF SeekTimer
<1>6. ASSUME NEW type \in {"PLAY", "PAUSE"}, Press(i, type)
      PROVE  PlayInv' /\ Only(i) /\ worker' = worker
  <2>1. sent' \in Times
    BY <1>6, <1>2 DEF Press
  <2>2. Command(type, sent') \in Task
    BY <2>1, TaskKinds
  <2>3. /\ queue' \in [Instances -> Seq(Task)] /\ pending' \in [Instances -> Times]
        /\ \A j \in Instances \ {i} : queue'[j] = queue[j] /\ pending'[j] = pending[j]
        /\ Stage(queue'[i], worker[i])
    BY <1>6, <2>2, Flushes DEF Press
  <2>4. Typed' /\ Only(i) /\ Stage(queue'[i], worker'[i])
    BY <1>1, <1>6, <2>1, <2>3 DEF Press, Typed, Only, sharedVars, Given
  <2> QED BY <1>6, <2>4, OneInstanceMoves DEF Press
<1>7. CASE ChangeEpisode(i) \/ EndEpisode(i)
  <2>1. sent' \in Times
    BY <1>7, <1>2 DEF ChangeEpisode, EndEpisode
  <2>2. PICK c \in Task : queue' = [queue EXCEPT ![i] = Append(@, c)]
    <3>1. CASE ChangeEpisode(i)
      <4>1. Command("SWITCH", sent') \in Task
        BY <2>1, TaskKinds
      <4> QED BY <3>1, <4>1 DEF ChangeEpisode
    <3>2. CASE EndEpisode(i)
      <4>1. PICK e \in {0, media} :
                queue' = [queue EXCEPT ![i] = Append(@, [Command("NEXT", sent') EXCEPT !.from = e])]
        BY <3>2 DEF EndEpisode
      <4>2. e \in Times
        BY <1>1, TimeKinds DEF Typed
      <4>3. [Command("NEXT", sent') EXCEPT !.from = e] \in Task
        BY <2>1, <4>2, TaskKinds
      <4> QED BY <4>1, <4>3
    <3> QED BY <1>7, <3>1, <3>2
  <2>3. /\ queue' \in [Instances -> Seq(Task)]
        /\ \A j \in Instances \ {i} : queue'[j] = queue[j]
        /\ Stage(queue'[i], worker[i])
    BY <1>3, <2>2
  <2>4. UNCHANGED <<pending, worker, rest, sharedVars, faults>>
    BY <1>7 DEF ChangeEpisode, EndEpisode
  <2>5. Typed' /\ Only(i) /\ Stage(queue'[i], worker'[i])
    BY <1>1, <2>1, <2>3, <2>4 DEF Typed, Only, sharedVars
  <2> QED BY <2>4, <2>5, OneInstanceMoves
<1>8. ASSUME NEW type \in {"PLAY", "PAUSE"}, NEW changes \in BOOLEAN, RestWrite(i, type, changes)
      PROVE  PlayInv' /\ Only(i) /\ worker' = worker
  <2>1. sent' \in Times
    BY <1>8, <1>2 DEF RestWrite
  <2>2. db' \in [time : Times, mode : Modes, episode : Times]
    BY <1>1, <1>8, <2>1 DEF RestWrite, Typed, Modes
  <2>3. [type |-> type, time |-> sent', publish |-> changes] \in Rests
    BY <2>1 DEF Rests
  <2>4. /\ rest' \in [Instances -> {NONE} \cup Rests]
        /\ \A j \in Instances \ {i} : rest'[j] = rest[j]
    BY <1>1, <1>8, <2>3 DEF RestWrite, Typed
  <2>5. Typed' /\ Only(i) /\ Stage(queue'[i], worker'[i])
    BY <1>1, <1>8, <2>1, <2>2, <2>4 DEF RestWrite, Typed, Only
  <2> QED BY <1>8, <2>5, OneInstanceMoves DEF RestWrite
<1>9. rest[i] # NONE => rest[i] \in Rests
  BY <1>1 DEF Typed
<1>10. CASE RestPublish(i)
  <2>1. rest[i] \in Rests
    BY <1>9, <1>10 DEF RestPublish
  <2>2. [rest[i] EXCEPT !.publish = FALSE] \in Rests /\ rest[i].time \in Times
    BY <2>1 DEF Rests
  <2>3. /\ rest' \in [Instances -> {NONE} \cup Rests]
        /\ \A j \in Instances \ {i} : rest'[j] = rest[j]
    BY <1>1, <1>10, <2>2 DEF RestPublish, Typed
  <2>4. Typed' /\ Only(i) /\ Stage(queue'[i], worker'[i])
    BY <1>1, <1>10, <2>2, <2>3 DEF RestPublish, Typed, Only
  <2> QED BY <1>10, <2>4, OneInstanceMoves DEF RestPublish
<1>11. CASE RestApply(i)
  <2>1. rest[i] \in Rests
    BY <1>9, <1>11 DEF RestApply
  <2>2. Command(rest[i].type, rest[i].time) \in Task
    BY <2>1, TaskKinds DEF Rests
  <2>3. /\ queue' \in [Instances -> Seq(Task)] /\ pending' \in [Instances -> Times]
        /\ \A j \in Instances \ {i} : queue'[j] = queue[j] /\ pending'[j] = pending[j]
        /\ Stage(queue'[i], worker[i])
    BY <1>11, <2>2, Flushes DEF RestApply
  <2>4. /\ rest' \in [Instances -> {NONE} \cup Rests]
        /\ \A j \in Instances \ {i} : rest'[j] = rest[j]
    BY <1>1, <1>11 DEF RestApply, Typed
  <2>5. Typed' /\ Only(i) /\ Stage(queue'[i], worker'[i])
    BY <1>1, <1>11, <2>3, <2>4 DEF RestApply, Typed, Only, sharedVars
  <2> QED BY <1>11, <2>5, OneInstanceMoves DEF RestApply
<1> QED BY <1>4, <1>5, <1>6, <1>7, <1>8, <1>10, <1>11 DEF Controller, Request

\* The task at the head of a queue.
LEMMA WorkerInv ==
  ASSUME PlayInv, NEW i \in Instances, Worker(i)
  PROVE  PlayInv' /\ Only(i) /\ queue[i] # <<>>
<1>1. queue[i] # <<>> /\ Typed
  BY DEF Worker, Take, Resolve, ResolveRow, Commit, Persist, LoadMedia, NothingNext,
         WriteEpisode, PublishEpisode, At, PlayInv
<1>2. /\ queue[i] \in Seq(Task) /\ Running(i) \in Task /\ Running(i) = Head(queue[i])
      /\ worker[i] \in Workers /\ Stage(queue[i], worker[i])
  BY <1>1, HeadOfQueue DEF Running
<1>3. /\ Running(i).type \in {"PLAY", "PAUSE", "SEEK", "SWITCH", "NEXT"}
      /\ Running(i).time \in Times /\ Running(i).by \in {"person", "server"}
      /\ Running(i).by = "server" => Running(i).type \in {"PLAY", "PAUSE"}
  BY <1>2, TaskKinds
<1>4. worker[i].mode \in Modes /\ ModeOf(Running(i).type) \in Modes
  BY <1>2 DEF Workers, ModeOf, Modes
<1>5. {"resolve", "resolveRow", "write", "publish", "take", "commit", "persist"} \subseteq Pcs
      /\ {"playing", "paused"} \subseteq Modes
  BY DEF Pcs, Modes
<1>6. ASSUME NEW pc \in Pcs, NEW mode \in Modes, Goto(i, pc, mode), pc # "idle",
             queue' = queue, pending' = pending, rest' = rest, Typed \/ worker' = worker,
             sent' = sent, media' \in Times, marked' \in BOOLEAN, faults' = faults,
             cache' \in {NONE} \cup Caches,
             db' \in [time : Times, mode : Modes, episode : Times],
             pc \in {"resolve", "resolveRow"} => Running(i).type \in {"SEEK", "SWITCH"},
             pc \in {"write", "publish", "take"} => Running(i).type \in EpisodeTypes,
             pc \in {"write", "publish", "take", "commit"} /\ Running(i).type = "NEXT"
               => mode = "playing",
             pc = "commit" /\ Running(i).type \in {"PLAY", "PAUSE"}
               => mode = ModeOf(Running(i).type),
             pc = "commit" => Running(i).by = "person"
      PROVE  PlayInv' /\ Only(i)
  <2>1. /\ worker' \in [Instances -> Workers]
        /\ worker'[i].pc = pc /\ worker'[i].mode = mode
        /\ \A j \in Instances \ {i} : worker'[j] = worker[j]
    BY <1>6, Goes
  <2>2. Stage(queue'[i], worker'[i])
    BY <1>1, <1>2, <1>6, <2>1 DEF Stage
  <2>3. Typed' /\ Only(i)
    BY <1>1, <1>6, <2>1 DEF Typed, Only
  <2> QED BY <2>2, <2>3, OneInstanceMoves
<1>7. ASSUME Finish(i), pending' = pending, rest' = rest, sent' = sent, media' = media,
             marked' = marked, faults' = faults, cache' = cache,
             db' \in [time : Times, mode : Modes, episode : Times]
      PROVE  PlayInv' /\ Only(i)
  <2>1. /\ queue' \in [Instances -> Seq(Task)] /\ worker' \in [Instances -> Workers]
        /\ \A j \in Instances \ {i} : queue'[j] = queue[j] /\ worker'[j] = worker[j]
        /\ Stage(queue'[i], worker'[i])
    BY <1>1, <1>7, Finishes
  <2>2. Typed' /\ Only(i)
    BY <1>1, <1>7, <2>1 DEF Typed, Only
  <2> QED BY <2>1, <2>2, OneInstanceMoves
<1>8. CASE Take(i)
  <2>1. /\ queue' = queue /\ pending' = pending /\ rest' = rest /\ sent' = sent
        /\ media' = media /\ marked' \in BOOLEAN /\ faults' = faults /\ cache' = cache
        /\ db' = db
    BY <1>8 DEF Take
  <2>2. CASE worker[i].pc = "take"
    <3>1. Goto(i, "commit", worker[i].mode)
      BY <1>8, <2>2 DEF Take
    <3>2. Running(i).type \in EpisodeTypes /\ (Running(i).type = "NEXT" => worker[i].mode = "playing")
      BY <1>2, <2>2 DEF Stage
    <3> QED BY <1>1, <1>3, <1>4, <1>5, <1>6, <2>1, <3>1, <3>2 DEF Typed, EpisodeTypes
  <2>3. CASE worker[i].pc # "take"
    <3>1. Running(i).type \notin EpisodeTypes /\ Running(i).by = "person"
      BY <1>8, <2>3 DEF Take, At
    <3>2. CASE Running(i).type = "SEEK"
      <4>1. Goto(i, "resolve", "paused")
        BY <1>8, <2>3, <3>2 DEF Take
      <4> QED BY <1>1, <1>5, <1>6, <2>1, <3>2, <4>1 DEF Typed, EpisodeTypes
    <3>3. CASE Running(i).type # "SEEK"
      <4>1. Goto(i, "commit", ModeOf(Running(i).type))
        BY <1>8, <2>3, <3>3 DEF Take
      <4> QED BY <1>1, <1>4, <1>5, <1>6, <2>1, <3>1, <4>1 DEF Typed, EpisodeTypes
    <3> QED BY <3>2, <3>3
  <2> QED BY <2>2, <2>3
<1>9. ASSUME NEW mode \in Modes, worker[i].pc \in {"resolve", "resolveRow"},
             Goto(i, IF Running(i).type = "SEEK" THEN "commit" ELSE "write", mode),
             UNCHANGED <<sent, pending, queue, rest, sharedVars, faults>>
      PROVE  PlayInv' /\ Only(i)
  <2>1. Running(i).type \in {"SEEK", "SWITCH"}
    BY <1>2, <1>9 DEF Stage
  <2> QED BY <1>1, <1>3, <1>5, <1>6, <1>9, <2>1 DEF Typed, sharedVars, EpisodeTypes
<1>10. CASE Resolve(i)
  <2>1. CASE cache = NONE
    <3>1. Goto(i, "resolveRow", "paused") /\ worker[i].pc = "resolve"
      BY <1>10, <2>1 DEF Resolve, At
    <3>2. Running(i).type \in {"SEEK", "SWITCH"}
      BY <1>2, <3>1 DEF Stage
    <3>3. UNCHANGED <<sent, pending, queue, rest, sharedVars, faults>>
      BY <1>10 DEF Resolve
    <3> QED BY <1>1, <1>5, <1>6, <3>1, <3>2, <3>3 DEF Typed, sharedVars
  <2>2. CASE cache # NONE
    <3>1. cache.mode \in Modes
      BY <1>1, <2>2 DEF Typed, Caches
    <3> QED BY <1>9, <1>10, <2>2, <3>1 DEF Resolve, At
  <2> QED BY <2>1, <2>2
<1>11. CASE ResolveRow(i)
  <2>1. db.mode \in Modes
    BY <1>1 DEF Typed
  <2> QED BY <1>9, <1>11, <2>1 DEF ResolveRow, At
<1>12. CASE Commit(i)
  <2>1. PICK mode \in Modes :
          /\ cache' = [time |-> Running(i).time, mode |-> mode, by |-> Running(i).by]
          /\ Goto(i, "persist", mode)
    BY <1>4, <1>12 DEF Commit
  <2>2. cache' \in Caches
    BY <1>3, <2>1 DEF Caches
  <2>3. UNCHANGED <<sent, pending, queue, rest, marked, media, db, faults>>
    BY <1>12 DEF Commit
  <2> QED BY <1>1, <1>5, <1>6, <2>1, <2>2, <2>3 DEF Typed
<1>13. CASE Persist(i)
  <2>1. db' \in [time : Times, mode : Modes, episode : Times]
    BY <1>1, <1>3, <1>4, <1>13 DEF Persist, Typed
  <2> QED BY <1>1, <1>7, <1>13, <2>1 DEF Persist
<1>14. CASE LoadMedia(i)
  <2>1. UNCHANGED <<sent, pending, rest, sharedVars, faults>> /\ Running(i).type \in EpisodeTypes
    BY <1>14 DEF LoadMedia
  <2>2. CASE Running(i).type = "SWITCH"
    <3>1. Goto(i, "resolve", "paused") /\ queue' = queue
      BY <1>14, <2>2 DEF LoadMedia
    <3> QED BY <1>1, <1>5, <1>6, <2>1, <2>2, <3>1 DEF Typed, sharedVars
  <2>3. CASE Running(i).type # "SWITCH" /\ media = Running(i).from
    <3>1. Goto(i, "write", "playing") /\ queue' = queue
      BY <1>14, <2>3 DEF LoadMedia
    <3> QED BY <1>1, <1>5, <1>6, <2>1, <2>3, <3>1 DEF Typed, sharedVars
  <2>4. CASE Running(i).type # "SWITCH" /\ media # Running(i).from
    <3>1. Finish(i)
      BY <1>14, <2>4 DEF LoadMedia
    <3> QED BY <1>1, <1>7, <2>1, <3>1 DEF Typed, sharedVars
  <2> QED BY <2>2, <2>3, <2>4
<1>15. CASE NothingNext(i)
  BY <1>1, <1>7, <1>15 DEF NothingNext, Typed, sharedVars
<1>16. CASE WriteEpisode(i)
  <2>1. UNCHANGED <<sent, pending, rest, cache, marked, media, faults>>
    BY <1>16 DEF WriteEpisode
  <2>2. CASE Finish(i) /\ UNCHANGED db
    BY <1>1, <1>7, <2>1, <2>2 DEF Typed
  <2>3. CASE /\ db' = [time |-> Running(i).time, mode |-> worker[i].mode,
                       episode |-> Running(i).time]
             /\ Goto(i, "publish", worker[i].mode)
             /\ UNCHANGED queue
    <3>1. db' \in [time : Times, mode : Modes, episode : Times]
      BY <1>3, <1>4, <2>3
    <3>2. /\ Running(i).type \in EpisodeTypes
          /\ Running(i).type = "NEXT" => worker[i].mode = "playing"
      BY <1>2, <1>16 DEF WriteEpisode, At, Stage
    <3> QED BY <1>1, <1>4, <1>5, <1>6, <2>1, <2>3, <3>1, <3>2 DEF Typed
  <2> QED BY <1>16, <2>2, <2>3 DEF WriteEpisode
<1>17. CASE PublishEpisode(i)
  <2>1. /\ Running(i).type \in EpisodeTypes
        /\ Running(i).type = "NEXT" => worker[i].mode = "playing"
    BY <1>2, <1>17 DEF PublishEpisode, At, Stage
  <2>2. Goto(i, "take", worker[i].mode)
    BY <1>17 DEF PublishEpisode
  <2>3. /\ worker' \in [Instances -> Workers]
        /\ worker'[i].pc = "take" /\ worker'[i].mode = worker[i].mode
        /\ \A j \in Instances \ {i} : worker'[j] = worker[j]
    BY <1>4, <1>5, <2>2, Goes
  <2>4. Stage(queue'[i], worker'[i])
    BY <1>1, <1>2, <1>17, <2>1, <2>3 DEF Stage, PublishEpisode
  <2>5. Typed' /\ Only(i)
    BY <1>1, <1>3, <1>17, <2>3, TimeKinds DEF Typed, Only, PublishEpisode
  <2> QED BY <1>1, <2>4, <2>5, OneInstanceMoves
<1> QED BY <1>1, <1>8, <1>10, <1>11, <1>12, <1>13, <1>14, <1>15, <1>16, <1>17 DEF Worker

LEMMA FaultInv ==
  ASSUME PlayInv, NEW i \in Instances, FailTask(i) \/ FailRest(i) \/ Restart(i)
  PROVE  PlayInv' /\ Only(i) /\ faults' = faults + 1
<1>1. Typed /\ Stage(queue[i], worker[i])
  BY DEF PlayInv
<1>2. faults' \in 0..MaxFaults /\ faults' = faults + 1
  BY <1>1, TimeKinds DEF FailTask, FailRest, Restart, Fault, Typed
<1>3. CASE FailTask(i)
  <2>1. /\ queue' \in [Instances -> Seq(Task)] /\ worker' \in [Instances -> Workers]
        /\ \A j \in Instances \ {i} : queue'[j] = queue[j] /\ worker'[j] = worker[j]
        /\ Stage(queue'[i], worker'[i])
    BY <1>3, Finishes DEF FailTask
  <2>2. Typed' /\ Only(i)
    BY <1>1, <1>2, <1>3, <2>1 DEF FailTask, Typed, Only, sharedVars
  <2> QED BY <1>2, <2>1, <2>2, OneInstanceMoves
<1>4. CASE FailRest(i)
  <2>1. Typed' /\ Only(i) /\ Stage(queue'[i], worker'[i])
    BY <1>1, <1>2, <1>4 DEF FailRest, Typed, Only, sharedVars
  <2> QED BY <1>2, <2>1, OneInstanceMoves
<1>5. CASE Restart(i)
  <2>1. Typed' /\ Only(i) /\ worker'[i] = Idle
    BY <1>1, <1>2, <1>5, Idles, TimeKinds DEF Restart, Typed, Only, sharedVars
  <2>2. Stage(queue'[i], worker'[i])
    BY <2>1, Idles
  <2> QED BY <1>2, <2>1, <2>2, OneInstanceMoves
<1> QED BY <1>3, <1>4, <1>5

LEMMA PlayInitInv == Init => PlayInv
<1> SUFFICES ASSUME Init PROVE PlayInv
  OBVIOUS
<1>1. 0 \in Times /\ 0 \in 0..MaxFaults
  BY BoundsAssumption DEF Times
<1>2. queue \in [Instances -> Seq(Task)] /\ worker \in [Instances -> Workers]
  BY Idles, EmptySeq DEF Init
<1>3. Typed
  BY <1>1, <1>2 DEF Init, Typed, Modes
<1>4. \A i \in Instances : Stage(queue[i], worker[i])
  BY Idles DEF Init
<1> QED BY <1>3, <1>4 DEF PlayInv

LEMMA PlayStutters == PlayInv /\ UNCHANGED vars => PlayInv'
BY DEF PlayInv, Typed, vars, sharedVars

LEMMA PlayStepInv == PlayInv /\ [Next]_vars => PlayInv'
<1>1. ASSUME PlayInv, Next
      PROVE  PlayInv'
  <2>1. PICK i \in Instances :
          \/ Controller(i) \/ SeekTimer(i) \/ Request(i)
          \/ Worker(i)
          \/ FailTask(i) \/ FailRest(i) \/ Restart(i)
    BY <1>1 DEF Next
  <2> QED BY <1>1, <2>1, ControllerInv, WorkerInv, FaultInv
<1> QED BY <1>1, PlayStutters

-----------------------------------------------------------------------------
(* The refinement of PlaybackControl.                                      *)

\* Waiting(i), of a queue, a worker and a debounced seek.
Left(q, w) == IF w.pc = "persist" THEN Tail(q) ELSE q
Waits(q, w, p) == Left(q, w) \o (IF p = 0 THEN <<>> ELSE <<Command("SEEK", p)>>)

LEMMA WaitingIs ==
  \A i : Waiting(i) = Waits(queue[i], worker[i], pending[i])
         /\ Waiting(i)' = Waits(queue'[i], worker'[i], pending'[i])
BY DEF Waiting, Uncommitted, Waits, Left

LEMMA WaitsKinds ==
  ASSUME NEW q \in Seq(Task), NEW w, Stage(q, w), NEW p \in Times
  PROVE  /\ Left(q, w) \in Seq(Task) /\ Waits(q, w, p) \in Seq(Task)
         /\ p = 0 => Waits(q, w, p) = Left(q, w)
         /\ p # 0 => /\ Waits(q, w, p) = Append(Left(q, w), Command("SEEK", p))
                     /\ Waits(q, w, p) # <<>>
                     /\ Front(Waits(q, w, p)) = Left(q, w)
                     /\ Last(Waits(q, w, p)) = Command("SEEK", p)
                     /\ Last(Waits(q, w, p)).type = "SEEK"
<1>1. Left(q, w) \in Seq(Task)
  BY HeadTailProperties DEF Left, Stage
<1>2. Command("SEEK", p) \in Task /\ Command("SEEK", p).type = "SEEK"
  BY TaskKinds DEF Command
<1>3. /\ Left(q, w) \o <<>> = Left(q, w)
      /\ Left(q, w) \o <<Command("SEEK", p)>> = Append(Left(q, w), Command("SEEK", p))
      /\ Append(Left(q, w), Command("SEEK", p)) \in Seq(Task)
      /\ Append(Left(q, w), Command("SEEK", p)) # <<>>
      /\ Front(Append(Left(q, w), Command("SEEK", p))) = Left(q, w)
      /\ Last(Append(Left(q, w), Command("SEEK", p))) = Command("SEEK", p)
  BY <1>1, <1>2, Appended
<1> QED BY <1>1, <1>2, <1>3 DEF Waits

\* A task that arrives comes after all that are left.
LEMMA LeftGrows ==
  ASSUME NEW q \in Seq(Task), NEW w, Stage(q, w), NEW c \in Task, NEW d \in Task
  PROVE  /\ Left(Append(q, c), w) = Append(Left(q, w), c)
         /\ Left(q \o <<c, d>>, w) = Append(Append(Left(q, w), c), d)
<1>1. q \o <<c, d>> = Append(Append(q, c), d) /\ Append(q, c) \in Seq(Task)
      /\ Append(q, c) # <<>>
  BY ThreeParts, Appended
<1>2. q # <<>> => Tail(Append(q, c)) = Append(Tail(q), c)
  BY HeadTailAppend
<1>3. Tail(Append(Append(q, c), d)) = Append(Tail(Append(q, c)), d)
  BY <1>1, HeadTailAppend
<1> QED BY <1>1, <1>2, <1>3 DEF Left, Stage

\* The same facts for every queue a task may leave or arrive at.
LEMMA Waiters ==
  /\ \A q \in Seq(Task), w \in Workers, p \in Times : Stage(q, w) =>
       /\ Left(q, w) \in Seq(Task) /\ Waits(q, w, p) \in Seq(Task)
       /\ p = 0 => Waits(q, w, p) = Left(q, w)
       /\ p # 0 => /\ Waits(q, w, p) = Append(Left(q, w), Command("SEEK", p))
                   /\ Waits(q, w, p) # <<>>
                   /\ Control!Front(Waits(q, w, p)) = Left(q, w)
                   /\ Control!Last(Waits(q, w, p)) = Command("SEEK", p)
                   /\ Control!EndsInSeek(Waits(q, w, p))
  /\ \A q \in Seq(Task), w \in Workers, c \in Task : Stage(q, w) =>
       /\ Append(q, c) \in Seq(Task) /\ Stage(Append(q, c), w)
       /\ Left(Append(q, c), w) = Append(Left(q, w), c)
  /\ \A q \in Seq(Task), w \in Workers, c \in Task, d \in Task : Stage(q, w) =>
       /\ q \o <<c, d>> \in Seq(Task) /\ Stage(q \o <<c, d>>, w)
       /\ Left(q \o <<c, d>>, w) = Append(Append(Left(q, w), c), d)
<1>1. ASSUME NEW q \in Seq(Task), NEW w \in Workers, NEW p \in Times, Stage(q, w)
      PROVE  /\ Left(q, w) \in Seq(Task) /\ Waits(q, w, p) \in Seq(Task)
             /\ p = 0 => Waits(q, w, p) = Left(q, w)
             /\ p # 0 => /\ Waits(q, w, p) = Append(Left(q, w), Command("SEEK", p))
                         /\ Waits(q, w, p) # <<>>
                         /\ Control!Front(Waits(q, w, p)) = Left(q, w)
                         /\ Control!Last(Waits(q, w, p)) = Command("SEEK", p)
                         /\ Control!EndsInSeek(Waits(q, w, p))
  <2>1. \A s : Control!Front(s) = Front(s) /\ Control!Last(s) = Last(s)
    BY DEF Control!Front, Front, Control!Last, Last
  <2>2. /\ Left(q, w) \in Seq(Task) /\ Waits(q, w, p) \in Seq(Task)
        /\ p = 0 => Waits(q, w, p) = Left(q, w)
        /\ p # 0 => /\ Waits(q, w, p) = Append(Left(q, w), Command("SEEK", p))
                    /\ Waits(q, w, p) # <<>>
                    /\ Front(Waits(q, w, p)) = Left(q, w)
                    /\ Last(Waits(q, w, p)) = Command("SEEK", p)
                    /\ Last(Waits(q, w, p)).type = "SEEK"
    BY <1>1, WaitsKinds
  <2> QED BY <2>1, <2>2 DEF Control!EndsInSeek
<1>2. ASSUME NEW q \in Seq(Task), NEW w \in Workers, NEW c \in Task, NEW d \in Task, Stage(q, w)
      PROVE  /\ Append(q, c) \in Seq(Task) /\ Stage(Append(q, c), w)
             /\ Left(Append(q, c), w) = Append(Left(q, w), c)
             /\ q \o <<c, d>> \in Seq(Task) /\ Stage(q \o <<c, d>>, w)
             /\ Left(q \o <<c, d>>, w) = Append(Append(Left(q, w), c), d)
  BY <1>2, JoinsQueue, LeftGrows
<1> QED BY <1>1, <1>2, Zenon

\* What waits elsewhere stays.
LEMMA WaitingChanges ==
  ASSUME NEW i \in Instances, Only(i), NEW x, Waits(queue'[i], worker'[i], pending'[i]) = x
  PROVE  [j \in Instances |-> Waiting(j)]'
           = [[j \in Instances |-> Waiting(j)] EXCEPT ![i] = x]
<1>1. \A j \in Instances : Waiting(j)' = IF j = i THEN x ELSE Waiting(j)
  BY WaitingIs DEF Only
<1> QED BY <1>1

LEMMA WaitingStays ==
  ASSUME NEW i \in Instances, Only(i),
         Waits(queue'[i], worker'[i], pending'[i]) = Waits(queue[i], worker[i], pending[i])
  PROVE  [j \in Instances |-> Waiting(j)]' = [j \in Instances |-> Waiting(j)]
<1>1. \A j \in Instances : Waiting(j)' = Waiting(j)
  BY WaitingIs DEF Only
<1> QED BY <1>1

LEMMA CommandsAreTasks == Task = Control!Commands
BY DEF Task, Control!Commands

\* How commands arrive at the queue of an instance.
Arrives(i) ==
    /\ Only(i) /\ cache' = cache /\ faults' = faults /\ worker' = worker
    /\ \/ queue' = queue /\ pending' = pending
       \/ queue' = queue /\ pending'[i] \in Times \ {0}
       \/ /\ pending[i] # 0 /\ pending'[i] = 0
          /\ queue'[i] = Append(queue[i], Command("SEEK", pending[i]))
       \/ \E c \in Task : FlushAndEnqueue(i, c)
       \/ /\ pending' = pending
          /\ \E c \in Task :
               /\ c.type \in EpisodeTypes \/ (c.by = "server" /\ c.type = "PLAY")
               /\ queue' = [queue EXCEPT ![i] = Append(@, c)]

LEMMA Arrivals ==
  ASSUME PlayInv, NEW i \in Instances, Controller(i) \/ SeekTimer(i) \/ Request(i)
  PROVE  Arrives(i)
<1>1. Typed /\ Only(i)
  BY ControllerInv DEF PlayInv
<1>2. ASSUME NEW input, Given(input)
      PROVE  sent' \in Times \ {0}
  BY <1>1, <1>2, TimeKinds DEF Given, Typed, Times
<1>3. CASE Seek(i)
  BY <1>1, <1>2, <1>3 DEF Seek, sharedVars, Typed, Arrives
<1>4. CASE SeekTimer(i)
  BY <1>1, <1>4 DEF SeekTimer, sharedVars, Typed, Arrives
<1>5. ASSUME NEW type \in {"PLAY", "PAUSE"}, Press(i, type)
      PROVE  /\ cache' = cache /\ faults' = faults /\ worker' = worker
             /\ \E c \in Task : FlushAndEnqueue(i, c)
  BY <1>2, <1>5, TaskKinds DEF Press, sharedVars
<1>6. CASE ChangeEpisode(i)
  <2>1. Command("SWITCH", sent') \in Task /\ Command("SWITCH", sent').type \in EpisodeTypes
    BY <1>2, <1>6, TaskKinds DEF ChangeEpisode, Command, EpisodeTypes
  <2> QED BY <1>1, <1>6, <2>1 DEF ChangeEpisode, sharedVars, Arrives
<1>7. CASE EndEpisode(i)
  <2>1. PICK e \in {0, media} :
            queue' = [queue EXCEPT ![i] = Append(@, [Command("NEXT", sent') EXCEPT !.from = e])]
    BY <1>7 DEF EndEpisode
  <2>2. e \in Times
    BY <1>1, TimeKinds DEF Typed
  <2>3. sent' \in Times
    BY <1>2, <1>7 DEF EndEpisode
  <2>4. /\ [Command("NEXT", sent') EXCEPT !.from = e] \in Task
        /\ [Command("NEXT", sent') EXCEPT !.from = e].type \in EpisodeTypes
    BY <2>2, <2>3, TaskKinds DEF Command, EpisodeTypes
  <2> QED BY <1>1, <1>7, <2>1, <2>4 DEF EndEpisode, sharedVars, Arrives
<1>8. ASSUME NEW type, NEW changes, RestWrite(i, type, changes)
      PROVE  UNCHANGED <<cache, faults, worker, queue, pending>>
  BY <1>8 DEF RestWrite
<1>9. CASE RestPublish(i)
  BY <1>1, <1>9 DEF RestPublish, Arrives
<1>10. CASE RestApply(i)
  <2>1. rest[i] \in Rests
    BY <1>1, <1>10 DEF RestApply, Typed
  <2>2. Command(rest[i].type, rest[i].time) \in Task
    BY <2>1, TaskKinds DEF Rests
  <2> QED BY <1>1, <1>10, <2>2 DEF RestApply, sharedVars, Arrives
<1> QED BY <1>1, <1>3, <1>4, <1>5, <1>6, <1>7, <1>8, <1>9, <1>10 DEF Controller, Request, Arrives

\* An arrival gives a command, or one that replaces a debounced seek or
\* overtakes it.
LEMMA ArrivalsRefine ==
  ASSUME PlayInv, NEW i \in Instances, Arrives(i)
  PROVE  [Control!Next]_(Control!vars)
<1> DEFINE q == queue[i]
           w == worker[i]
           p == pending[i]
           W == [j \in Instances |-> Waiting(j)]
<1>1. q \in Seq(Task) /\ p \in Times /\ w \in Workers /\ Stage(q, w) /\ Typed
  BY DEF PlayInv, Typed
<1>2. Only(i) /\ cache' = cache /\ faults' = faults /\ worker' = worker
  BY DEF Arrives
<1>3. /\ Left(q, w) \in Seq(Task)
      /\ p = 0 => Waits(q, w, p) = Left(q, w)
      /\ p # 0 => /\ Waits(q, w, p) = Append(Left(q, w), Command("SEEK", p))
                  /\ Waits(q, w, p) # <<>>
                  /\ Control!Front(Waits(q, w, p)) = Left(q, w)
                  /\ Control!Last(Waits(q, w, p)) = Command("SEEK", p)
                  /\ Control!EndsInSeek(Waits(q, w, p))
      /\ Command("SEEK", p) \in Task
  BY <1>1, Waiters, TaskKinds
<1>4. W[i] = Waits(q, w, p)
  BY WaitingIs
<1>5. ASSUME Waits(queue'[i], w, pending'[i]) = Waits(q, w, p)
      PROVE  UNCHANGED Control!vars
  BY <1>2, <1>5, WaitingStays DEF Control!vars
<1>6. ASSUME NEW c \in Task, Waits(queue'[i], w, pending'[i]) = Append(Waits(q, w, p), c)
      PROVE  Control!Next
  <2>1. W' = [W EXCEPT ![i] = Append(Waits(q, w, p), c)]
    BY <1>2, <1>6, WaitingChanges
  <2>2. Control!Give(i, c)
    BY <1>2, <1>4, <2>1 DEF Control!Give
  <2> QED BY <2>2, CommandsAreTasks DEF Control!Next
<1>7. ASSUME NEW c \in Task, c.type = "SEEK", p # 0,
             Waits(queue'[i], w, pending'[i]) = Append(Left(q, w), c)
      PROVE  Control!Next
  <2>1. W' = [W EXCEPT ![i] = Append(Left(q, w), c)]
    BY <1>2, <1>7, WaitingChanges
  <2>2. Control!EndsInSeek(W[i]) /\ Control!Front(W[i]) = Left(q, w)
    BY <1>3, <1>4, <1>7
  <2>3. Control!Replace(i, c)
    BY <1>2, <1>7, <2>1, <2>2 DEF Control!Replace
  <2> QED BY <2>3, CommandsAreTasks DEF Control!Next
<1>8. ASSUME NEW c \in Task, c.type \in EpisodeTypes \/ (c.by = "server" /\ c.type = "PLAY"), p # 0,
             Waits(queue'[i], w, pending'[i]) = Append(Append(Left(q, w), c), Command("SEEK", p))
      PROVE  Control!Next
  <2>1. Append(Append(Left(q, w), c), Command("SEEK", p)) = Left(q, w) \o <<c, Command("SEEK", p)>>
    <3>1. \A u \in Seq(Task), d \in Task : Append(Append(u, c), d) = u \o <<c, d>>
      BY ThreeParts
    <3> QED BY <1>3, <3>1, Zenon
  <2>2. W' = [W EXCEPT ![i] = Left(q, w) \o <<c, Command("SEEK", p)>>]
    BY <1>2, <1>8, <2>1, WaitingChanges
  <2>3. /\ Control!EndsInSeek(W[i]) /\ Control!Front(W[i]) = Left(q, w)
        /\ Control!Last(W[i]) = Command("SEEK", p)
    BY <1>3, <1>4, <1>8
  <2>4. Control!Overtake(i, c)
    BY <1>2, <1>8, <2>2, <2>3 DEF Control!Overtake, EpisodeTypes, Control!EpisodeTypes
  <2> QED BY <2>4, CommandsAreTasks DEF Control!Next
<1>9. CASE queue' = queue /\ pending' = pending
  BY <1>5, <1>9
<1>10. CASE queue' = queue /\ pending'[i] \in Times \ {0}
  <2> DEFINE c == Command("SEEK", pending'[i])
  <2>1. c \in Task /\ c.type = "SEEK"
    BY <1>10, TaskKinds DEF Command
  <2>2. Waits(q, w, pending'[i]) = Append(Left(q, w), c)
    BY <1>1, <1>10, Waiters
  <2> HIDE DEF c
  <2> QED BY <1>3, <1>6, <1>7, <1>10, <2>1, <2>2
<1>11. CASE /\ p # 0 /\ pending'[i] = 0
            /\ queue'[i] = Append(q, Command("SEEK", p))
  <2>2. /\ queue'[i] \in Seq(Task) /\ Stage(queue'[i], w)
        /\ Left(queue'[i], w) = Append(Left(q, w), Command("SEEK", p))
    BY <1>1, <1>3, <1>11, Waiters
  <2>3. Waits(queue'[i], w, pending'[i]) = Left(queue'[i], w)
    BY <1>1, <1>11, <2>2, TimeKinds, Waiters
  <2> QED BY <1>3, <1>5, <1>11, <2>2, <2>3
<1>12. ASSUME NEW c \in Task, FlushAndEnqueue(i, c)
       PROVE  Control!Next
  <2>2. /\ queue'[i] = IF p = 0 THEN Append(q, c) ELSE q \o <<Command("SEEK", p), c>>
        /\ pending'[i] = 0 /\ queue'[i] \in Seq(Task) /\ Stage(queue'[i], w)
    BY <1>12, Flushes
  <2>3. Waits(queue'[i], w, pending'[i]) = Left(queue'[i], w)
    BY <1>1, <2>2, TimeKinds, Waiters
  <2>4. Left(queue'[i], w) = Append(Waits(q, w, p), c)
    <3>1. CASE p = 0
      <4>1. Left(Append(q, c), w) = Append(Left(q, w), c)
        BY <1>1, Waiters
      <4> QED BY <1>3, <2>2, <3>1, <4>1
    <3>2. CASE p # 0
      <4>1. Left(q \o <<Command("SEEK", p), c>>, w) = Append(Append(Left(q, w), Command("SEEK", p)), c)
        BY <1>1, <1>3, Waiters
      <4> QED BY <1>3, <2>2, <3>2, <4>1
    <3> QED BY <3>1, <3>2
  <2> QED BY <1>6, <2>3, <2>4
<1>13. ASSUME NEW c \in Task, c.type \in EpisodeTypes \/ (c.by = "server" /\ c.type = "PLAY"),
              pending' = pending, queue' = [queue EXCEPT ![i] = Append(@, c)]
       PROVE  Control!Next
  <2>1. queue'[i] = Append(q, c) /\ pending'[i] = p
    BY <1>1, <1>13 DEF Typed
  <2>2. /\ queue'[i] \in Seq(Task) /\ Stage(queue'[i], w)
        /\ Left(queue'[i], w) = Append(Left(q, w), c)
    BY <1>1, <2>1, Waiters
  <2>3. /\ p = 0 => Waits(queue'[i], w, p) = Left(queue'[i], w)
        /\ p # 0 => Waits(queue'[i], w, p) = Append(Left(queue'[i], w), Command("SEEK", p))
    BY <1>1, <2>2, Waiters
  <2> QED BY <1>3, <1>6, <1>8, <1>13, <2>1, <2>2, <2>3
<1> QED BY <1>9, <1>10, <1>11, <1>12, <1>13 DEF Arrives

\* What the running task does to what waits.
LEMMA WorkerSteps ==
  ASSUME PlayInv, NEW i \in Instances, Worker(i)
  PROVE  /\ faults' = faults
         /\ \/ /\ queue' = queue /\ cache' = cache
               /\ worker[i].pc # "persist" /\ worker'[i].pc # "persist"
               /\ \/ pending' = pending
                  \/ pending'[i] = 0 /\ Running(i).type \in EpisodeTypes
            \/ Commit(i)
            \/ Persist(i)
            \/ /\ Running(i).type = "NEXT" /\ worker[i].pc # "persist" /\ Finish(i)
               /\ cache' = cache /\ pending' = pending
<1>1. queue[i] # <<>> /\ Typed
  BY WorkerInv DEF PlayInv
<1>2. /\ Running(i).type \in {"PLAY", "PAUSE", "SEEK", "SWITCH", "NEXT"}
      /\ worker[i] \in Workers /\ Stage(queue[i], worker[i])
  BY <1>1, HeadOfQueue, TaskKinds
<1>3. ASSUME NEW pc, NEW mode, Goto(i, pc, mode), pc # "persist"
      PROVE  worker'[i].pc # "persist"
  BY <1>1, <1>3 DEF Goto, Typed
<1>4. CASE Take(i)
  BY <1>3, <1>4 DEF Take, At, sharedVars
<1>5. CASE Resolve(i)
  BY <1>3, <1>5 DEF Resolve, At, sharedVars
<1>6. CASE ResolveRow(i)
  BY <1>3, <1>6 DEF ResolveRow, At, sharedVars
<1>7. CASE LoadMedia(i)
  BY <1>2, <1>3, <1>7 DEF LoadMedia, At, sharedVars, EpisodeTypes
<1>8. CASE NothingNext(i)
  BY <1>8 DEF NothingNext, At, sharedVars
<1>9. CASE WriteEpisode(i)
  <2>1. worker[i].pc # "persist" /\ UNCHANGED <<pending, cache, faults>>
    BY <1>9 DEF WriteEpisode, At
  <2>2. CASE Running(i).type = "NEXT" /\ Finish(i)
    BY <2>1, <2>2
  <2>3. CASE Goto(i, "publish", worker[i].mode) /\ queue' = queue
    BY <1>3, <2>1, <2>3
  <2> QED BY <1>9, <2>2, <2>3 DEF WriteEpisode
<1>10. CASE PublishEpisode(i)
  <2>1. pending'[i] = 0
    BY <1>1, <1>10 DEF PublishEpisode, Typed
  <2>2. Running(i).type \in EpisodeTypes
    BY <1>2, <1>10 DEF PublishEpisode, At, Stage, Running
  <2> QED BY <1>3, <1>10, <2>1, <2>2 DEF PublishEpisode, At
<1>11. CASE Commit(i)
  BY <1>11 DEF Commit
<1>12. CASE Persist(i)
  BY <1>12 DEF Persist
<1> QED BY <1>4, <1>5, <1>6, <1>7, <1>8, <1>9, <1>10, <1>11, <1>12 DEF Worker

\* On one instance nothing is committed between the step that reads the mode a
\* seek or a switch keeps and the step that commits it.
ModeKept ==
    Control!OneInstance => \A i \in Instances : cache # NONE =>
        /\ worker[i].pc # "resolveRow"
        /\ worker[i].pc \in {"write", "publish", "take", "commit"}
              /\ Running(i).type \in {"SEEK", "SWITCH"}
            => worker[i].mode = cache.mode

LEMMA HeadStays ==
  ASSUME PlayInv, NEW i \in Instances, Arrives(i), queue[i] # <<>>
  PROVE  Head(queue'[i]) = Head(queue[i])
<1>1. queue[i] \in Seq(Task) /\ pending[i] \in Times /\ Typed
  BY DEF PlayInv, Typed
<1>2. Command("SEEK", pending[i]) \in Task
  BY <1>1, TaskKinds
<1>3. \A c \in Task : Head(Append(queue[i], c)) = Head(queue[i])
  BY <1>1, HeadTailAppend
<1>4. \A c \in Task, d \in Task : Head(queue[i] \o <<c, d>>) = Head(queue[i])
  <2> TAKE c \in Task, d \in Task
  <2>1. <<c, d>> \in Seq(Task)
    OBVIOUS
  <2> QED BY <1>1, <2>1, TailOfConcat
<1>5. ASSUME NEW c \in Task, FlushAndEnqueue(i, c)
      PROVE  Head(queue'[i]) = Head(queue[i])
  <2>1. queue'[i] = IF pending[i] = 0 THEN Append(queue[i], c)
                    ELSE queue[i] \o <<Command("SEEK", pending[i]), c>>
    BY <1>5, Flushes
  <2> QED BY <1>2, <1>3, <1>4, <2>1
<1>6. ASSUME NEW c \in Task, queue' = [queue EXCEPT ![i] = Append(@, c)]
      PROVE  Head(queue'[i]) = Head(queue[i])
  BY <1>1, <1>3, <1>6 DEF Typed
<1> QED BY <1>2, <1>3, <1>5, <1>6 DEF Arrives

LEMMA ModeStep ==
  ASSUME PlayInv, ModeKept, NEW i \in Instances,
         Arrives(i) \/ Worker(i) \/ FailTask(i) \/ FailRest(i) \/ Restart(i)
  PROVE  ModeKept'
<1> DEFINE Kept == /\ worker'[i].pc # "resolveRow"
                   /\ worker'[i].pc \in {"write", "publish", "take", "commit"}
                        /\ Head(queue'[i]).type \in {"SEEK", "SWITCH"}
                      => worker'[i].mode = cache'.mode
<1> SUFFICES ASSUME Control!OneInstance, cache' # NONE
             PROVE  Kept
  BY DEF ModeKept, Control!OneInstance, Running
<1>1. Typed /\ Stage(queue[i], worker[i])
  BY DEF PlayInv
<1>2. worker[i].pc # "idle" => queue[i] # <<>>
  BY <1>1 DEF Stage
<1>3. ASSUME worker'[i] = worker[i], cache' = cache,
             queue[i] # <<>> => Head(queue'[i]) = Head(queue[i])
      PROVE  Kept
  BY <1>2, <1>3 DEF ModeKept, Running
<1>4. CASE Arrives(i)
  <2>1. worker' = worker /\ cache' = cache
    BY <1>4 DEF Arrives
  <2>2. queue[i] # <<>> => Head(queue'[i]) = Head(queue[i])
    BY <1>4, HeadStays
  <2> QED BY <1>3, <2>1, <2>2
<1>5. ASSUME Finish(i)
      PROVE  Kept
  BY <1>1, <1>5, Idles DEF Finish, Typed
<1>6. CASE FailTask(i) \/ Restart(i)
  <2>1. worker'[i] = Idle
    BY <1>1, <1>6 DEF FailTask, Restart, Finish, Typed
  <2> QED BY <2>1, Idles
<1>7. CASE FailRest(i)
  BY <1>3, <1>7 DEF FailRest, sharedVars
<1>8. ASSUME queue' = queue, cache' = cache, worker[i].pc \in {"take", "publish", "write"},
             worker'[i].mode = worker[i].mode, worker'[i].pc # "resolveRow"
      PROVE  Kept
  BY <1>8 DEF ModeKept, Running
<1>9. CASE Take(i)
  <2>1. queue' = queue /\ cache' = cache
    BY <1>9 DEF Take
  <2>2. CASE worker[i].pc = "take"
    BY <1>1, <1>8, <1>9, <2>1, <2>2 DEF Take, Goto, Typed
  <2>3. CASE worker[i].pc # "take"
    BY <1>1, <1>9, <2>1, <2>3 DEF Take, At, Goto, Typed, Running, EpisodeTypes
  <2> QED BY <2>2, <2>3
<1>10. CASE PublishEpisode(i)
  BY <1>1, <1>8, <1>10 DEF PublishEpisode, At, Goto, Typed
<1>11. CASE WriteEpisode(i)
  BY <1>1, <1>5, <1>8, <1>11 DEF WriteEpisode, At, Goto, Typed
<1>12. CASE Resolve(i) \/ ResolveRow(i)
  <2>1. cache' = cache
    BY <1>12 DEF Resolve, ResolveRow, sharedVars
  <2>2. Resolve(i)
    BY <1>12, <2>1 DEF ModeKept, ResolveRow, At
  <2> QED BY <1>1, <2>1, <2>2 DEF Resolve, Goto, Typed
<1>13. CASE LoadMedia(i)
  BY <1>1, <1>5, <1>13 DEF LoadMedia, Goto, Typed, Running, EpisodeTypes
<1>14. CASE Commit(i)
  BY <1>1, <1>14 DEF Commit, Goto, Typed
<1>15. CASE Persist(i) \/ NothingNext(i)
  BY <1>5, <1>15 DEF Persist, NothingNext
<1> QED BY <1>4, <1>6, <1>7, <1>12, <1>13, <1>14, <1>15, <1>9, <1>10, <1>11 DEF Worker

LEMMA WorkerRefines ==
  ASSUME PlayInv, ModeKept, NEW i \in Instances, Worker(i)
  PROVE  [Control!Next]_(Control!vars)
<1> DEFINE q == queue[i]
           w == worker[i]
           p == pending[i]
           W == [j \in Instances |-> Waiting(j)]
           D == IF p = 0 THEN <<>> ELSE <<Command("SEEK", p)>>
<1>1. /\ q # <<>> /\ q \in Seq(Task) /\ w \in Workers /\ p \in Times /\ Stage(q, w) /\ Typed
      /\ Running(i) = Head(q) /\ Running(i) \in Task /\ Tail(q) \in Seq(Task)
  BY WorkerInv, HeadOfQueue DEF PlayInv, Typed, Running
<1>2. Only(i) /\ faults' = faults
  BY WorkerInv, WorkerSteps
<1>3. D \in Seq(Task)
  <2>1. Command("SEEK", p) \in Task
    BY <1>1, TaskKinds
  <2> QED BY <2>1
<1>4. W[i] = Waits(q, w, p) /\ \A v : Waits(q, v, p) = Left(q, v) \o D
  BY WaitingIs DEF Waits
<1>5. /\ q \o D # <<>> /\ Head(q \o D) = Running(i) /\ Tail(q \o D) = Tail(q) \o D
  <2>1. \A d \in Seq(Task) : /\ q \o d # <<>> /\ Head(q \o d) = Head(q)
                             /\ Tail(q \o d) = Tail(q) \o d
    BY <1>1, TailOfConcat
  <2> HIDE DEF D
  <2> QED BY <1>1, <1>3, <2>1
<1>6. w.pc # "persist" => W[i] = q \o D
  BY <1>4 DEF Left
<1>7. CASE /\ queue' = queue /\ cache' = cache
           /\ w.pc # "persist" /\ worker'[i].pc # "persist"
           /\ pending' = pending
  <2>1. Waits(queue'[i], worker'[i], pending'[i]) = Waits(q, w, p)
    BY <1>7 DEF Waits, Left
  <2> QED BY <1>2, <1>7, <2>1, WaitingStays DEF Control!vars
<1>8. CASE /\ queue' = queue /\ cache' = cache
           /\ w.pc # "persist" /\ worker'[i].pc # "persist"
           /\ pending'[i] = 0 /\ Running(i).type \in EpisodeTypes
  <2>1. Left(q, w) = q /\ Left(queue'[i], worker'[i]) = q
    BY <1>8 DEF Left
  <2>2. Waits(queue'[i], worker'[i], pending'[i]) = q
    BY <1>1, <1>8, <2>1, ConcatEmptySeq DEF Waits
  <2>3. CASE p = 0
    <3>1. Waits(q, w, p) = q
      BY <1>1, <2>1, <2>3, Waiters
    <3> QED BY <1>2, <1>8, <2>2, <3>1, WaitingStays DEF Control!vars
  <2>4. CASE p # 0
    <3>1. /\ Control!EndsInSeek(W[i]) /\ Control!Front(W[i]) = q
          /\ W[i] = Append(q, Command("SEEK", p))
      BY <1>1, <1>4, <2>1, <2>4, Waiters
    <3>2. Len(Append(q, Command("SEEK", p))) > 1
      <4>1. Len(q) \in Nat \ {0}
        BY <1>1, EmptySeq
      <4>2. Len(Append(q, Command("SEEK", p))) = Len(q) + 1
        BY <1>1, TaskKinds, AppendProperties
      <4> QED BY <4>1, <4>2
    <3>3. Head(W[i]) = Running(i)
      BY <1>5, <1>6, <1>8
    <3>4. W' = [W EXCEPT ![i] = q]
      BY <1>2, <2>2, WaitingChanges
    <3>5. Control!GiveWay(i)
      BY <1>2, <1>8, <3>1, <3>2, <3>3, <3>4 DEF Control!GiveWay, EpisodeTypes, Control!EpisodeTypes
    <3> QED BY <3>5 DEF Control!Next
  <2> QED BY <2>3, <2>4
<1>9. ASSUME pending' = pending, w.pc # "persist",
             Left(queue'[i], worker'[i]) = Tail(q)
      PROVE  /\ W[i] # <<>> /\ Head(W[i]) = Running(i)
             /\ W' = [W EXCEPT ![i] = Tail(W[i])]
  <2>1. Waits(queue'[i], worker'[i], pending'[i]) = Tail(q) \o D
    BY <1>9 DEF Waits
  <2>2. W' = [W EXCEPT ![i] = Tail(q) \o D]
    BY <1>2, <2>1, WaitingChanges
  <2> QED BY <1>5, <1>6, <1>9, <2>2
<1>10. CASE Running(i).type = "NEXT" /\ w.pc # "persist" /\ Finish(i)
            /\ cache' = cache /\ pending' = pending
  <2>1. queue'[i] = Tail(q) /\ worker'[i] = Idle
    BY <1>1, <1>10, Finishes
  <2>2. Left(queue'[i], worker'[i]) = Tail(q)
    BY <2>1, Idles DEF Left
  <2>3. Control!NothingNext(i)
    BY <1>2, <1>9, <1>10, <2>2 DEF Control!NothingNext
  <2> QED BY <2>3 DEF Control!Next, Control!Settle
<1>11. CASE Persist(i)
  <2>1. w.pc = "persist" /\ Finish(i) /\ pending' = pending /\ cache' = cache
    BY <1>11 DEF Persist, At
  <2>2. queue'[i] = Tail(q) /\ worker'[i] = Idle
    BY <1>1, <2>1, Finishes
  <2>3. Left(q, w) = Tail(q) /\ Left(queue'[i], worker'[i]) = Tail(q)
    BY <2>1, <2>2, Idles DEF Left
  <2>4. Waits(queue'[i], worker'[i], pending'[i]) = Waits(q, w, p)
    BY <2>1, <2>3 DEF Waits
  <2> QED BY <1>2, <2>1, <2>4, WaitingStays DEF Control!vars
<1>12. CASE Commit(i)
  <2> DEFINE mode == IF Running(i).by = "server" THEN ModeOf(Running(i).type) ELSE w.mode
             c == Running(i)
  <2>1. /\ w.pc = "commit" \/ (w.pc = "idle" /\ c.by = "server")
        /\ queue' = queue /\ pending' = pending
        /\ cache' = [time |-> c.time, mode |-> mode, by |-> c.by]
        /\ Goto(i, "persist", mode)
    BY <1>12 DEF Commit, At
  <2>2. worker'[i].pc = "persist"
    BY <1>1, <2>1 DEF Goto, Typed
  <2>3. Left(queue'[i], worker'[i]) = Tail(q)
    BY <2>1, <2>2 DEF Left
  <2>4. /\ c.type \in {"PLAY", "PAUSE", "SEEK", "SWITCH", "NEXT"}
        /\ c.time \in Times /\ c.by \in {"person", "server"}
        /\ c.by = "server" => c.type \in {"PLAY", "PAUSE"}
    BY <1>1, TaskKinds
  <2>5. /\ c.type \in {"PLAY", "NEXT"} => mode = "playing"
        /\ c.type = "PAUSE" => mode = "paused"
        /\ c.type \in {"SEEK", "SWITCH"} => mode = w.mode /\ w.pc = "commit"
    BY <1>1, <2>1, <2>4 DEF Stage, ModeOf
  <2>6. mode \in Modes
    BY <1>1, <2>4 DEF Workers, ModeOf, Modes
  <2> DEFINE room == IF cache = NONE THEN NONE ELSE [time |-> cache.time, mode |-> cache.mode]
  <2>7. room' = [time |-> c.time, mode |-> mode]
    <3>1. cache' # NONE /\ cache'.time = c.time /\ cache'.mode = mode
      BY <2>1, <2>4, <2>6, NoneAssumption DEF Times, Modes
    <3> QED BY <3>1
  <2>8. c.type \in {"SEEK", "SWITCH"} /\ room # NONE /\ Control!OneInstance => mode = room.mode
    BY <2>5 DEF ModeKept
  <2> HIDE DEF mode, room
  <2>9. [time |-> c.time, mode |-> mode] \in Control!Effects(room, c)
    BY <2>4, <2>5, <2>6, <2>8 DEF Control!Effects, Control!Modes, Modes
  <2>10. Control!Apply(i)
    BY <1>2, <1>9, <2>1, <2>3, <2>7, <2>9 DEF Control!Apply, room
  <2> QED BY <2>10 DEF Control!Next, Control!Settle
<1> QED BY <1>7, <1>8, <1>10, <1>11, <1>12, WorkerSteps

\* A failed task, a failed request and a restart lose what was at the front.
LEMMA FaultsRefine ==
  ASSUME PlayInv, NEW i \in Instances, FailTask(i) \/ FailRest(i) \/ Restart(i)
  PROVE  Control!Next
<1> DEFINE q == queue[i]
           w == worker[i]
           p == pending[i]
           W == [j \in Instances |-> Waiting(j)]
           D == IF p = 0 THEN <<>> ELSE <<Command("SEEK", p)>>
<1>1. q \in Seq(Task) /\ w \in Workers /\ p \in Times /\ Stage(q, w) /\ Typed
  BY DEF PlayInv, Typed
<1>2. Only(i) /\ faults' = faults + 1 /\ cache' = cache
  BY FaultInv DEF FailTask, FailRest, Restart, sharedVars
<1>3. W[i] = Waits(q, w, p) /\ Waits(q, w, p) \in Seq(Task)
  BY <1>1, WaitingIs, Waiters
<1>4. ASSUME NEW n \in 0..Len(W[i]),
             Waits(queue'[i], worker'[i], pending'[i]) = SubSeq(W[i], n + 1, Len(W[i]))
      PROVE  Control!Next
  <2>1. W' = [W EXCEPT ![i] = SubSeq(W[i], n + 1, Len(W[i]))]
    BY <1>2, <1>4, WaitingChanges
  <2>2. Control!Lose(i)
    BY <1>2, <2>1 DEF Control!Lose
  <2> QED BY <2>2 DEF Control!Next
<1>5. /\ SubSeq(W[i], 1, Len(W[i])) = W[i]
      /\ SubSeq(W[i], Len(W[i]) + 1, Len(W[i])) = <<>>
      /\ W[i] # <<>> => SubSeq(W[i], 2, Len(W[i])) = Tail(W[i])
      /\ Len(W[i]) \in Nat
      /\ W[i] # <<>> => Len(W[i]) \in Nat \ {0}
  <2> HIDE DEF W
  <2>1. W[i] \in Seq(Task)
    BY <1>3
  <2> QED BY <2>1, Whole, EmptySeq, LenProperties
<1>6. 0 \in 0..Len(W[i]) /\ Len(W[i]) \in 0..Len(W[i]) /\ (W[i] # <<>> => 1 \in 0..Len(W[i]))
  BY <1>5
<1> HIDE DEF W
<1>7. ASSUME Waits(queue'[i], worker'[i], pending'[i]) = Waits(q, w, p)
      PROVE  Control!Next
  BY <1>3, <1>4, <1>5, <1>6, <1>7
<1>8. CASE FailTask(i)
  <2>1. q # <<>> /\ Finish(i) /\ pending' = pending
    BY <1>8 DEF FailTask
  <2>2. queue'[i] = Tail(q) /\ worker'[i] = Idle
    BY <2>1, Finishes
  <2>3. Left(queue'[i], worker'[i]) = Tail(q)
    BY <2>2, Idles DEF Left
  <2>4. CASE w.pc = "persist"
    <3>1. Waits(queue'[i], worker'[i], pending'[i]) = Waits(q, w, p)
      BY <2>1, <2>3, <2>4 DEF Waits, Left
    <3> QED BY <1>7, <3>1
  <2>5. CASE w.pc # "persist"
    <3>1. Waits(queue'[i], worker'[i], pending'[i]) = Tail(q) \o D /\ W[i] = q \o D
      BY <1>3, <2>1, <2>3, <2>5 DEF Waits, Left
    <3>2. D \in Seq(Task)
      <4>1. Command("SEEK", p) \in Task
        BY <1>1, TaskKinds
      <4> QED BY <4>1
    <3>3. q \o D # <<>> /\ Tail(q \o D) = Tail(q) \o D
      <4>1. \A d \in Seq(Task) : q \o d # <<>> /\ Tail(q \o d) = Tail(q) \o d
        BY <1>1, <2>1, TailOfConcat
      <4> HIDE DEF D
      <4> QED BY <3>2, <4>1
    <3> HIDE DEF D
    <3>4. W[i] # <<>> /\ Tail(W[i]) = Tail(q) \o D
      BY <3>1, <3>3
    <3>5. SubSeq(W[i], 2, Len(W[i])) = Tail(q) \o D
      BY <1>5, <3>4, Zenon
    <3>6. 1 + 1 = 2
      OBVIOUS
    <3>7. SubSeq(W[i], 1 + 1, Len(W[i])) = Tail(q) \o D
      BY <3>5, <3>6, Zenon
    <3> QED BY <1>4, <1>6, <3>1, <3>4, <3>7
  <2> QED BY <2>4, <2>5
<1>9. CASE FailRest(i)
  BY <1>7, <1>9 DEF FailRest
<1>10. CASE Restart(i)
  <2>1. queue'[i] = <<>> /\ worker'[i] = Idle /\ pending'[i] = 0
    BY <1>1, <1>10 DEF Restart, Typed
  <2>2. Left(queue'[i], worker'[i]) = <<>>
    BY <2>1, Idles DEF Left
  <2>3. Waits(queue'[i], worker'[i], pending'[i]) = <<>>
    BY <2>1, <2>2, ConcatEmptySeq, EmptySeq DEF Waits
  <2> QED BY <1>4, <1>5, <1>6, <2>3
<1> QED BY <1>8, <1>9, <1>10

LEMMA InitRefines == Init => Control!Init
<1> SUFFICES ASSUME Init PROVE Control!Init
  OBVIOUS
<1>1. \A i \in Instances : Waiting(i) = <<>>
  BY Idles, ConcatEmptySeq, EmptySeq DEF Init, Waiting, Uncommitted
<1> QED BY <1>1 DEF Init, Control!Init

OrderInv == PlayInv /\ ModeKept

LEMMA OrderInitInv == Init => OrderInv
BY PlayInitInv DEF Init, Idle, OrderInv, ModeKept

LEMMA OrderStepInv ==
  ASSUME OrderInv, [Next]_vars
  PROVE  OrderInv' /\ [Control!Next]_(Control!vars)
<1>1. CASE Next
  <2>1. PICK i \in Instances :
          \/ Controller(i) \/ SeekTimer(i) \/ Request(i)
          \/ Worker(i)
          \/ FailTask(i) \/ FailRest(i) \/ Restart(i)
    BY <1>1 DEF Next
  <2>2. PlayInv'
    BY <2>1, ControllerInv, WorkerInv, FaultInv DEF OrderInv
  <2>3. ModeKept'
    BY <2>1, Arrivals, ModeStep DEF OrderInv
  <2>4. [Control!Next]_(Control!vars)
    BY <2>1, Arrivals, ArrivalsRefine, WorkerRefines, FaultsRefine DEF OrderInv
  <2> QED BY <2>2, <2>3, <2>4 DEF OrderInv
<1>2. CASE UNCHANGED vars
  <2>1. PlayInv'
    BY <1>2, PlayStutters DEF OrderInv
  <2>2. ModeKept'
    BY <1>2 DEF OrderInv, ModeKept, vars, sharedVars, Running
  <2>3. UNCHANGED Control!vars
    BY <1>2 DEF vars, sharedVars, Control!vars, Waiting, Uncommitted
  <2> QED BY <2>1, <2>2, <2>3 DEF OrderInv
<1> QED BY <1>1, <1>2

\* The queue, its running task and the state shared through Redis and the
\* database keep their types, and a running task is at a step of its kind.
THEOREM PlaybackTypes == Spec => []TypeOK
<1>1. Init => PlayInv
  BY PlayInitInv
<1>2. PlayInv /\ [Next]_vars => PlayInv'
  BY PlayStepInv
<1>3. PlayInv => TypeOK
  BY PlayTypes
<1> QED BY <1>1, <1>2, <1>3, PTL DEF Spec

\* Every step of commitQueues, the debounce and the requests, for any number of
\* instances, is one PlaybackControl allows: an instance's commands take effect
\* one at a time and in order, each on the state its predecessor left.
THEOREM CommandsInOrder == Spec => InOrderSteps
<1>1. Init => OrderInv /\ Control!Init
  BY OrderInitInv, InitRefines
<1>2. OrderInv /\ [Next]_vars => OrderInv' /\ [Control!Next]_(Control!vars)
  BY OrderStepInv
<1> QED BY <1>1, <1>2, PTL DEF Spec, InOrderSteps

-----------------------------------------------------------------------------
(* The row and the cached state, on one instance.                          *)

\* The running task, or one that waits, will store the state it commits.
Storing == {"publish", "take", "commit", "persist"}
Underway(q, w) ==
    q # <<>> /\ (w.pc \in Storing \/ \E k \in 1..Len(q) : q[k].type \notin EpisodeTypes)

RowIsCache == db.time = cache.time /\ db.mode = cache.mode

\* What is about to be stored is what was committed; a row that differs from the
\* cache is about to be written, by a request still under way or by a task.
RowInv ==
    /\ Instances = {} => cache = NONE
    /\ Control!OneInstance /\ faults = 0 => \A i \in Instances :
         /\ worker[i].pc = "persist" =>
              cache # NONE /\ cache.time = Running(i).time /\ cache.mode = worker[i].mode
         /\ cache # NONE => RowIsCache \/ rest[i] # NONE \/ Underway(queue[i], worker[i])

LEMMA UnderwayGrows ==
  ASSUME NEW q \in Seq(Task), NEW w, NEW c \in Task, NEW d \in Task,
         Underway(q, w) \/ c.type \notin EpisodeTypes
  PROVE  Underway(Append(q, c), w) /\ Underway(q \o <<d, c>>, w)
<1>1. ASSUME NEW r \in Seq(Task), NEW e \in Task, Underway(r, w) \/ e.type \notin EpisodeTypes
      PROVE  Underway(Append(r, e), w) /\ Append(r, e) \in Seq(Task)
  <2>1. /\ Append(r, e) \in Seq(Task) /\ Append(r, e) # <<>>
        /\ Len(Append(r, e)) = Len(r) + 1
        /\ \A k \in 1..Len(r) : Append(r, e)[k] = r[k]
        /\ Append(r, e)[Len(r) + 1] = e
        /\ Len(r) \in Nat
    BY AppendProperties, LenProperties
  <2>2. CASE w.pc \in Storing
    BY <2>1, <2>2 DEF Underway
  <2>3. CASE e.type \notin EpisodeTypes
    <3>1. Len(r) + 1 \in 1..Len(Append(r, e))
      BY <2>1
    <3> QED BY <2>1, <2>3, <3>1 DEF Underway
  <2>4. CASE Underway(r, w) /\ w.pc \notin Storing
    <3>1. PICK k \in 1..Len(r) : r[k].type \notin EpisodeTypes
      BY <2>4 DEF Underway
    <3>2. k \in 1..Len(Append(r, e)) /\ Append(r, e)[k].type \notin EpisodeTypes
      BY <2>1, <3>1
    <3> QED BY <2>1, <3>2 DEF Underway
  <2> QED BY <1>1, <2>1, <2>2, <2>3, <2>4
<1>2. q \o <<d, c>> = Append(Append(q, d), c) /\ Append(q, d) \in Seq(Task)
  BY ThreeParts, Appended
<1>3. Underway(q, w) => Underway(Append(q, d), w)
  BY <1>1
<1> QED BY <1>1, <1>2, <1>3

LEMMA UnderwayGoesOn ==
  ASSUME NEW q \in Seq(Task), q # <<>>, NEW w, w.pc \notin Storing,
         Head(q).type \in EpisodeTypes, Underway(q, w)
  PROVE  Underway(Tail(q), Idle)
<1>1. PICK k \in 1..Len(q) : q[k].type \notin EpisodeTypes
  BY DEF Underway
<1>2. /\ Tail(q) \in Seq(Task) /\ Len(Tail(q)) = Len(q) - 1 /\ Head(q) = q[1]
      /\ \A n \in 1..Len(Tail(q)) : Tail(q)[n] = q[n + 1]
      /\ Len(q) \in Nat
  BY HeadTailProperties, LenProperties
<1>3. k # 1
  BY <1>1, <1>2
<1>4. k - 1 \in 1..Len(Tail(q)) /\ Tail(q)[k - 1] = q[k]
  BY <1>2, <1>3
<1>5. Tail(q) # <<>>
  BY <1>2, <1>4, EmptySeq
<1> QED BY <1>1, <1>4, <1>5 DEF Underway

LEMMA ArrivesUnderway ==
  ASSUME PlayInv, NEW i \in Instances, Arrives(i), Underway(queue[i], worker[i])
  PROVE  Underway(queue'[i], worker'[i])
<1>1. queue[i] \in Seq(Task) /\ pending[i] \in Times /\ Typed /\ worker' = worker
  BY DEF PlayInv, Typed, Arrives
<1>2. Command("SEEK", pending[i]) \in Task
  BY <1>1, TaskKinds
<1>3. ASSUME NEW c \in Task, FlushAndEnqueue(i, c)
      PROVE  Underway(queue'[i], worker'[i])
  <2>1. queue'[i] = IF pending[i] = 0 THEN Append(queue[i], c)
                    ELSE queue[i] \o <<Command("SEEK", pending[i]), c>>
    BY <1>3, Flushes
  <2>2. /\ Underway(Append(queue[i], c), worker[i])
        /\ Underway(queue[i] \o <<Command("SEEK", pending[i]), c>>, worker[i])
    BY <1>1, <1>2, UnderwayGrows
  <2> QED BY <1>1, <2>1, <2>2
<1>4. ASSUME NEW c \in Task, queue'[i] = Append(queue[i], c)
      PROVE  Underway(queue'[i], worker'[i])
  BY <1>1, <1>4, UnderwayGrows
<1>5. ASSUME NEW c \in Task, queue' = [queue EXCEPT ![i] = Append(@, c)]
      PROVE  Underway(queue'[i], worker'[i])
  BY <1>1, <1>4, <1>5 DEF Typed
<1> QED BY <1>1, <1>2, <1>3, <1>4, <1>5 DEF Arrives

\* Only a request writes the row outside the queue, and its command follows.
LEMMA ControllerRows ==
  ASSUME PlayInv, NEW i \in Instances, Controller(i) \/ SeekTimer(i) \/ Request(i)
  PROVE  \/ db' = db /\ rest'[i] = rest[i]
         \/ rest'[i] # NONE
         \/ Underway(queue'[i], worker'[i])
<1>1. Typed
  BY DEF PlayInv
<1>2. \A r \in Rests : r # NONE
  BY NoneAssumption DEF Rests, Times
<1>3. CASE Seek(i) \/ SeekTimer(i) \/ ChangeEpisode(i) \/ EndEpisode(i)
  BY <1>3 DEF Seek, SeekTimer, ChangeEpisode, EndEpisode, sharedVars
<1>4. ASSUME NEW type, Press(i, type)
      PROVE  db' = db /\ rest'[i] = rest[i]
  BY <1>4 DEF Press, sharedVars
<1>5. ASSUME NEW type \in {"PLAY", "PAUSE"}, NEW changes \in BOOLEAN, RestWrite(i, type, changes)
      PROVE  rest'[i] # NONE
  <2>1. sent' \in Times
    BY <1>1, <1>5, TimeKinds DEF RestWrite, Given, Typed
  <2>2. [type |-> type, time |-> sent', publish |-> changes] \in Rests
    BY <2>1 DEF Rests
  <2>3. rest'[i] = [type |-> type, time |-> sent', publish |-> changes]
    BY <1>1, <1>5 DEF RestWrite, Typed
  <2> QED BY <1>2, <2>2, <2>3
<1>6. CASE RestPublish(i)
  <2>1. rest[i] \in Rests
    BY <1>1, <1>6 DEF RestPublish, Typed
  <2>2. [rest[i] EXCEPT !.publish = FALSE] \in Rests
    BY <2>1 DEF Rests
  <2>3. rest'[i] = [rest[i] EXCEPT !.publish = FALSE]
    BY <1>1, <1>6 DEF RestPublish, Typed
  <2> QED BY <1>2, <2>2, <2>3
<1>7. CASE RestApply(i)
  <2> DEFINE c == Command(rest[i].type, rest[i].time)
  <2>1. rest[i] \in Rests
    BY <1>1, <1>7 DEF RestApply, Typed
  <2>2. c \in Task /\ c.type \notin EpisodeTypes
    BY <2>1, TaskKinds DEF Rests, Command, EpisodeTypes
  <2>3. FlushAndEnqueue(i, c) /\ worker' = worker
    BY <1>7 DEF RestApply
  <2> HIDE DEF c
  <2>4. queue[i] \in Seq(Task) /\ Command("SEEK", pending[i]) \in Task
    BY <1>1, TaskKinds DEF Typed
  <2>5. queue'[i] = IF pending[i] = 0 THEN Append(queue[i], c)
                    ELSE queue[i] \o <<Command("SEEK", pending[i]), c>>
    BY <2>2, <2>3, Flushes
  <2>6. /\ Underway(Append(queue[i], c), worker[i])
        /\ Underway(queue[i] \o <<Command("SEEK", pending[i]), c>>, worker[i])
    BY <2>2, <2>4, UnderwayGrows
  <2> QED BY <2>3, <2>5, <2>6
<1> QED BY <1>3, <1>4, <1>5, <1>6, <1>7 DEF Controller, Request

LEMMA RowStep ==
  ASSUME PlayInv, RowInv, NEW i \in Instances,
         \/ Controller(i) \/ SeekTimer(i) \/ Request(i) \/ Worker(i)
         \/ FailTask(i) \/ FailRest(i) \/ Restart(i)
  PROVE  RowInv'
<1> DEFINE q == queue[i]
           w == worker[i]
<1> DEFINE Stored == worker'[i].pc = "persist" =>
             /\ cache' # NONE /\ cache'.time = Head(queue'[i]).time
             /\ cache'.mode = worker'[i].mode
           Follows == cache' # NONE =>
             RowIsCache' \/ rest'[i] # NONE \/ Underway(queue'[i], worker'[i])
<1>1. Typed /\ Stage(q, w)
  BY DEF PlayInv
<1>2. CASE FailTask(i) \/ FailRest(i) \/ Restart(i)
  <2>1. faults' = faults + 1 /\ faults \in 0..MaxFaults
    BY <1>1, <1>2, FaultInv DEF Typed
  <2>2. faults' # 0
    BY <2>1, BoundsAssumption
  <2> QED BY <2>2 DEF RowInv
<1>3. CASE Controller(i) \/ SeekTimer(i) \/ Request(i) \/ Worker(i)
  <2> SUFFICES ASSUME Control!OneInstance, faults' = 0
               PROVE  Stored /\ Follows
    BY DEF RowInv, Control!OneInstance, Running
  <2>1. faults = 0
    BY <1>3, Arrivals, WorkerSteps DEF Arrives
  <2>2. /\ w.pc = "persist" => cache # NONE /\ cache.time = Running(i).time /\ cache.mode = w.mode
        /\ cache # NONE => RowIsCache \/ rest[i] # NONE \/ Underway(q, w)
    BY <2>1 DEF RowInv
  <2>3. CASE Controller(i) \/ SeekTimer(i) \/ Request(i)
    <3>1. Arrives(i) /\ worker' = worker /\ cache' = cache
      BY <2>3, Arrivals DEF Arrives
    <3>2. Stored
      <4>1. w.pc = "persist" => Head(queue'[i]) = Head(q)
        BY <1>1, <3>1, HeadStays DEF Stage
      <4> QED BY <2>2, <3>1, <4>1 DEF Running
    <3>3. Follows
      <4>1. Underway(q, w) => Underway(queue'[i], worker'[i])
        BY <3>1, ArrivesUnderway
      <4>2. \/ db' = db /\ rest'[i] = rest[i]
            \/ rest'[i] # NONE
            \/ Underway(queue'[i], worker'[i])
        BY <2>3, ControllerRows
      <4> QED BY <2>2, <3>1, <4>1, <4>2 DEF RowIsCache
    <3> QED BY <3>2, <3>3
  <2>4. ASSUME queue[i] # <<>>, cache' = cache, db' = db, rest' = rest, queue' = queue,
               w.pc \in Storing => worker'[i].pc \in Storing, worker'[i].pc # "persist"
        PROVE  Stored /\ Follows
    BY <2>2, <2>4 DEF RowIsCache, Underway
  <2>5. ASSUME Finish(i), queue[i] # <<>>, cache' = cache, db' = db, rest' = rest,
               w.pc \notin Storing, Running(i).type \in EpisodeTypes
        PROVE  Stored /\ Follows
    <3>1. queue'[i] = Tail(q) /\ worker'[i] = Idle
      BY <2>5, Finishes
    <3>2. Underway(q, w) => Underway(queue'[i], worker'[i])
      BY <1>1, <2>5, <3>1, UnderwayGoesOn DEF Typed, Running
    <3> QED BY <2>2, <2>5, <3>1, <3>2, Idles DEF RowIsCache
  <2>6. ASSUME NEW pc, NEW mode, Goto(i, pc, mode)
        PROVE  worker'[i].pc = pc /\ worker'[i].mode = mode
    BY <1>1, <2>6 DEF Goto, Typed
  <2>7. CASE Worker(i)
    <3>1. queue[i] # <<>>
      BY <2>7, WorkerInv
    <3>2. CASE Take(i)
      BY <2>4, <2>6, <3>1, <3>2 DEF Take, At, Storing
    <3>3. CASE Resolve(i)
      BY <2>4, <2>6, <3>1, <3>3 DEF Resolve, At, Storing, sharedVars
    <3>4. CASE ResolveRow(i)
      BY <2>4, <2>6, <3>1, <3>4 DEF ResolveRow, At, Storing, sharedVars
    <3>5. CASE PublishEpisode(i)
      BY <2>4, <2>6, <3>1, <3>5 DEF PublishEpisode, At, Storing
    <3>6. CASE LoadMedia(i)
      <4>1. w.pc \notin Storing /\ Running(i).type \in EpisodeTypes
        BY <3>6 DEF LoadMedia, At, Storing
      <4>2. cache' = cache /\ db' = db /\ rest' = rest
        BY <3>6 DEF LoadMedia, sharedVars
      <4>3. \/ Goto(i, "resolve", "paused") /\ queue' = queue
            \/ Goto(i, "write", "playing") /\ queue' = queue
            \/ Finish(i)
        BY <3>6 DEF LoadMedia
      <4> QED BY <2>4, <2>5, <2>6, <3>1, <4>1, <4>2, <4>3
    <3>7. CASE NothingNext(i)
      BY <2>5, <3>1, <3>7 DEF NothingNext, At, Storing, sharedVars, EpisodeTypes
    <3>8. CASE WriteEpisode(i)
      <4>1. w.pc = "write" /\ cache' = cache /\ rest' = rest
        BY <3>8 DEF WriteEpisode, At
      <4>2. CASE Running(i).type = "NEXT" /\ Finish(i) /\ UNCHANGED db
        BY <2>5, <3>1, <4>1, <4>2 DEF Storing, EpisodeTypes
      <4>3. CASE Goto(i, "publish", worker[i].mode) /\ queue' = queue
        BY <2>6, <3>1, <4>3 DEF Storing, Underway
      <4> QED BY <3>8, <4>2, <4>3 DEF WriteEpisode
    <3>9. CASE Commit(i)
      <4> DEFINE mode == IF Running(i).by = "server" THEN ModeOf(Running(i).type) ELSE w.mode
      <4>1. /\ queue' = queue
            /\ cache' = [time |-> Running(i).time, mode |-> mode, by |-> Running(i).by]
            /\ worker'[i].pc = "persist" /\ worker'[i].mode = mode
        BY <2>6, <3>9 DEF Commit
      <4>2. /\ Running(i).time \in Times /\ Running(i).by \in {"person", "server"}
            /\ mode \in Modes
        BY <3>1, HeadOfQueue, TaskKinds DEF Workers, ModeOf, Modes
      <4> HIDE DEF mode
      <4>3. cache' # NONE
        BY <4>1, <4>2, NoneAssumption DEF Times, Modes
      <4> QED BY <3>1, <4>1, <4>3 DEF Running, Storing, Underway
    <3>10. CASE Persist(i)
      <4>1. /\ cache' = cache /\ w.pc = "persist" /\ Finish(i)
            /\ db' = [db EXCEPT !.time = Running(i).time, !.mode = w.mode]
        BY <3>10 DEF Persist, At
      <4>2. worker'[i] = Idle
        BY <3>1, <4>1, Finishes
      <4>3. db'.time = Running(i).time /\ db'.mode = w.mode
        BY <1>1, <4>1 DEF Typed
      <4> QED BY <2>2, <4>1, <4>2, <4>3, Idles DEF RowIsCache
    <3> QED BY <2>7, <3>2, <3>3, <3>4, <3>5, <3>6, <3>7, <3>8, <3>9, <3>10 DEF Worker
  <2> QED BY <1>3, <2>3, <2>7
<1> QED BY <1>2, <1>3

\* On one instance, once all settled without a fault, the watch_rooms row holds
\* what the cache holds, although updatePlayback writes it outside the queue:
\* its command follows and writes both.
THEOREM RowEndsAsCache ==
  ASSUME Control!OneInstance
  PROVE  Spec => []RowFollowsCache
<1>1. Init => PlayInv /\ RowInv
  BY PlayInitInv DEF Init, Idle, RowInv
<1>2. PlayInv /\ RowInv /\ [Next]_vars => (PlayInv /\ RowInv)'
  <2>1. ASSUME PlayInv, RowInv, Next
        PROVE  RowInv'
    BY <2>1, RowStep DEF Next
  <2>2. RowInv /\ UNCHANGED vars => RowInv'
    BY DEF RowInv, RowIsCache, Running, vars, sharedVars
  <2> QED BY <2>1, <2>2, PlayStepInv
<1>3. RowInv => RowFollowsCache
  BY DEF RowInv, RowFollowsCache, Quiet, RowIsCache, Underway
<1> QED BY <1>1, <1>2, <1>3, PTL DEF Spec

-----------------------------------------------------------------------------
(* The room of viewers on top of the queue.                                *)

HandlerStates == [pc : HandlerPcs, sock : Sockets \cup {NONE}, time : Times]

\* Types; a handler in progress is that of a socket.
RoomTyped ==
    /\ home \in [Sockets -> Instances]
    /\ gone \subseteq Sockets /\ entry \subseteq Sockets /\ orphan \subseteq Sockets
    /\ buffering \subseteq Sockets
    /\ reports \in 0..MaxReports
    /\ handler \in [Handlers -> HandlerStates]
    /\ \A h \in Handlers :
         handler[h] = Free \/ (handler[h].pc # "free" /\ handler[h].sock \in Sockets)

\* Without a fault the hash of Redis has the viewers whose timer is armed.
Agree == faults = 0 => buffering = entry

RoomInv == PlayInv /\ RoomTyped /\ Agree

\* What the steps of the room do to the playback part, besides its own steps.
Marks == UNCHANGED <<sent, pending, queue, worker, rest, cache, media, db, faults>>
           /\ marked' \in BOOLEAN
Breaks == Fault /\ UNCHANGED <<sent, pending, queue, worker, rest, sharedVars>>
Orders(i, c) ==
    /\ UNCHANGED <<sent, worker, rest, sharedVars, faults>>
    /\ \/ FlushAndEnqueue(i, c)
       \/ /\ c.type = "PLAY" /\ pending' = pending
          /\ queue' = [queue EXCEPT ![i] = Append(@, c)]

LEMMA OrdersArrive ==
  ASSUME PlayInv, NEW i \in Instances, NEW c \in Task, c.by = "server", Orders(i, c)
  PROVE  PlayInv' /\ Arrives(i)
<1>1. /\ Typed /\ queue[i] \in Seq(Task) /\ pending[i] \in Times
      /\ worker[i] \in Workers /\ Stage(queue[i], worker[i])
  BY DEF PlayInv, Typed
<1>2. UNCHANGED <<sent, worker, rest, sharedVars, faults>>
  BY DEF Orders
<1>3. /\ queue' \in [Instances -> Seq(Task)] /\ pending' \in [Instances -> Times]
      /\ \A j \in Instances \ {i} : queue'[j] = queue[j] /\ pending'[j] = pending[j]
      /\ Stage(queue'[i], worker[i])
  <2>1. CASE FlushAndEnqueue(i, c)
    BY <2>1, Flushes
  <2>2. CASE pending' = pending /\ queue' = [queue EXCEPT ![i] = Append(@, c)]
    <3>1. Append(queue[i], c) \in Seq(Task) /\ Stage(Append(queue[i], c), worker[i])
      BY <1>1, JoinsQueue
    <3> QED BY <1>1, <2>2, <3>1 DEF Typed
  <2> QED BY <2>1, <2>2 DEF Orders
<1>4. Typed' /\ Only(i)
  BY <1>1, <1>2, <1>3 DEF Typed, Only, sharedVars
<1>5. PlayInv'
  BY <1>2, <1>3, <1>4, OneInstanceMoves
<1> QED BY <1>2, <1>4, <1>5 DEF Orders, Arrives, sharedVars

LEMMA BreaksRefine ==
  ASSUME PlayInv, Breaks, Instances # {}
  PROVE  PlayInv' /\ Control!Next
<1>1. faults' = faults + 1 /\ faults' \in 0..MaxFaults
  BY TimeKinds DEF Breaks, Fault, PlayInv, Typed
<1>2. PlayInv'
  BY <1>1 DEF Breaks, PlayInv, Typed, sharedVars
<1>3. PICK i \in Instances : TRUE
  OBVIOUS
<1> DEFINE W == [j \in Instances |-> Waiting(j)]
<1>4. W' = W /\ cache' = cache
  BY DEF Breaks, sharedVars, Waiting, Uncommitted
<1>5. W[i] \in Seq(Task)
  BY WaitingIs, Waiters DEF PlayInv, Typed
<1>6. W = [W EXCEPT ![i] = W[i]]
  OBVIOUS
<1> HIDE DEF W
<1>7. SubSeq(W[i], 1, Len(W[i])) = W[i] /\ Len(W[i]) \in Nat
  BY <1>5, Whole, LenProperties
<1>8. 0 \in 0..Len(W[i]) /\ 0 + 1 = 1
  BY <1>7
<1>9. W' = [W EXCEPT ![i] = SubSeq(W[i], 0 + 1, Len(W[i]))]
  BY <1>4, <1>6, <1>7, <1>8, Zenon
<1>10. Control!Lose(i)
  BY <1>1, <1>4, <1>8, <1>9 DEF Control!Lose, W
<1> QED BY <1>2, <1>10 DEF Control!Next

LEMMA MarksInv == PlayInv /\ Marks => PlayInv' /\ UNCHANGED Control!vars
BY DEF Marks, PlayInv, Typed, Control!vars, Waiting, Uncommitted

\* A handler comes with what it needs.
LEMMA HandlerKinds ==
  ASSUME RoomTyped, NEW h \in Handlers
  PROVE  /\ handler[h] \in HandlerStates
         /\ Free \in HandlerStates /\ Free.pc = "free"
         /\ handler[h].time \in Times
         /\ handler[h].pc # "free" => /\ handler[h].sock \in Sockets
                                      /\ home[handler[h].sock] \in Instances
BY TimeKinds DEF RoomTyped, HandlerStates, Free, HandlerPcs

LEMMA RoomSteps ==
  ASSUME PlayInv, RoomTyped, RoomNext
  PROVE  \/ [Next]_vars
         \/ Marks
         \/ Breaks /\ Instances # {}
         \/ \E i \in Instances, c \in Task : c.by = "server" /\ Orders(i, c)
<1>1. ASSUME NEW i \in Instances, QueueStep(i) \/ RoomRestart(i)
      PROVE  Next
  BY <1>1 DEF QueueStep, RoomRestart, Next
<1>2. ASSUME NEW type \in {"PLAY", "PAUSE"}, NEW time \in Times
      PROVE  /\ ServerCommand(type, time) \in Task
             /\ ServerCommand(type, time).by = "server"
             /\ ServerCommand(type, time).type = type
  BY <1>2, TaskKinds DEF ServerCommand, Command
<1>3. ASSUME NEW h \in Handlers, AutoPause(h)
      PROVE  \E i \in Instances, c \in Task : c.by = "server" /\ Orders(i, c)
  <2>1. home[handler[h].sock] \in Instances /\ handler[h].time \in Times
    BY <1>3, HandlerKinds DEF AutoPause
  <2> QED BY <1>2, <1>3, <2>1 DEF AutoPause, Orders
<1>4. ASSUME NEW h \in Handlers, AutoResume(h)
      PROVE  \E i \in Instances, c \in Task : c.by = "server" /\ Orders(i, c)
  <2>1. home[handler[h].sock] \in Instances /\ handler[h].time \in Times
    BY <1>4, HandlerKinds DEF AutoResume
  <2> QED BY <1>2, <1>4, <2>1 DEF AutoResume, Orders
<1>5. ASSUME NEW h \in Handlers, AutoMark(h) \/ Unmark(h)
      PROVE  Marks
  BY <1>5 DEF AutoMark, Unmark, Marks
<1>6. ASSUME NEW h \in Handlers, Arm(h) \/ Look(h) \/ List(h) \/ Check(h)
      PROVE  UNCHANGED vars
  BY <1>6 DEF Arm, Look, List, Check, QueueUnchanged
<1>7. ASSUME NEW h \in Handlers, FailHandler(h)
      PROVE  Breaks /\ Instances # {}
  <2>1. handler[h].sock \in Sockets
    BY <1>7 DEF RoomTyped, FailHandler
  <2>2. home[handler[h].sock] \in Instances
    BY <2>1 DEF RoomTyped
  <2> QED BY <1>7, <2>2 DEF FailHandler, Breaks
<1>8. ASSUME NEW s \in Sockets, Viewer(s) \/ Timer(s)
      PROVE  UNCHANGED vars
  BY <1>8 DEF Viewer, Timer, Report, ReportDone, Disconnect, Timeout, OrphanTimeout, Stale,
              Stop, QueueUnchanged
<1> QED BY <1>1, <1>3, <1>4, <1>5, <1>6, <1>7, <1>8 DEF RoomNext, HandlerStep

\* A handler that goes on or ends leaves the handlers what they are.
LEMMA HandlersMove ==
  ASSUME RoomTyped, NEW h \in Handlers, NEW x,
         x = Free \/ (x \in HandlerStates /\ x.pc # "free" /\ x.sock \in Sockets),
         handler' = [handler EXCEPT ![h] = x]
  PROVE  /\ handler' \in [Handlers -> HandlerStates]
         /\ \A g \in Handlers :
              handler'[g] = Free \/ (handler'[g].pc # "free" /\ handler'[g].sock \in Sockets)
BY HandlerKinds DEF RoomTyped

LEMMA RoomTypedStep ==
  ASSUME PlayInv, RoomTyped, Agree, RoomNext
  PROVE  RoomTyped' /\ Agree'
<1> DEFINE Handled ==
             /\ handler' \in [Handlers -> HandlerStates]
             /\ \A g \in Handlers :
                  handler'[g] = Free \/ (handler'[g].pc # "free" /\ handler'[g].sock \in Sockets)
<1>1. ASSUME NEW h \in Handlers, handler[h].pc # "free", NEW pc \in HandlerPcs \ {"free"}, Step(h, pc)
      PROVE  Handled
  <2>1. handler[h] \in HandlerStates /\ handler[h].sock \in Sockets
    BY <1>1, HandlerKinds
  <2>2. /\ [handler[h] EXCEPT !.pc = pc] \in HandlerStates
        /\ [handler[h] EXCEPT !.pc = pc].pc = pc
        /\ [handler[h] EXCEPT !.pc = pc].sock = handler[h].sock
    BY <2>1 DEF HandlerStates
  <2> QED BY <1>1, <2>1, <2>2, HandlersMove DEF Step
<1>2. ASSUME NEW h \in Handlers, Done(h)
      PROVE  Handled
  BY <1>2, HandlersMove DEF Done
<1>3. ASSUME NEW h \in Handlers, NEW s \in Sockets, NEW pc \in HandlerPcs \ {"free"}, Start(h, s, pc)
      PROVE  Handled
  <2>1. /\ [Free EXCEPT !.pc = pc, !.sock = s] \in HandlerStates
        /\ [Free EXCEPT !.pc = pc, !.sock = s].pc = pc
        /\ [Free EXCEPT !.pc = pc, !.sock = s].sock = s
    BY TimeKinds DEF Free, HandlerStates
  <2> QED BY <1>3, <2>1, HandlersMove DEF Start
<1>4. ASSUME NEW h \in Handlers, handler[h].pc # "free", NEW pc \in HandlerPcs \ {"free"},
             NEW time \in Times,
             handler' = [handler EXCEPT ![h] = [@ EXCEPT !.pc = pc, !.time = time]]
      PROVE  Handled
  <2>1. handler[h] \in HandlerStates /\ handler[h].sock \in Sockets
    BY <1>4, HandlerKinds
  <2> DEFINE x == [handler[h] EXCEPT !.pc = pc, !.time = time]
  <2>2. x \in HandlerStates /\ x.pc = pc /\ x.sock = handler[h].sock
    BY <2>1 DEF HandlerStates
  <2>3. handler' = [handler EXCEPT ![h] = x]
    BY <1>4
  <2> HIDE DEF x
  <2> QED BY <1>4, <2>1, <2>2, <2>3, HandlersMove
<1>5. {"arm", "look", "mark", "pause", "list", "unmark", "check", "resume"} = HandlerPcs \ {"free"}
  BY DEF HandlerPcs
<1>6. cache # NONE => cache.time \in Times
  BY DEF PlayInv, Typed, Caches
<1>7. ASSUME Handled, UNCHANGED <<home, gone, entry, orphan, buffering, reports>>,
             faults' = faults \/ faults' # 0
      PROVE  RoomTyped' /\ Agree'
  BY <1>7 DEF RoomTyped, Agree
<1>8. ASSUME NEW i \in Instances, QueueStep(i)
      PROVE  RoomTyped' /\ Agree'
  <2>1. faults' = faults \/ faults' # 0
    <3>1. CASE Controller(i) \/ SeekTimer(i) \/ Request(i) \/ Worker(i)
      BY <3>1, Arrivals, WorkerSteps DEF Arrives
    <3>2. CASE FailTask(i) \/ FailRest(i)
      <4>1. faults' = faults + 1 /\ faults \in 0..MaxFaults
        BY <3>2, FaultInv DEF PlayInv, Typed
      <4> QED BY <4>1, BoundsAssumption
    <3> QED BY <1>8, <3>1, <3>2 DEF QueueStep
  <2> QED BY <1>8, <2>1 DEF QueueStep, bufferingVars, RoomTyped, Agree
<1>9. ASSUME NEW i \in Instances, RoomRestart(i)
      PROVE  RoomTyped' /\ Agree'
  <2>1. faults' # 0
    <3>1. faults' = faults + 1 /\ faults \in 0..MaxFaults
      BY <1>9 DEF RoomRestart, Restart, Fault, PlayInv, Typed
    <3> QED BY <3>1, BoundsAssumption
  <2>2. handler' \in [Handlers -> HandlerStates]
    BY <1>9, HandlerKinds DEF RoomRestart, RoomTyped
  <2> QED BY <1>9, <2>1, <2>2 DEF RoomRestart, RoomTyped, Agree
<1>10. ASSUME NEW h \in Handlers, HandlerStep(h)
       PROVE  RoomTyped' /\ Agree'
  <2>1. CASE Arm(h)
    <3>1. handler[h].pc = "arm" /\ handler[h].sock \in Sockets
      BY <2>1, HandlerKinds DEF Arm
    <3>2. Handled
      BY <1>1, <1>5, <2>1, <3>1 DEF Arm
    <3>3. faults' = faults
      BY <2>1 DEF Arm, QueueUnchanged, vars
    <3> QED BY <2>1, <3>1, <3>2, <3>3 DEF Arm, RoomTyped, Agree
  <2>2. CASE Look(h)
    <3>1. handler[h].pc = "look" /\ faults' = faults
      BY <2>2 DEF Look, QueueUnchanged, vars
    <3>2. Handled
      BY <1>2, <1>4, <1>5, <1>6, <2>2, <3>1 DEF Look
    <3> QED BY <1>7, <2>2, <3>1, <3>2 DEF Look
  <2>3. CASE AutoMark(h)
    <3>1. Handled
      BY <1>1, <1>2, <1>5, <2>3 DEF AutoMark
    <3> QED BY <1>7, <2>3, <3>1 DEF AutoMark
  <2>4. CASE AutoPause(h) \/ AutoResume(h)
    <3>1. Handled
      BY <1>2, <2>4 DEF AutoPause, AutoResume
    <3> QED BY <1>7, <2>4, <3>1 DEF AutoPause, AutoResume
  <2>5. CASE List(h)
    <3>1. Handled
      BY <1>1, <1>2, <1>5, <2>5 DEF List
    <3> QED BY <1>7, <2>5, <3>1 DEF List, QueueUnchanged, vars
  <2>6. CASE Unmark(h)
    <3>1. Handled
      BY <1>1, <1>2, <1>5, <2>6 DEF Unmark
    <3> QED BY <1>7, <2>6, <3>1 DEF Unmark
  <2>7. CASE Check(h)
    <3>1. handler[h].pc = "check" /\ faults' = faults
      BY <2>7 DEF Check, QueueUnchanged, vars
    <3>2. Handled
      BY <1>2, <1>4, <1>5, <1>6, <2>7, <3>1 DEF Check
    <3> QED BY <1>7, <2>7, <3>1, <3>2 DEF Check
  <2> QED BY <1>10, <2>1, <2>2, <2>3, <2>4, <2>5, <2>6, <2>7 DEF HandlerStep
<1>11. ASSUME NEW h \in Handlers, FailHandler(h)
       PROVE  RoomTyped' /\ Agree'
  <2>1. faults' # 0
    <3>1. faults' = faults + 1 /\ faults \in 0..MaxFaults
      BY <1>11 DEF FailHandler, Fault, PlayInv, Typed
    <3> QED BY <3>1, BoundsAssumption
  <2> QED BY <1>2, <1>7, <1>11, <2>1 DEF FailHandler
<1>12. ASSUME NEW s \in Sockets, Viewer(s) \/ Timer(s)
       PROVE  RoomTyped' /\ Agree'
  <2>1. faults' = faults
    BY <1>12 DEF Viewer, Timer, Report, ReportDone, Disconnect, Timeout, OrphanTimeout, Stale,
                 Stop, QueueUnchanged, vars
  <2>2. ASSUME NEW h \in Handlers, Stop(s, h)
        PROVE  Handled /\ entry' = entry \ {s} /\ buffering' = buffering \ {s}
    BY <1>3, <1>5, <2>2 DEF Stop
  <2>3. ASSUME Handled, reports' = reports, home' = home, gone' \subseteq Sockets,
               orphan' \subseteq Sockets,
               \/ entry' = entry /\ buffering' = buffering
               \/ entry' = entry \ {s} /\ buffering' = buffering \ {s}
        PROVE  RoomTyped' /\ Agree'
    BY <2>1, <2>3 DEF RoomTyped, Agree
  <2>4. Handled \/ handler' # handler
    BY DEF RoomTyped
  <2>5. ASSUME NEW h \in Handlers, Report(s, h)
        PROVE  RoomTyped' /\ Agree'
    <3>1. Handled
      BY <1>3, <1>5, <2>5 DEF Report
    <3>2. reports' \in 0..MaxReports
      BY <2>5, ReportsAssumption DEF Report, RoomTyped
    <3> QED BY <2>1, <2>5, <3>1, <3>2 DEF Report, RoomTyped, Agree
  <2>6. ASSUME NEW h \in Handlers, ReportDone(s, h) \/ Timeout(s, h)
        PROVE  RoomTyped' /\ Agree'
    BY <2>2, <2>3, <2>6 DEF ReportDone, Timeout, RoomTyped
  <2>7. ASSUME NEW h \in Handlers, OrphanTimeout(s, h) \/ Disconnect(s, h)
        PROVE  RoomTyped' /\ Agree'
    <3>1. reports' = reports /\ home' = home /\ gone' \subseteq Sockets /\ orphan' \subseteq Sockets
      BY <2>7 DEF OrphanTimeout, Disconnect, RoomTyped
    <3>2. Stop(s, h) \/ UNCHANGED <<entry, buffering, handler>>
      BY <2>7 DEF OrphanTimeout, Disconnect
    <3> HIDE DEF Handled
    <3> QED BY <2>2, <2>3, <2>4, <3>1, <3>2
  <2>8. CASE Stale(s)
    <3>1. RoomTyped'
      BY <2>8 DEF Stale, RoomTyped
    <3>2. Agree'
      BY <2>1, <2>8 DEF Stale, Agree
    <3> QED BY <3>1, <3>2
  <2> QED BY <1>12, <2>5, <2>6, <2>7, <2>8 DEF Viewer, Timer
<1> QED BY <1>8, <1>9, <1>10, <1>11, <1>12 DEF RoomNext

LEMMA RoomInitInv == RoomInit => RoomInv /\ ModeKept
<1> SUFFICES ASSUME RoomInit PROVE RoomInv /\ ModeKept
  OBVIOUS
<1>1. PlayInv /\ ModeKept
  BY OrderInitInv DEF RoomInit, OrderInv
<1>2. 0 \in 0..MaxReports /\ Free \in HandlerStates
  BY ReportsAssumption, TimeKinds DEF Free, HandlerStates, HandlerPcs
<1>3. RoomTyped /\ Agree
  BY <1>2 DEF RoomInit, RoomTyped, Agree
<1> QED BY <1>1, <1>3 DEF RoomInv

LEMMA RoomStepInv == RoomInv /\ [RoomNext]_roomVars => RoomInv'
<1>1. ASSUME RoomInv, RoomNext
      PROVE  RoomInv'
  <2>1. PlayInv'
    BY <1>1, RoomSteps, PlayStepInv, MarksInv, BreaksRefine, OrdersArrive DEF RoomInv
  <2> QED BY <1>1, <2>1, RoomTypedStep DEF RoomInv
<1>2. RoomInv /\ UNCHANGED roomVars => RoomInv'
  <2> SUFFICES ASSUME RoomInv, UNCHANGED roomVars
               PROVE  RoomInv'
    OBVIOUS
  <2>1. PlayInv'
    BY PlayStutters DEF RoomInv, roomVars
  <2>2. RoomTyped' /\ Agree'
    BY DEF RoomInv, RoomTyped, Agree, roomVars, bufferingVars, vars
  <2> QED BY <2>1, <2>2 DEF RoomInv
<1> QED BY <1>1, <1>2

\* Viewers who buffer do not disturb the order of commands.
LEMMA RoomRefines ==
  ASSUME RoomInv, ModeKept, [RoomNext]_roomVars
  PROVE  ModeKept' /\ [Control!Next]_(Control!vars)
<1>1. CASE [Next]_vars
  BY <1>1, OrderStepInv DEF RoomInv, OrderInv
<1>2. CASE Marks
  <2>1. ModeKept'
    BY <1>2 DEF Marks, ModeKept, Running
  <2> QED BY <1>2, <2>1, MarksInv DEF RoomInv
<1>3. CASE Breaks /\ Instances # {}
  <2>1. ModeKept'
    BY <1>3 DEF Breaks, ModeKept, Running, sharedVars
  <2> QED BY <1>3, <2>1, BreaksRefine DEF RoomInv
<1>4. ASSUME NEW i \in Instances, NEW c \in Task, c.by = "server", Orders(i, c)
      PROVE  ModeKept' /\ [Control!Next]_(Control!vars)
  <2>1. Arrives(i)
    BY <1>4, OrdersArrive DEF RoomInv
  <2> QED BY <2>1, ModeStep, ArrivalsRefine DEF RoomInv
<1>5. CASE UNCHANGED roomVars
  BY <1>1, <1>5 DEF roomVars
<1> QED BY <1>1, <1>2, <1>3, <1>4, <1>5, RoomSteps DEF RoomInv

\* The handlers of startBuffering and stopBuffering, their timers and the
\* connections of a room keep their types next to those of the queue.
THEOREM WaitingRoomTypes == RoomSpec => []RoomTypeOK
<1>1. RoomInit => RoomInv
  BY RoomInitInv
<1>2. RoomInv /\ [RoomNext]_roomVars => RoomInv'
  BY RoomStepInv
<1>3. RoomInv => RoomTypeOK
  BY PlayTypes DEF RoomInv, RoomTyped, RoomTypeOK, HandlerStates
<1> QED BY <1>1, <1>2, <1>3, PTL DEF RoomSpec

\* Without a fault the buffering hash of Redis names exactly the viewers whose
\* timer is armed on their instance, however the handlers interleave.
THEOREM WaitersHaveTimers == RoomSpec => []WaitersAgree
<1>1. RoomInit => RoomInv
  BY RoomInitInv
<1>2. RoomInv /\ [RoomNext]_roomVars => RoomInv'
  BY RoomStepInv
<1>3. RoomInv => WaitersAgree
  BY DEF RoomInv, Agree, WaitersAgree
<1> QED BY <1>1, <1>2, <1>3, PTL DEF RoomSpec

\* The server's own pauses and resumes, given while viewers buffer, keep the
\* order of commands: a room that waits implements PlaybackControl as well.
THEOREM WaitingKeepsOrder == RoomSpec => InOrderSteps
<1>1. RoomInit => (RoomInv /\ ModeKept) /\ Control!Init
  BY RoomInitInv, InitRefines DEF RoomInit
<1>2. (RoomInv /\ ModeKept) /\ [RoomNext]_roomVars
        => (RoomInv /\ ModeKept)' /\ [Control!Next]_(Control!vars)
  BY RoomStepInv, RoomRefines
<1> QED BY <1>1, <1>2, PTL DEF RoomSpec, InOrderSteps

-----------------------------------------------------------------------------
(* The auto-pause mark, on one instance.                                   *)

\* A command of the server is yet to be committed.
ServerAhead(q, w) == \E k \in 1..Len(q) : q[k].by = "server" /\ (k = 1 => w.pc # "persist")

\* A person's command has cleared the mark and is yet to be committed.
Taken(q, w) == w.pc = "commit" \/ (w.pc \in {"resolve", "resolveRow"} /\ Head(q).type = "SEEK")

\* A marked room is about to be paused by the server, or follows a command of the
\* server that nobody has taken over from.
Pausing == \E h \in Handlers : handler[h].pc = "pause"
Commanding == \E i \in Instances : ServerAhead(queue[i], worker[i])
Following ==
    /\ cache # NONE /\ cache.by = "server"
    /\ \A i \in Instances : ~Taken(queue[i], worker[i])
MarkInv == Control!OneInstance /\ faults = 0 /\ marked => Pausing \/ Commanding \/ Following

LEMMA AheadAppends ==
  ASSUME NEW r \in Seq(Task), NEW w, Stage(r, w), NEW e \in Task
  PROVE  /\ ServerAhead(r, w) \/ e.by = "server" => ServerAhead(Append(r, e), w)
         /\ Taken(r, w) <=> Taken(Append(r, e), w)
         /\ Append(r, e) \in Seq(Task) /\ Stage(Append(r, e), w)
<1>1. /\ Append(r, e) \in Seq(Task)
      /\ Len(Append(r, e)) = Len(r) + 1
      /\ \A k \in 1..Len(r) : Append(r, e)[k] = r[k]
      /\ Append(r, e)[Len(r) + 1] = e
  BY AppendProperties
<1>2. Len(r) \in Nat /\ (Len(r) = 0 => w.pc # "persist")
  BY LenProperties, EmptySeq DEF Stage
<1>3. ServerAhead(r, w) => ServerAhead(Append(r, e), w)
  BY <1>1, <1>2 DEF ServerAhead
<1>4. e.by = "server" => ServerAhead(Append(r, e), w)
  <2>1. Len(r) + 1 \in 1..Len(Append(r, e)) /\ (Len(r) + 1 = 1 => w.pc # "persist")
    BY <1>1, <1>2
  <2> QED BY <1>1, <2>1 DEF ServerAhead
<1>5. Taken(r, w) <=> Taken(Append(r, e), w)
  BY HeadTailAppend DEF Taken, Stage
<1>6. Stage(Append(r, e), w)
  BY JoinsQueue
<1> QED BY <1>1, <1>3, <1>4, <1>5, <1>6

LEMMA AheadGrows ==
  ASSUME NEW q \in Seq(Task), NEW w, Stage(q, w), NEW c \in Task, NEW d \in Task
  PROVE  /\ ServerAhead(q, w) \/ c.by = "server" => ServerAhead(q \o <<d, c>>, w)
         /\ Taken(q, w) <=> Taken(q \o <<d, c>>, w)
<1>1. /\ ServerAhead(q, w) => ServerAhead(Append(q, d), w)
      /\ Taken(q, w) <=> Taken(Append(q, d), w)
      /\ Append(q, d) \in Seq(Task) /\ Stage(Append(q, d), w)
  BY AheadAppends
<1>2. /\ ServerAhead(Append(q, d), w) \/ c.by = "server" => ServerAhead(Append(Append(q, d), c), w)
      /\ Taken(Append(q, d), w) <=> Taken(Append(Append(q, d), c), w)
  BY <1>1, AheadAppends
<1>3. q \o <<d, c>> = Append(Append(q, d), c)
  BY ThreeParts
<1> QED BY <1>1, <1>2, <1>3

\* A task ends: the commands of the server behind it stay ahead.
LEMMA AheadGoesOn ==
  ASSUME NEW q \in Seq(Task), q # <<>>, NEW w, ServerAhead(q, w),
         w.pc = "persist" \/ Head(q).by # "server"
  PROVE  ServerAhead(Tail(q), Idle)
<1>1. PICK k \in 1..Len(q) : q[k].by = "server" /\ (k = 1 => w.pc # "persist")
  BY DEF ServerAhead
<1>2. /\ Head(q) = q[1] /\ Tail(q) \in Seq(Task) /\ Len(Tail(q)) = Len(q) - 1
      /\ \A j \in 1..Len(Tail(q)) : Tail(q)[j] = q[j + 1]
      /\ Len(q) \in Nat
  BY HeadTailProperties, LenProperties
<1>3. k # 1
  BY <1>1, <1>2
<1>4. k - 1 \in 1..Len(Tail(q)) /\ Tail(q)[k - 1] = q[k]
  BY <1>2, <1>3
<1> QED BY <1>1, <1>4, Idles DEF ServerAhead

LEMMA ArrivesMark ==
  ASSUME PlayInv, NEW i \in Instances, Arrives(i)
  PROVE  /\ ServerAhead(queue[i], worker[i]) => ServerAhead(queue'[i], worker'[i])
         /\ Taken(queue'[i], worker'[i]) => Taken(queue[i], worker[i])
<1>1. /\ queue[i] \in Seq(Task) /\ pending[i] \in Times /\ Typed /\ worker' = worker
      /\ worker[i] \in Workers /\ Stage(queue[i], worker[i])
  BY DEF PlayInv, Typed, Arrives
<1>2. Command("SEEK", pending[i]) \in Task
  BY <1>1, TaskKinds
<1> DEFINE Fine == /\ ServerAhead(queue[i], worker[i]) => ServerAhead(queue'[i], worker'[i])
                   /\ Taken(queue'[i], worker'[i]) => Taken(queue[i], worker[i])
<1>3. ASSUME NEW c \in Task, FlushAndEnqueue(i, c)
      PROVE  Fine
  <2>1. queue'[i] = IF pending[i] = 0 THEN Append(queue[i], c)
                    ELSE queue[i] \o <<Command("SEEK", pending[i]), c>>
    BY <1>3, Flushes
  <2> QED BY <1>1, <1>2, <2>1, AheadAppends, AheadGrows
<1>4. ASSUME NEW c \in Task, queue'[i] = Append(queue[i], c)
      PROVE  Fine
  BY <1>1, <1>4, AheadAppends
<1>5. ASSUME NEW c \in Task, queue' = [queue EXCEPT ![i] = Append(@, c)]
      PROVE  Fine
  BY <1>1, <1>4, <1>5 DEF Typed
<1> QED BY <1>1, <1>2, <1>3, <1>4, <1>5 DEF Arrives

LEMMA WorkerMarks ==
  ASSUME PlayInv, Control!OneInstance, NEW i \in Instances, Worker(i), marked',
         Commanding \/ Following
  PROVE  Commanding' \/ Following'
<1> DEFINE q == queue[i]
           w == worker[i]
           F == cache # NONE /\ cache.by = "server" /\ ~Taken(q, w)
           G == cache' # NONE /\ cache'.by = "server" /\ ~Taken(queue'[i], worker'[i])
<1> SUFFICES ASSUME ServerAhead(q, w) \/ F
             PROVE  ServerAhead(queue'[i], worker'[i]) \/ G
  BY DEF Commanding, Following, Control!OneInstance
<1>1. /\ q # <<>> /\ Typed /\ q \in Seq(Task) /\ Head(q) \in Task /\ w \in Workers
      /\ Stage(q, w) /\ Running(i) = Head(q)
  BY WorkerInv, HeadOfQueue DEF PlayInv, Running
<1>2. /\ Head(q).type \in EpisodeTypes => Head(q).by # "server"
      /\ Head(q).by \in {"person", "server"} /\ Head(q).time \in Times
      /\ ModeOf(Head(q).type) \in Modes
  BY <1>1, TaskKinds DEF EpisodeTypes, ModeOf, Modes
<1>3. ASSUME queue' = queue, cache' = cache, worker'[i].pc # "persist",
             Taken(q, worker'[i]) => Taken(q, w)
      PROVE  ServerAhead(queue'[i], worker'[i]) \/ G
  BY <1>3 DEF ServerAhead
<1>4. ASSUME Finish(i), cache' = cache, w.pc = "persist" \/ Head(q).type \in EpisodeTypes
      PROVE  ServerAhead(queue'[i], worker'[i]) \/ G
  <2>1. queue'[i] = Tail(q) /\ worker'[i] = Idle
    BY <1>1, <1>4, Finishes
  <2>2. ~Taken(queue'[i], worker'[i])
    BY <2>1, Idles DEF Taken
  <2>3. ServerAhead(q, w) => ServerAhead(Tail(q), Idle)
    BY <1>1, <1>2, <1>4, AheadGoesOn
  <2> QED BY <1>4, <2>1, <2>2, <2>3
<1>5. ASSUME NEW pc, NEW mode, Goto(i, pc, mode)
      PROVE  worker'[i].pc = pc
  BY <1>1, <1>5 DEF Goto, Typed
<1> HIDE DEF F, G
<1>6. CASE Take(i)
  BY <1>6 DEF Take
<1>7. CASE Resolve(i)
  <2>1. queue' = queue /\ cache' = cache /\ w.pc = "resolve"
    BY <1>7 DEF Resolve, At, sharedVars
  <2>2. worker'[i].pc \in {"resolveRow", "commit", "write"}
        /\ (worker'[i].pc = "commit" => Head(q).type = "SEEK")
    BY <1>1, <1>5, <1>7 DEF Resolve
  <2> QED BY <1>3, <2>1, <2>2 DEF Taken
<1>8. CASE ResolveRow(i)
  <2>1. queue' = queue /\ cache' = cache /\ w.pc = "resolveRow"
    BY <1>8 DEF ResolveRow, At, sharedVars
  <2>2. worker'[i].pc \in {"commit", "write"}
        /\ (worker'[i].pc = "commit" => Head(q).type = "SEEK")
    BY <1>1, <1>5, <1>8 DEF ResolveRow
  <2> QED BY <1>3, <2>1, <2>2 DEF Taken
<1>9. CASE LoadMedia(i)
  <2>1. cache' = cache /\ Head(q).type \in EpisodeTypes
    BY <1>1, <1>9 DEF LoadMedia, sharedVars
  <2>2. \/ worker'[i].pc \in {"resolve", "write"} /\ queue' = queue
        \/ Finish(i)
    BY <1>5, <1>9 DEF LoadMedia
  <2> QED BY <1>3, <1>4, <2>1, <2>2 DEF Taken, EpisodeTypes
<1>10. CASE NothingNext(i)
  BY <1>1, <1>4, <1>10 DEF NothingNext, sharedVars, EpisodeTypes
<1>11. CASE WriteEpisode(i)
  <2>1. cache' = cache /\ Head(q).type \in EpisodeTypes
    BY <1>1, <1>11 DEF WriteEpisode, At, Stage
  <2>2. \/ worker'[i].pc = "publish" /\ queue' = queue
        \/ Finish(i)
    BY <1>5, <1>11 DEF WriteEpisode
  <2> QED BY <1>3, <1>4, <2>1, <2>2 DEF Taken
<1>12. CASE PublishEpisode(i)
  <2>1. cache' = cache /\ queue' = queue /\ worker'[i].pc = "take"
    BY <1>5, <1>12 DEF PublishEpisode
  <2> QED BY <1>3, <2>1 DEF Taken
<1>13. CASE Persist(i)
  BY <1>4, <1>13 DEF Persist, At
<1>14. CASE Commit(i)
  <2> DEFINE mode == IF Running(i).by = "server" THEN ModeOf(Running(i).type) ELSE w.mode
  <2>1. /\ queue' = queue /\ worker'[i].pc = "persist"
        /\ cache' = [time |-> Head(q).time, mode |-> mode, by |-> Head(q).by]
    BY <1>1, <1>5, <1>14 DEF Commit
  <2>2. mode \in Modes
    BY <1>1, <1>2 DEF Workers
  <2> HIDE DEF mode
  <2>3. cache' # NONE /\ cache'.by = Head(q).by
    BY <1>2, <2>1, <2>2, NoneAssumption DEF Times, Modes
  <2>4. CASE Head(q).by = "server"
    BY <2>1, <2>3, <2>4 DEF G, Taken
  <2>5. CASE Head(q).by # "server"
    <3>1. w.pc = "commit"
      BY <1>1, <1>14, <2>5 DEF Commit, At
    <3>2. ServerAhead(q, w)
      BY <3>1 DEF F, Taken
    <3>3. Head(q) = q[1]
      BY <1>1, HeadTailProperties
    <3> QED BY <2>1, <2>5, <3>2, <3>3 DEF ServerAhead
  <2> QED BY <2>4, <2>5
<1> QED BY <1>6, <1>7, <1>8, <1>9, <1>10, <1>11, <1>12, <1>13, <1>14 DEF Worker

\* Arrivals do not change who is followed.
LEMMA ArrivesMarks ==
  ASSUME PlayInv, NEW i \in Instances, Arrives(i), Commanding \/ Following
  PROVE  Commanding' \/ Following'
<1>1. /\ cache' = cache /\ Only(i)
      /\ \A j \in Instances : /\ ServerAhead(queue[j], worker[j]) => ServerAhead(queue'[j], worker'[j])
                              /\ Taken(queue'[j], worker'[j]) => Taken(queue[j], worker[j])
  BY ArrivesMark DEF Arrives, Only
<1>2. Commanding => Commanding'
  BY <1>1 DEF Commanding
<1>3. Following => Following'
  BY <1>1 DEF Following
<1> QED BY <1>2, <1>3

LEMMA MarkStep ==
  ASSUME RoomInv, MarkInv, RoomNext
  PROVE  MarkInv'
<1> SUFFICES ASSUME Control!OneInstance, faults' = 0, marked'
             PROVE  Pausing' \/ Commanding' \/ Following'
  BY DEF MarkInv, Control!OneInstance
<1>1. PlayInv /\ RoomTyped /\ Typed /\ faults \in 0..MaxFaults
  BY DEF RoomInv, PlayInv, Typed
<1>2. faults + 1 # 0 /\ \A n : n = faults + 1 => n # 0
  BY <1>1, BoundsAssumption
<1>3. ASSUME UNCHANGED <<queue, worker, cache>>
      PROVE  Commanding \/ Following => Commanding' \/ Following'
  BY <1>3 DEF Commanding, Following
<1>4. ASSUME faults = 0, marked
      PROVE  Pausing \/ Commanding \/ Following
  BY <1>4 DEF MarkInv
<1>5. ASSUME UNCHANGED vars, \A h \in Handlers : handler[h].pc = "pause" => handler'[h].pc = "pause"
      PROVE  Pausing' \/ Commanding' \/ Following'
  <2>1. faults = 0 /\ marked /\ UNCHANGED <<queue, worker, cache>>
    BY <1>5 DEF vars, sharedVars
  <2>2. Pausing => Pausing'
    BY <1>5 DEF Pausing
  <2> QED BY <1>3, <1>4, <2>1, <2>2
<1>6. ASSUME NEW h \in Handlers, handler[h].pc # "pause", NEW x, handler' = [handler EXCEPT ![h] = x]
      PROVE  \A g \in Handlers : handler[g].pc = "pause" => handler'[g].pc = "pause"
  BY <1>1, <1>6 DEF RoomTyped
<1>7. ASSUME NEW i \in Instances, QueueStep(i) \/ RoomRestart(i)
      PROVE  Pausing' \/ Commanding' \/ Following'
  <2>1. ~(FailTask(i) \/ FailRest(i) \/ Restart(i))
    BY <1>1, <1>2, FaultInv
  <2>2. Controller(i) \/ SeekTimer(i) \/ Request(i) \/ Worker(i)
    BY <1>7, <2>1 DEF QueueStep, RoomRestart
  <2>3. Pausing => Pausing'
    BY <1>7, <2>1 DEF QueueStep, RoomRestart, bufferingVars, Pausing
  <2>4. CASE Controller(i) \/ SeekTimer(i) \/ Request(i)
    <3>1. Arrives(i)
      BY <1>1, <2>4, Arrivals
    <3>2. marked' = marked
      BY <2>4 DEF Controller, SeekTimer, Request, Seek, Press, ChangeEpisode, EndEpisode,
                  RestWrite, RestPublish, RestApply, sharedVars
    <3>3. faults' = faults
      BY <3>1 DEF Arrives
    <3> QED BY <1>1, <1>4, <2>3, <3>1, <3>2, <3>3, ArrivesMarks
  <2>5. CASE Worker(i)
    <3>1. faults' = faults
      BY <1>1, <2>5, WorkerSteps
    <3>2. marked
      BY <2>5 DEF Worker, Take, Resolve, ResolveRow, Commit, Persist, LoadMedia, NothingNext,
                  WriteEpisode, PublishEpisode, sharedVars
    <3> QED BY <1>1, <1>4, <2>3, <2>5, <3>1, <3>2, WorkerMarks
  <2> QED BY <2>2, <2>4, <2>5
<1>8. ASSUME NEW h \in Handlers, HandlerStep(h)
      PROVE  Pausing' \/ Commanding' \/ Following'
  <2>1. CASE Arm(h) \/ List(h)
    <3>1. UNCHANGED vars /\ handler[h].pc # "pause"
      BY <2>1 DEF Arm, List, QueueUnchanged
    <3>2. PICK x : handler' = [handler EXCEPT ![h] = x]
      BY <2>1 DEF Arm, List, Step, Done
    <3> QED BY <1>5, <1>6, <3>1, <3>2
  <2>2. CASE Look(h) \/ Check(h)
    <3>1. UNCHANGED vars /\ handler[h].pc # "pause"
      BY <2>2 DEF Look, Check, QueueUnchanged
    <3>2. PICK x : handler' = [handler EXCEPT ![h] = x]
      BY <2>2 DEF Look, Check, Done
    <3> QED BY <1>5, <1>6, <3>1, <3>2
  <2>3. CASE AutoMark(h)
    <3>1. UNCHANGED <<queue, worker, cache, faults>> /\ handler[h].pc = "mark"
      BY <2>3 DEF AutoMark
    <3>2. CASE marked
      <4>1. Pausing => Pausing'
        BY <1>6, <2>3, <3>1, <3>2 DEF AutoMark, Done, Pausing
      <4> QED BY <1>3, <1>4, <3>1, <3>2, <4>1
    <3>3. CASE ~marked
      <4>1. handler'[h].pc = "pause"
        BY <1>1, <2>3, <3>3 DEF AutoMark, Step, RoomTyped, HandlerStates
      <4> QED BY <4>1 DEF Pausing
    <3> QED BY <3>2, <3>3
  <2>4. CASE AutoPause(h)
    <3>1. home[handler[h].sock] \in Instances /\ handler[h].time \in Times
      BY <1>1, <2>4, HandlerKinds DEF AutoPause
    <3> DEFINE i == home[handler[h].sock]
               c == ServerCommand("PAUSE", handler[h].time)
    <3>2. c \in Task /\ c.by = "server"
      BY <3>1, TaskKinds DEF ServerCommand
    <3>3. FlushAndEnqueue(i, c) /\ worker' = worker
      BY <2>4 DEF AutoPause
    <3> HIDE DEF i, c
    <3>4. /\ queue[i] \in Seq(Task) /\ worker[i] \in Workers /\ Stage(queue[i], worker[i])
          /\ Command("SEEK", pending[i]) \in Task
      BY <1>1, <3>1, TaskKinds DEF PlayInv, Typed, i
    <3>5. queue'[i] = IF pending[i] = 0 THEN Append(queue[i], c)
                      ELSE queue[i] \o <<Command("SEEK", pending[i]), c>>
      BY <1>1, <3>1, <3>2, <3>3, Flushes DEF i
    <3>6. ServerAhead(queue'[i], worker'[i])
      BY <3>2, <3>3, <3>4, <3>5, AheadAppends, AheadGrows
    <3> QED BY <3>1, <3>6 DEF Commanding, i
  <2>5. CASE Unmark(h)
    BY <2>5 DEF Unmark
  <2>6. CASE AutoResume(h)
    <3>1. home[handler[h].sock] \in Instances /\ handler[h].time \in Times
      BY <1>1, <2>6, HandlerKinds DEF AutoResume
    <3> DEFINE i == home[handler[h].sock]
               c == ServerCommand("PLAY", handler[h].time)
    <3>2. c \in Task /\ c.by = "server"
      BY <3>1, TaskKinds DEF ServerCommand
    <3>3. queue' = [queue EXCEPT ![i] = Append(@, c)] /\ worker' = worker
      BY <2>6 DEF AutoResume
    <3> HIDE DEF i, c
    <3>4. /\ queue[i] \in Seq(Task) /\ worker[i] \in Workers /\ Stage(queue[i], worker[i])
      BY <1>1, <3>1, TaskKinds DEF PlayInv, Typed, i
    <3>5. queue'[i] = Append(queue[i], c)
      BY <1>1, <3>1, <3>3 DEF Typed, i
    <3>6. ServerAhead(queue'[i], worker'[i])
      BY <3>2, <3>3, <3>4, <3>5, AheadAppends, AheadGrows
    <3> QED BY <3>1, <3>6 DEF Commanding, i
  <2> QED BY <1>8, <2>1, <2>2, <2>3, <2>4, <2>5, <2>6 DEF HandlerStep
<1>9. ASSUME NEW h \in Handlers, FailHandler(h)
      PROVE  FALSE
  BY <1>2, <1>9 DEF FailHandler, Fault
<1>10. ASSUME NEW s \in Sockets, Viewer(s) \/ Timer(s)
       PROVE  Pausing' \/ Commanding' \/ Following'
  <2>1. UNCHANGED vars
    BY <1>10 DEF Viewer, Timer, Report, ReportDone, Disconnect, Timeout, OrphanTimeout, Stale,
                 Stop, QueueUnchanged
  <2>2. \/ handler' = handler
        \/ \E h \in Handlers, pc \in HandlerPcs : Start(h, s, pc)
    BY <1>10 DEF Viewer, Timer, Report, ReportDone, Disconnect, Timeout, OrphanTimeout, Stale,
                 Stop, HandlerPcs
  <2>3. ASSUME NEW h \in Handlers, NEW pc \in HandlerPcs, Start(h, s, pc)
        PROVE  \A g \in Handlers : handler[g].pc = "pause" => handler'[g].pc = "pause"
    <3>1. handler[h].pc # "pause"
      BY <2>3 DEF Start, Free
    <3> QED BY <1>6, <2>3, <3>1 DEF Start
  <2> QED BY <1>5, <2>1, <2>2, <2>3
<1> QED BY <1>7, <1>8, <1>9, <1>10 DEF RoomNext

\* On one instance, a person who takes control cancels the auto-resume: the
\* auto-pause mark outlives no command of a person, whatever handlers are under
\* way at every await.
THEOREM PersonTakesOver ==
  ASSUME Control!OneInstance
  PROVE  RoomSpec => []PersonClearsMark
<1>1. RoomInit => RoomInv /\ MarkInv
  BY RoomInitInv DEF RoomInit, Init, MarkInv
<1>2. RoomInv /\ MarkInv /\ [RoomNext]_roomVars => (RoomInv /\ MarkInv)'
  <2>1. RoomInv /\ MarkInv /\ RoomNext => MarkInv'
    BY MarkStep
  <2>2. MarkInv /\ UNCHANGED roomVars => MarkInv'
    BY DEF MarkInv, Pausing, Commanding, Following, roomVars, vars, sharedVars, bufferingVars
  <2> QED BY <2>1, <2>2, RoomStepInv
<1>3. MarkInv => PersonClearsMark
  <2> SUFFICES ASSUME MarkInv, Settled, faults = 0, cache # NONE, cache.by = "person", marked
               PROVE  FALSE
    BY DEF PersonClearsMark
  <2>1. ~Pausing
    BY DEF Settled, Pausing, Free
  <2>2. ~Commanding
    <3>1. \A i \in Instances : queue[i] = <<>>
      BY DEF Settled, Quiet
    <3> QED BY <3>1, EmptySeq DEF Commanding, ServerAhead
  <2> QED BY <2>1, <2>2 DEF MarkInv, Following
<1> QED BY <1>1, <1>2, <1>3, PTL DEF RoomSpec

=============================================================================
