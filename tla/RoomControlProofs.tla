--------------------------- MODULE RoomControlProofs ---------------------------
(* Proofs about RoomControl, for any number of users, instances and         *)
(* handlers in progress.                                                    *)
EXTENDS RoomControl, FiniteSetTheorems, TLAPS

\* Where a handler of each kind can be.
Stage(t) ==
    \/ t.op = "none" /\ t.pc = "free"
    \/ t.op = "join" /\ t.pc \in {"get", "fill", "present"}
    \/ t.op = "leave" /\ t.pc \in {"remove", "get", "row", "fill", "list"}
    \/ t.op = "event" /\ t.pc \in {"row", "fill"}
    \/ t.op = "auto" /\ t.pc \in {"read", "list", "write", "publish"}
    \/ t.op \in {"transfer", "settings", "addCo", "removeCo"} /\ t.pc \in {"write", "publish"}
    \/ t.op = "delete" /\ t.pc \in {"write", "clear"}
    \/ t.op = "create" /\ t.pc = "clear"

\* What it knows there.
Knows(t) ==
    /\ t.op # "none" => t.by \in Users /\ t.at \in Instances
    /\ t.op \in {"join", "leave"} => t.sock \in Sockets
    /\ t.op = "join" /\ t.pc = "get" => t.seen # NONE
    /\ t.op = "auto" /\ t.pc \in {"list", "write"} => t.seen # NONE
    /\ t.pc = "write" /\ t.op \in {"auto", "transfer", "addCo", "removeCo"} => t.target \in Users

Stages == \A k \in Slots : Stage(task[k]) /\ Knows(task[k])

\* A socket whose join is under way is connected, or its entry will stay.
JoinsConnected ==
    \A k \in Slots : task[k].op = "join" => conn[task[k].sock] = "in" \/ task[k].sock \in stray

\* A transfer whose host has been listed all along finds the host listed.
SteadyListed ==
    \A k \in steady : task[k].op = "auto" => task[k].by \in Present /\ task[k].pc \in {"read", "list"}

\* Unless requests crossed, a handler's copy is the row.
CopiesCurrent ==
    "crossed" \notin lapses =>
        \A k \in Slots : /\ task[k].seen # NONE /\ task[k].pc \notin {"publish", "clear"}
                              => task[k].seen = row
                         /\ task[k].pc = "publish" =>
                              row # NONE /\ task[k].next = ToControlState(row)

\* So is the control key, unless somebody is about to store it.
ControlCurrent ==
    lapses = {} /\ row # NONE =>
        \/ control \in {NONE, ToControlState(row)}
        \/ \E k \in Slots : task[k].pc \in {"publish", "clear"}

\* A handler in order.
Sound(t) ==
    /\ t \in Tasks /\ Stage(t) /\ Knows(t)
    /\ t.pc \in {"fill", "write"} => t.seen # NONE
    /\ t.pc = "publish" => t.next # NONE

RoomInv == TypeOK /\ Stages

LEMMA FreeSound == Sound(Free) /\ Free.op = "none" /\ Free.pc = "free" /\ Free.seen = NONE
                   /\ Free.next = NONE /\ Free.sock = NONE
BY DEF Sound, Free, Tasks, Stage, Knows, Ops, Pcs

\* A step of one handler that leaves it in order keeps the types.
LEMMA OneHandler ==
  ASSUME RoomInv, NEW k \in Slots, NEW t, Sound(t), task' = [task EXCEPT ![k] = t],
         row' \in Rows \cup {NONE}, members' \in SUBSET Users,
         control' \in Controls \cup {NONE}, presence' \in SUBSET Sockets,
         conn' \in [Sockets -> {"new", "in", "gone"}],
         timer' \in [Instances -> Users \cup {NONE}], orphan' \in SUBSET (Instances \X Users),
         inputs' \in 0..MaxInputs, rooms' \in 1..MaxRooms,
         lapses' \subseteq {"crossed", "unpublished"},
         stray' \in SUBSET Sockets, steady' \in SUBSET Slots
  PROVE  RoomInv'
<1>1. /\ task' \in [Slots -> Tasks] /\ task'[k] = t
      /\ \A j \in Slots : j # k => task'[j] = task[j]
  BY DEF RoomInv, TypeOK, Sound
<1>2. \A j \in Slots : Stage(task'[j]) /\ Knows(task'[j])
  BY <1>1 DEF RoomInv, Stages, Sound
<1>3. \A j \in Slots : /\ task'[j].pc \in {"fill", "write"} => task'[j].seen # NONE
                       /\ task'[j].pc = "publish" => task'[j].next # NONE
  BY <1>1 DEF RoomInv, TypeOK, Sound
<1>4. TypeOK'
  BY <1>1, <1>3 DEF TypeOK
<1>5. Stages'
  BY <1>2 DEF Stages
<1> QED BY <1>4, <1>5 DEF RoomInv

\* What the invariant says of one handler.
LEMMA HandlerSound == ASSUME RoomInv, NEW k \in Slots PROVE Sound(task[k])
BY DEF RoomInv, TypeOK, Stages, Sound

\* Moving on keeps what a handler knows.
LEMMA MovedSound ==
  ASSUME NEW t, Sound(t), NEW p \in Pcs, Stage([t EXCEPT !.pc = p]),
         p \in {"fill", "write"} => t.seen # NONE, p = "publish" => t.next # NONE,
         t.op = "join" /\ p = "get" => t.seen # NONE,
         t.op = "auto" /\ p \in {"list", "write"} => t.seen # NONE,
         p = "write" => t.pc = "write"
  PROVE  Sound([t EXCEPT !.pc = p])
BY DEF Sound, Tasks, Knows

\* A step of handler k that leaves it in order, as a formula.
Moves(k) == \E t : Sound(t) /\ task' = [task EXCEPT ![k] = t]

LEMMA DoneMoves == ASSUME NEW k \in Slots, Done(k) PROVE Moves(k)
BY FreeSound DEF Done, Moves

LEMMA GotoMoves ==
  ASSUME RoomInv, NEW k \in Slots, NEW p \in Pcs, Goto(k, p), Stage([task[k] EXCEPT !.pc = p]),
         p \in {"fill", "write"} => task[k].seen # NONE, p = "publish" => task[k].next # NONE,
         task[k].op = "join" /\ p = "get" => task[k].seen # NONE,
         task[k].op = "auto" /\ p \in {"list", "write"} => task[k].seen # NONE,
         p = "write" => task[k].pc = "write"
  PROVE  Moves(k)
<1>1. Sound([task[k] EXCEPT !.pc = p])
  BY HandlerSound, MovedSound
<1>2. task' = [task EXCEPT ![k] = [task[k] EXCEPT !.pc = p]]
  BY DEF Goto
<1> QED BY <1>1, <1>2 DEF Moves

\* Where a handler is tells what it is.
LEMMA Stations ==
  ASSUME RoomInv, NEW k \in Slots
  PROVE  /\ Stage(task[k]) /\ Knows(task[k]) /\ task[k] \in Tasks
         /\ task[k].pc \in {"get", "fill"} => task[k].op \in {"join", "leave", "event"}
         /\ task[k].pc = "get" => task[k].op \in {"join", "leave"}
         /\ task[k].pc = "row" => task[k].op \in {"leave", "event"}
         /\ task[k].pc = "present" => task[k].op = "join"
         /\ task[k].pc = "remove" => task[k].op = "leave"
         /\ task[k].pc = "read" => task[k].op = "auto"
         /\ task[k].pc = "clear" => task[k].op \in {"delete", "create"}
BY HandlerSound DEF Sound, Stage

LEMMA LoadedMoves ==
  ASSUME RoomInv, NEW k \in Slots, task[k].pc \in {"get", "fill"}, NEW c \in Controls, Loaded(k, c)
  PROVE  Moves(k) /\ timer' \in [Instances -> Users \cup {NONE}]
<1>1. Sound(task[k]) /\ task[k].op \in {"join", "leave", "event"} /\ task[k].at \in Instances
      /\ timer \in [Instances -> Users \cup {NONE}]
  BY HandlerSound, Stations DEF Knows, RoomInv, TypeOK
<1>2. CASE task[k].op = "join"
  <2> DEFINE t == [task[k] EXCEPT !.pc = "present", !.seen = NONE]
  <2>1. task' = [task EXCEPT ![k] = t]
    BY <1>2 DEF Loaded
  <2>2. Sound(t)
    BY <1>1, <1>2 DEF Sound, Tasks, Pcs, Stage, Knows
  <2>3. timer' \in [Instances -> Users \cup {NONE}]
    BY <1>1, <1>2 DEF Loaded
  <2> QED BY <2>1, <2>2, <2>3 DEF Moves
<1>3. CASE task[k].op = "leave"
  <2>1. timer' = timer
    BY <1>3 DEF Loaded
  <2>2. CASE c.hostId = task[k].by
    <3> DEFINE t == [task[k] EXCEPT !.pc = "list", !.seen = NONE]
    <3>1. task' = [task EXCEPT ![k] = t]
      BY <1>3, <2>2 DEF Loaded
    <3>2. Sound(t)
      BY <1>1, <1>3 DEF Sound, Tasks, Pcs, Stage, Knows
    <3> QED BY <1>1, <2>1, <3>1, <3>2 DEF Moves
  <2>3. CASE c.hostId # task[k].by
    BY <1>1, <1>3, <2>1, <2>3, DoneMoves DEF Loaded
  <2> QED BY <2>2, <2>3
<1>4. CASE task[k].op = "event"
  BY <1>1, <1>4, DoneMoves DEF Loaded
<1> QED BY <1>1, <1>2, <1>3, <1>4

\* The kinds a handler can have.
LEMMA KindsKnown == \A op \in Operations : op \in Ops
BY DEF Ops

\* clearRoom and the changes of presence keep their types.
LEMMA PresenceTyped ==
  ASSUME RoomInv, NEW s \in SUBSET Sockets, SetPresence(s)
  PROVE  presence' \in SUBSET Sockets /\ steady' \in SUBSET Slots
BY DEF SetPresence, RoomInv, TypeOK

LEMMA CrossingTyped ==
  ASSUME RoomInv, NEW ks, Crossing(ks)
  PROVE  lapses' \subseteq {"crossed", "unpublished"}
BY DEF Crossing, RoomInv, TypeOK

LEMMA ControlOfRow == \A r \in Rows : ToControlState(r) \in Controls /\ ToControlState(r) # NONE /\ r # NONE
BY NullAssumption DEF Rows, Controls, ToControlState

\* loadControl.
LEMMA LoadTypes ==
  ASSUME RoomInv, NEW k \in Slots, Get(k) \/ ReadRow(k) \/ Fill(k)
  PROVE  RoomInv'
<1>1. Sound(task[k]) /\ TypeOK
  BY HandlerSound DEF RoomInv
<1>2. CASE Get(k)
  <2>1. CASE control # NONE
    <3>1. control \in Controls /\ Loaded(k, control) /\ task[k].pc \in {"get", "fill"}
      BY <1>1, <1>2, <2>1 DEF Get, At, TypeOK
    <3>2. Moves(k) /\ timer' \in [Instances -> Users \cup {NONE}]
      BY <3>1, LoadedMoves
    <3> QED BY <1>1, <1>2, <3>2, OneHandler DEF Get, Moves, TypeOK, keys, bounds, history
  <2>2. CASE control = NONE
    <3>1. CASE task[k].seen = NONE
      <4>1. task[k].op = "leave"
        BY <1>1, <1>2, <3>1, Stations DEF Get, At, Sound, Knows
      <4>2. Goto(k, "row") /\ Stage([task[k] EXCEPT !.pc = "row"]) /\ "row" \in Pcs
        BY <1>1, <1>2, <2>2, <3>1, <4>1 DEF Get, Stage, Sound, Tasks, Pcs
      <4>3. Moves(k)
        BY <4>2, GotoMoves
      <4> QED BY <1>1, <1>2, <2>2, <4>3, OneHandler DEF Get, Moves, TypeOK, keys, bounds, history
    <3>2. CASE task[k].seen # NONE
      <4>1. Goto(k, "fill") /\ Stage([task[k] EXCEPT !.pc = "fill"]) /\ "fill" \in Pcs
        BY <1>1, <1>2, <2>2, <3>2, Stations DEF Get, At, Stage, Sound, Tasks, Pcs
      <4>2. Moves(k)
        BY <3>2, <4>1, GotoMoves
      <4> QED BY <1>1, <1>2, <2>2, <4>2, OneHandler DEF Get, Moves, TypeOK, keys, bounds, history
    <3> QED BY <3>1, <3>2
  <2> QED BY <2>1, <2>2
<1>3. CASE ReadRow(k)
  <2>1. Moves(k)
    <3>1. CASE row = NONE
      BY <1>3, <3>1, DoneMoves DEF ReadRow
    <3>2. CASE row # NONE
      <4> DEFINE t == [task[k] EXCEPT !.pc = "fill", !.seen = row]
      <4>1. task' = [task EXCEPT ![k] = t]
        BY <1>3, <3>2 DEF ReadRow
      <4>2. Sound(t)
        BY <1>1, <1>3, <3>2, Stations DEF ReadRow, At, Sound, Tasks, Pcs, Stage, Knows, TypeOK
      <4> QED BY <4>1, <4>2 DEF Moves
    <3> QED BY <3>1, <3>2
  <2> QED BY <1>1, <1>3, <2>1, OneHandler DEF ReadRow, Moves, TypeOK, keys, timers, bounds, history
<1>4. CASE Fill(k)
  <2>1. task[k].seen \in Rows
    BY <1>1, <1>4 DEF Fill, At, Sound, Tasks
  <2>2. Moves(k) /\ timer' \in [Instances -> Users \cup {NONE}] /\ control' \in Controls
    BY <1>4, <2>1, LoadedMoves, ControlOfRow DEF Fill, At
  <2> QED BY <1>1, <1>4, <2>2, OneHandler DEF Fill, Moves, TypeOK, bounds, history
<1> QED BY <1>2, <1>3, <1>4

\* Sockets.
LEMMA SocketTypes ==
  ASSUME RoomInv, NEW k \in Slots, Socket(k) \/ JoinPresent(k) \/ Leave(k) \/ TimerRuns(k) \/ Schedule(k)
  PROVE  RoomInv'
<1>1. Sound(task[k]) /\ TypeOK
  BY HandlerSound DEF RoomInv
<1>2. ASSUME NEW s \in Sockets, Join(k, s)
      PROVE  RoomInv'
  <2> DEFINE t == [Free EXCEPT !.op = "join", !.pc = "get", !.by = UserOf(s),
                               !.at = InstanceOf(s), !.sock = s, !.seen = row]
  <2>1. Sound(t)
    <3>1. row \in Rows /\ row # NONE /\ UserOf(s) \in Users /\ InstanceOf(s) \in Instances
      BY <1>1, <1>2 DEF Join, TypeOK, Sockets, UserOf, InstanceOf
    <3> QED BY <3>1 DEF Sound, Tasks, Pcs, Ops, Stage, Knows, Free
  <2>2. conn' \in [Sockets -> {"new", "in", "gone"}] /\ inputs' \in 0..MaxInputs
    BY <1>1, <1>2, LimitsAssumption DEF Join, Input, TypeOK
  <2>3. task' = [task EXCEPT ![k] = t] /\ UNCHANGED <<row, members, keys, timers, rooms, history>>
    BY <1>2 DEF Join
  <2> QED BY <1>1, <2>1, <2>2, <2>3, OneHandler DEF TypeOK, keys, timers, history
<1>3. ASSUME NEW s \in Sockets, Disconnect(k, s)
      PROVE  RoomInv'
  <2> DEFINE t == [Free EXCEPT !.op = "leave", !.pc = "remove", !.by = UserOf(s),
                               !.at = InstanceOf(s), !.sock = s]
  <2>1. Sound(t)
    BY DEF Sound, Tasks, Pcs, Ops, Stage, Knows, Free, Sockets, UserOf, InstanceOf
  <2>2. conn' \in [Sockets -> {"new", "in", "gone"}] /\ stray' \in SUBSET Sockets
    BY <1>1, <1>3 DEF Disconnect, TypeOK
  <2>3. task' = [task EXCEPT ![k] = t] /\ UNCHANGED <<row, members, keys, timers, bounds, lapses, steady>>
    BY <1>3 DEF Disconnect
  <2> QED BY <1>1, <2>1, <2>2, <2>3, OneHandler DEF TypeOK, keys, timers, bounds
<1>4. ASSUME NEW s \in Sockets, Event(k, s)
      PROVE  RoomInv'
  <2> DEFINE t == [Free EXCEPT !.op = "event", !.pc = "row", !.by = UserOf(s), !.at = InstanceOf(s)]
  <2>1. Sound(t)
    BY <1>4, KindsKnown DEF Event, Request, Sound, Tasks, Pcs, Stage, Knows, Free, Sockets, UserOf, InstanceOf
  <2>2. inputs' \in 0..MaxInputs
    BY <1>1, <1>4, LimitsAssumption DEF Event, Request, Input, TypeOK
  <2>3. task' = [task EXCEPT ![k] = t]
        /\ UNCHANGED <<row, members, keys, conn, timers, rooms, history>>
    BY <1>4 DEF Event, Start
  <2> QED BY <1>1, <2>1, <2>2, <2>3, OneHandler DEF TypeOK, keys, timers, history
<1>5. CASE JoinPresent(k)
  <2>1. presence \cup {task[k].sock} \in SUBSET Sockets
    BY <1>1, <1>5, Stations DEF JoinPresent, At, Knows, TypeOK
  <2>2. Moves(k) /\ presence' \in SUBSET Sockets /\ steady' \in SUBSET Slots
    BY <1>5, <2>1, DoneMoves, PresenceTyped DEF JoinPresent
  <2> QED BY <1>1, <1>5, <2>2, OneHandler DEF JoinPresent, Moves, TypeOK, timers, bounds
<1>6. CASE Leave(k)
  <2>1. presence \ {task[k].sock} \in SUBSET Sockets
    BY <1>1 DEF TypeOK
  <2>2. presence' \in SUBSET Sockets /\ steady' \in SUBSET Slots
    BY <1>6, <2>1, PresenceTyped DEF Leave
  <2>3. task[k].op = "leave" /\ "get" \in Pcs /\ Stage([task[k] EXCEPT !.pc = "get"])
    BY <1>1, <1>6, Stations DEF Leave, At, Stage, Sound, Tasks, Pcs
  <2>4. Moves(k)
    BY <1>6, <2>3, GotoMoves DEF Leave
  <2> QED BY <1>1, <1>6, <2>2, <2>4, OneHandler DEF Leave, Moves, TypeOK, timers, bounds
<1>7. CASE TimerRuns(k)
  BY <1>1, <1>7, DoneMoves, OneHandler DEF TimerRuns, Moves, TypeOK, keys, timers, bounds, history
<1>8. CASE Schedule(k)
  <2>1. timer' \in [Instances -> Users \cup {NONE}] /\ orphan' \in SUBSET (Instances \X Users)
    <3>1. task[k].op = "leave" /\ task[k].by \in Users /\ task[k].at \in Instances
      BY <1>1, <1>8 DEF Schedule, Sound, Knows
    <3>2. timer \in [Instances -> Users \cup {NONE}] /\ orphan \in SUBSET (Instances \X Users)
      BY <1>1 DEF TypeOK
    <3> QED BY <1>8, <3>1, <3>2 DEF Schedule, timers
  <2>2. Moves(k)
    BY <1>8, DoneMoves DEF Schedule
  <2> QED BY <1>1, <1>8, <2>1, <2>2, OneHandler DEF Schedule, Moves, TypeOK, keys, bounds, history
<1> QED BY <1>2, <1>3, <1>4, <1>5, <1>6, <1>7, <1>8 DEF Socket

\* The automatic transfer up to its write.
LEMMA TransferTypes ==
  ASSUME RoomInv, NEW k \in Slots,
         (\E i \in Instances : Timer(k, i)) \/ AutoRead(k) \/ AutoList(k)
  PROVE  RoomInv'
<1>1. Sound(task[k]) /\ TypeOK
  BY HandlerSound DEF RoomInv
<1>2. ASSUME NEW i \in Instances, NEW u \in Users, StartTransfer(k, i, u),
             orphan' \in SUBSET (Instances \X Users)
      PROVE  RoomInv'
  <2> DEFINE t == [Free EXCEPT !.op = "auto", !.pc = "read", !.by = u, !.at = i]
  <2>1. Sound(t)
    BY DEF Sound, Tasks, Pcs, Ops, Stage, Knows, Free
  <2>2. task' = [task EXCEPT ![k] = t]
        /\ UNCHANGED <<row, members, keys, conn, bounds, lapses, stray>>
    BY <1>2 DEF StartTransfer, Start
  <2>3. timer' \in [Instances -> Users \cup {NONE}] /\ steady' \in SUBSET Slots
    BY <1>1, <1>2 DEF StartTransfer, TypeOK
  <2> QED BY <1>1, <1>2, <2>1, <2>2, <2>3, OneHandler DEF TypeOK, keys, bounds
<1>3. ASSUME NEW i \in Instances, Timer(k, i)
      PROVE  RoomInv'
  <2>1. CASE Fire(k, i)
    <3>1. timer[i] \in Users /\ orphan' \in SUBSET (Instances \X Users)
      BY <1>1, <2>1 DEF Fire, TypeOK
    <3> QED BY <1>2, <2>1, <3>1 DEF Fire
  <2>2. ASSUME NEW u \in Users, FireOrphan(k, i, u)
        PROVE  RoomInv'
    <3>1. orphan' \in SUBSET (Instances \X Users)
      BY <1>1, <2>2 DEF FireOrphan, TypeOK
    <3> QED BY <1>2, <2>2, <3>1 DEF FireOrphan
  <2> QED BY <1>3, <2>1, <2>2 DEF Timer
<1>4. CASE AutoRead(k)
  <2>1. Moves(k)
    <3>1. CASE Done(k)
      BY <3>1, DoneMoves
    <3>2. CASE ~Done(k)
      <4> DEFINE t == [task[k] EXCEPT !.pc = "list", !.seen = row]
      <4>1. task' = [task EXCEPT ![k] = t] /\ row \in Rows /\ row # NONE
            /\ task[k].op = "auto" /\ task[k].pc = "read"
        BY <1>1, <1>4, <3>2 DEF AutoRead, At, TypeOK
      <4>2. Sound(t)
        BY <1>1, <4>1 DEF Sound, Tasks, Pcs, Stage, Knows
      <4> QED BY <4>1, <4>2 DEF Moves
    <3> QED BY <3>1, <3>2
  <2> QED BY <1>1, <1>4, <2>1, OneHandler DEF AutoRead, Moves, TypeOK, keys, timers, bounds, history
<1>5. CASE AutoList(k)
  <2>1. Moves(k)
    <3>1. CASE Done(k)
      BY <3>1, DoneMoves
    <3>2. CASE ~Done(k)
      <4>1. PICK n \in NextHosts(task[k]) : task' = [task EXCEPT ![k].pc = "write", ![k].target = n]
        BY <1>5, <3>2 DEF AutoList
      <4> DEFINE t == [task[k] EXCEPT !.pc = "write", !.target = n]
      <4>2. n \in Users
        BY <1>1 DEF NextHosts, Present, TypeOK, Sockets, UserOf
      <4>3. Sound(t)
        BY <1>1, <1>5, <4>2 DEF AutoList, At, Sound, Tasks, Pcs, Stage, Knows
      <4> QED BY <4>1, <4>3 DEF Moves
    <3> QED BY <3>1, <3>2
  <2> QED BY <1>1, <1>5, <2>1, OneHandler DEF AutoList, Moves, TypeOK, keys, timers, bounds, history
<1> QED BY <1>3, <1>4, <1>5

\* A write of the row and what its handler then publishes.
LEMMA RowTyped ==
  ASSUME RoomInv, NEW k \in Slots, task[k].pc = "write", row # NONE
  PROVE  /\ row \in Rows /\ task[k].seen \in Rows
         /\ \A mode \in Modes : [row EXCEPT !.controlMode = mode] \in Rows
         /\ \A us \in SUBSET Users : [row EXCEPT !.coHostIds = us] \in Rows
         /\ task[k].target \in Users => /\ Handed(k, row) \in Rows
                                        /\ Handed(k, ToControlState(task[k].seen)) \in Controls
<1>1. row \in Rows /\ task[k].seen \in Rows
  BY HandlerSound DEF RoomInv, TypeOK, Sound, Tasks
<1>2. /\ \A mode \in Modes : [row EXCEPT !.controlMode = mode] \in Rows
      /\ \A us \in SUBSET Users : [row EXCEPT !.coHostIds = us] \in Rows
  BY <1>1 DEF Rows
<1>3. ASSUME task[k].target \in Users
      PROVE  Handed(k, row) \in Rows
  BY <1>1, <1>3 DEF Handed, Rows
<1>4. ASSUME task[k].target \in Users
      PROVE  Handed(k, ToControlState(task[k].seen)) \in Controls
  BY <1>1, <1>4 DEF Handed, Rows, Controls, ToControlState
<1> QED BY <1>1, <1>2, <1>3, <1>4

\* What a handler that wrote the row goes on with.
LEMMA PublishSound ==
  ASSUME NEW t, Sound(t), t.pc = "write", t.op \notin {"delete"}, NEW c \in Controls
  PROVE  Sound([t EXCEPT !.pc = "publish", !.next = c])
BY NullAssumption DEF Sound, Tasks, Pcs, Stage, Knows

LEMMA UpdateTypes ==
  ASSUME RoomInv, NEW k \in Slots, task[k].pc = "write", task[k].op # "delete", NEW r,
         row # NONE => r \in Rows, Update(k, r)
  PROVE  RoomInv'
<1>1. Sound(task[k]) /\ TypeOK
  BY HandlerSound DEF RoomInv
<1>2. /\ UNCHANGED <<members, keys, conn, timers, bounds, stray, steady>>
      /\ row' \in Rows \cup {NONE} /\ lapses' \subseteq {"crossed", "unpublished"} /\ Moves(k)
  <2>1. CASE Done(k) /\ UNCHANGED <<row, lapses>>
    BY <1>1, <2>1, DoneMoves DEF Update, TypeOK
  <2>2. CASE ~(Done(k) /\ UNCHANGED <<row, lapses>>)
    <3> DEFINE t == [task[k] EXCEPT !.pc = "publish", !.next = ToControlState(r)]
    <3>1. row' = r /\ r \in Rows /\ task' = [task EXCEPT ![k] = t] /\ Crossing(Slots \ {k})
      BY <2>2 DEF Update
    <3>2. Sound(t)
      BY <1>1, <3>1, ControlOfRow, PublishSound
    <3>3. lapses' \subseteq {"crossed", "unpublished"}
      BY <3>1, CrossingTyped
    <3> QED BY <3>1, <3>2, <3>3 DEF Moves, Update
  <2> QED BY <2>1, <2>2
<1> QED BY <1>1, <1>2, OneHandler DEF Moves, TypeOK, keys, timers, bounds

LEMMA WriteTypes ==
  ASSUME RoomInv, NEW k \in Slots, Write(k) \/ Handover(k) \/ Publish(k)
  PROVE  RoomInv'
<1>1. Sound(task[k]) /\ TypeOK
  BY HandlerSound DEF RoomInv
<1>2. CASE Write(k)
  <2>1. task[k].pc = "write" /\ task[k].seen \in Rows
    BY <1>1, <1>2 DEF Write, At, Sound, Tasks
  <2>2. ASSUME task[k].op = "settings", NEW mode \in Modes, Update(k, [row EXCEPT !.controlMode = mode])
        PROVE  RoomInv'
    BY <2>1, <2>2, RowTyped, UpdateTypes
  <2>3. ASSUME task[k].op \in {"addCo", "removeCo"}, NEW us \in SUBSET Users,
               Update(k, [row EXCEPT !.coHostIds = us])
        PROVE  RoomInv'
    BY <2>1, <2>3, RowTyped, UpdateTypes
  <2>4. task[k].op \in {"addCo", "removeCo"} =>
          task[k].seen.coHostIds \cup {task[k].target} \in SUBSET Users
          /\ task[k].seen.coHostIds \ {task[k].target} \in SUBSET Users
    BY <1>1, <2>1 DEF Sound, Knows, Rows
  <2> QED BY <1>2, <2>2, <2>3, <2>4 DEF Write
<1>3. CASE Handover(k)
  <2>1. /\ row' \in Rows \cup {NONE} /\ lapses' \subseteq {"crossed", "unpublished"} /\ Moves(k)
    <3>1. CASE ~MayHandOver(k)
      BY <1>1, <1>3, <3>1, DoneMoves DEF Handover, TypeOK
    <3>2. CASE MayHandOver(k)
      <4> DEFINE c == Handed(k, ToControlState(task[k].seen))
                 t == [task[k] EXCEPT !.pc = "publish", !.next = c]
      <4>1. task[k].pc = "write" /\ task[k].op \in {"auto", "transfer"} /\ task[k].target \in Users
            /\ row # NONE
        BY <1>1, <1>3, <3>2 DEF Handover, At, Sound, Knows, MayHandOver
      <4>2. c \in Controls /\ Handed(k, row) \in Rows
        BY <4>1, RowTyped
      <4>3. Sound(t)
        BY <1>1, <4>1, <4>2, PublishSound
      <4>4. row' = Handed(k, row) /\ task' = [task EXCEPT ![k] = t] /\ Crossing(Slots \ {k})
        BY <1>3, <3>2 DEF Handover
      <4>5. lapses' \subseteq {"crossed", "unpublished"}
        BY <4>4, CrossingTyped
      <4> QED BY <4>2, <4>3, <4>4, <4>5 DEF Moves
    <3> QED BY <3>1, <3>2
  <2> QED BY <1>1, <1>3, <2>1, OneHandler DEF Handover, Moves, TypeOK, keys, timers, bounds
<1>4. CASE Publish(k)
  <2>1. control' \in Controls \cup {NONE} /\ Moves(k)
    BY <1>1, <1>4, DoneMoves DEF Publish, At, Sound, Tasks
  <2> QED BY <1>1, <1>4, <2>1, OneHandler DEF Publish, Moves, TypeOK, timers, bounds, history
<1> QED BY <1>2, <1>3, <1>4

LEMMA InputTyped == ASSUME RoomInv, Input PROVE inputs' \in 0..MaxInputs
BY LimitsAssumption DEF Input, RoomInv, TypeOK

\* Requests of the host.
LEMMA HostRequestTypes ==
  ASSUME RoomInv, NEW k \in Slots, NEW op, NEW u \in Users, NEW i \in Instances,
         NEW v \in Users \cup {NONE}, HostRequest(k, op, u, i, v),
         op \in {"settings", "addCo", "removeCo", "transfer", "delete"},
         op \in {"addCo", "removeCo", "transfer"} => v \in Users
  PROVE  RoomInv'
<1> DEFINE t == [Free EXCEPT !.op = op, !.pc = "write", !.by = u, !.at = i, !.target = v, !.seen = row]
<1>1. TypeOK /\ row \in Rows /\ row # NONE /\ op \in Ops
  BY KindsKnown DEF RoomInv, TypeOK, HostRequest, Request
<1>2. Sound(t)
  BY <1>1 DEF Sound, Tasks, Pcs, Stage, Knows, Free
<1>3. inputs' \in 0..MaxInputs
  BY InputTyped DEF HostRequest, Request
<1>4. task' = [task EXCEPT ![k] = t]
      /\ UNCHANGED <<row, members, keys, conn, timers, rooms, history>>
  BY DEF HostRequest
<1> QED BY <1>1, <1>2, <1>3, <1>4, OneHandler DEF TypeOK, keys, timers, history

\* Creation, deletion and the end of both.
LEMMA LifeTypes ==
  ASSUME RoomInv, NEW k \in Slots,
         \/ DeleteRow(k) \/ ClearRoomState(k)
         \/ \E u \in Users, i \in Instances : CreateRoom(k, u, i)
  PROVE  RoomInv'
<1>1. Sound(task[k]) /\ TypeOK
  BY HandlerSound DEF RoomInv
<1>2. CASE DeleteRow(k)
  <2>1. row' \in Rows \cup {NONE} /\ members' \in SUBSET Users
        /\ lapses' \subseteq {"crossed", "unpublished"}
    BY <1>1, <1>2, CrossingTyped DEF DeleteRow, TypeOK
  <2>2. Moves(k)
    <3>1. CASE Done(k)
      BY <3>1, DoneMoves
    <3>2. CASE ~Done(k)
      <4>1. Goto(k, "clear") /\ "clear" \in Pcs /\ Stage([task[k] EXCEPT !.pc = "clear"])
        BY <1>1, <1>2, <3>2 DEF DeleteRow, At, Stage, Sound, Tasks, Pcs
      <4> QED BY <4>1, GotoMoves
    <3> QED BY <3>1, <3>2
  <2> QED BY <1>1, <1>2, <2>1, <2>2, OneHandler DEF DeleteRow, Moves, TypeOK, keys, timers, bounds
<1>3. CASE ClearRoomState(k)
  <2>1. presence' \in SUBSET Sockets /\ steady' \in SUBSET Slots /\ Moves(k)
    BY <1>3, PresenceTyped, DoneMoves DEF ClearRoomState
  <2>2. timer' \in [Instances -> Users \cup {NONE}]
    BY <1>1, <1>3 DEF ClearRoomState, TypeOK
  <2> QED BY <1>1, <1>3, <2>1, <2>2, OneHandler DEF ClearRoomState, Moves, TypeOK, bounds
<1>4. ASSUME NEW u \in Users, NEW i \in Instances, CreateRoom(k, u, i)
      PROVE  RoomInv'
  <2> DEFINE t == [Free EXCEPT !.op = "create", !.pc = "clear", !.by = u, !.at = i, !.seen = row']
  <2>1. rooms' \in 1..MaxRooms /\ inputs' \in 0..MaxInputs /\ "create" \in Ops
    <3>1. rooms' = rooms + 1 /\ rooms < MaxRooms /\ rooms \in 1..MaxRooms
      BY <1>1, <1>4 DEF CreateRoom, TypeOK
    <3>2. rooms' \in 1..MaxRooms
      BY <3>1, LimitsAssumption
    <3> QED BY <1>4, <3>2, InputTyped, KindsKnown DEF CreateRoom, Request
  <2>2. row' \in Rows
    <3> PICK mode \in Modes : row' = NewRow(rooms', u, mode, FALSE)
      BY <1>4 DEF CreateRoom
    <3> QED BY <2>1 DEF NewRow, Rows
  <2>3. Sound(t)
    BY <2>1, <2>2 DEF Sound, Tasks, Pcs, Stage, Knows, Free
  <2>4. lapses' \subseteq {"crossed", "unpublished"}
    BY <1>4, CrossingTyped DEF CreateRoom
  <2>5. task' = [task EXCEPT ![k] = t] /\ UNCHANGED <<members, keys, conn, timers, stray, steady>>
    BY <1>4 DEF CreateRoom
  <2> QED BY <1>1, <2>1, <2>2, <2>3, <2>4, <2>5, OneHandler DEF TypeOK, keys, timers
<1> QED BY <1>2, <1>3, <1>4

LEMMA RestTypes ==
  ASSUME RoomInv, NEW k \in Slots, Rest(k)
  PROVE  RoomInv'
<1> PICK u \in Users, i \in Instances :
      \/ UpdateSettings(k, u, i)
      \/ \E v \in Users : AddCoHost(k, u, i, v) \/ RemoveCoHost(k, u, i, v) \/ TransferHost(k, u, i, v)
      \/ DeleteRoom(k, u, i)
      \/ CreateRoom(k, u, i)
  BY DEF Rest
<1>1. CASE UpdateSettings(k, u, i) \/ DeleteRoom(k, u, i)
  BY <1>1, HostRequestTypes DEF UpdateSettings, DeleteRoom
<1>2. ASSUME NEW v \in Users, AddCoHost(k, u, i, v) \/ RemoveCoHost(k, u, i, v) \/ TransferHost(k, u, i, v)
      PROVE  RoomInv'
  BY <1>2, HostRequestTypes DEF AddCoHost, RemoveCoHost, TransferHost
<1>3. CASE CreateRoom(k, u, i)
  BY <1>3, LifeTypes
<1> QED BY <1>1, <1>2, <1>3

\* Steps of nobody's handler.
LEMMA OtherTypes ==
  ASSUME RoomInv,
         (\E u \in Users : Enter(u) \/ RemoveMember(u)) \/ AdminDelete \/ UNCHANGED vars
  PROVE  RoomInv'
<1>1. TypeOK /\ Stages
  BY DEF RoomInv
<1>2. task' = task
  BY DEF Enter, RemoveMember, AdminDelete, vars
<1>3. TypeOK'
  <2>1. lapses' \subseteq {"crossed", "unpublished"} /\ inputs' \in 0..MaxInputs
    BY <1>1, CrossingTyped, InputTyped
       DEF Enter, RemoveMember, AdminDelete, Request, vars, bounds, history, TypeOK
  <2>2. row' \in Rows \cup {NONE} /\ members' \in SUBSET Users
    BY <1>1 DEF Enter, RemoveMember, AdminDelete, vars, TypeOK
  <2>3. UNCHANGED <<keys, conn, timers, rooms, stray, steady>>
    BY DEF Enter, RemoveMember, AdminDelete, vars, bounds, history
  <2> QED BY <1>1, <1>2, <2>1, <2>2, <2>3 DEF TypeOK, keys, timers
<1>4. Stages'
  BY <1>1, <1>2 DEF Stages
<1> QED BY <1>3, <1>4 DEF RoomInv

LEMMA AbandonedTyped ==
  ASSUME RoomInv, NEW ks \in SUBSET Slots, NEW ss \in SUBSET Sockets, Abandoned(ks, ss)
  PROVE  lapses' \subseteq {"crossed", "unpublished"} /\ stray' \in SUBSET Sockets
<1>1. \A j \in Slots : task[j].pc = "remove" => task[j].sock \in Sockets
  BY Stations DEF Knows
<1> QED BY <1>1 DEF Abandoned, RoomInv, TypeOK

LEMMA FaultTypes ==
  ASSUME RoomInv, (\E k \in Slots : Fail(k)) \/ (\E i \in Instances : Crash(i))
  PROVE  RoomInv'
<1>1. TypeOK
  BY DEF RoomInv
<1>2. inputs' \in 0..MaxInputs
  BY InputTyped DEF Fail, Crash, Request
<1>3. ASSUME NEW k \in Slots, Fail(k)
      PROVE  RoomInv'
  <2>1. lapses' \subseteq {"crossed", "unpublished"} /\ stray' \in SUBSET Sockets /\ Moves(k)
    BY <1>3, AbandonedTyped, DoneMoves DEF Fail
  <2> QED BY <1>1, <1>2, <1>3, <2>1, OneHandler DEF Fail, Moves, TypeOK, keys, timers
<1>4. ASSUME NEW i \in Instances, Crash(i)
      PROVE  RoomInv'
  <2> DEFINE dead == {k \in Slots : task[k].at = i}
             lost == {s \in Sockets : InstanceOf(s) = i /\ conn[s] = "in"}
  <2>1. lapses' \subseteq {"crossed", "unpublished"} /\ stray' \in SUBSET Sockets
    <3>1. Abandoned(dead, lost) /\ dead \in SUBSET Slots /\ lost \in SUBSET Sockets
      BY <1>4 DEF Crash
    <3> QED BY <3>1, AbandonedTyped
  <2>2. task' = [k \in Slots |-> IF k \in dead THEN Free ELSE task[k]]
    BY <1>4 DEF Crash
  <2>3. \A j \in Slots : Sound(task'[j])
    BY <2>2, HandlerSound, FreeSound
  <2>4. task' \in [Slots -> Tasks]
    BY <2>2, <2>3 DEF Sound
  <2>5. /\ conn' \in [Sockets -> {"new", "in", "gone"}]
        /\ timer' \in [Instances -> Users \cup {NONE}]
        /\ orphan' \in SUBSET (Instances \X Users)
    BY <1>1, <1>4 DEF Crash, TypeOK
  <2>6. UNCHANGED <<row, members, keys, rooms, steady>>
    BY <1>4 DEF Crash
  <2>7. \A k \in Slots : /\ task'[k].pc \in {"fill", "write"} => task'[k].seen # NONE
                         /\ task'[k].pc = "publish" => task'[k].next # NONE
    BY <2>3 DEF Sound
  <2>8. TypeOK'
    BY <1>1, <1>2, <2>1, <2>4, <2>5, <2>6, <2>7 DEF TypeOK, keys
  <2>9. Stages'
    BY <2>3 DEF Stages, Sound
  <2> QED BY <2>8, <2>9 DEF RoomInv
<1> QED BY <1>3, <1>4

LEMMA StepTypes == RoomInv /\ [Next]_vars => RoomInv'
<1> SUFFICES ASSUME RoomInv, [Next]_vars
             PROVE  RoomInv'
  OBVIOUS
<1>1. ASSUME NEW k \in Slots, Handler(k)
      PROVE  RoomInv'
  BY <1>1, LoadTypes, SocketTypes, TransferTypes, WriteTypes, LifeTypes DEF Handler
<1>2. ASSUME NEW k \in Slots, Socket(k)
      PROVE  RoomInv'
  BY <1>2, SocketTypes
<1>3. ASSUME NEW k \in Slots, Rest(k)
      PROVE  RoomInv'
  BY <1>3, RestTypes
<1>4. ASSUME NEW k \in Slots, \E i \in Instances : Timer(k, i)
      PROVE  RoomInv'
  BY <1>4, TransferTypes
<1>5. CASE (\E k \in Slots : Fail(k)) \/ \E i \in Instances : Crash(i)
  BY <1>5, FaultTypes
<1>6. CASE (\E u \in Users : Enter(u) \/ RemoveMember(u)) \/ AdminDelete \/ UNCHANGED vars
  BY <1>6, OtherTypes
<1> QED BY <1>1, <1>2, <1>3, <1>4, <1>5, <1>6 DEF Next

LEMMA InitTypes == Init => RoomInv
<1> SUFFICES ASSUME Init
             PROVE  RoomInv
  OBVIOUS
<1>1. row \in Rows
  BY LimitsAssumption DEF Init, NewRow, Rows, Modes
<1>2. task \in [Slots -> Tasks] /\ \A k \in Slots : task[k] = Free
  BY FreeSound DEF Init, Sound
<1>3. 0 \in 0..MaxInputs /\ 1 \in 1..MaxRooms
  BY LimitsAssumption
<1>4. TypeOK
  BY <1>1, <1>2, <1>3, FreeSound DEF Init, TypeOK, Sound
<1>5. Stages
  BY <1>2, FreeSound DEF Stages, Sound
<1> QED BY <1>4, <1>5 DEF RoomInv

\* Types, for any number of users, instances and handlers: a handler about to
\* write holds the row it decided on, one about to publish what it publishes.
THEOREM RoomTypes == Spec => []TypeOK
<1>1. RoomInv => TypeOK
  BY DEF RoomInv
<1> QED BY <1>1, InitTypes, StepTypes, PTL DEF Spec

-----------------------------------------------------------------------------
(* What a step does to the handlers.                                       *)

Others(k) == \A j \in Slots : j # k => task'[j] = task[j]

\* A handler goes on as what it was, or ends.
Continues(k) ==
    /\ Others(k)
    /\ \/ task'[k] = Free
       \/ /\ task'[k].op = task[k].op /\ task'[k].by = task[k].by /\ task'[k].sock = task[k].sock
          /\ task'[k].target = task[k].target \/ task[k].op = "auto"

LEMMA DoneContinues == ASSUME RoomInv, NEW k \in Slots, Done(k) PROVE Continues(k) /\ task'[k] = Free
BY DEF Done, Continues, Others, RoomInv, TypeOK

LEMMA GotoContinues ==
  ASSUME RoomInv, NEW k \in Slots, NEW p, Goto(k, p)
  PROVE  /\ Continues(k) /\ task'[k].pc = p
         /\ task'[k].seen = task[k].seen /\ task'[k].next = task[k].next
<1>1. task \in [Slots -> Tasks] /\ task[k] \in Tasks
  BY DEF RoomInv, TypeOK
<1> QED BY <1>1 DEF Goto, Continues, Others, Tasks

LEMMA LoadedContinues ==
  ASSUME RoomInv, NEW k \in Slots, task[k].pc \in {"get", "fill"}, NEW c, Loaded(k, c)
  PROVE  Continues(k) /\ task'[k].seen = NONE /\ task'[k].pc \in {"free", "present", "list"}
<1>1. task \in [Slots -> Tasks] /\ task[k] \in Tasks /\ task[k].op \in {"join", "leave", "event"}
  BY Stations DEF RoomInv, TypeOK
<1>2. CASE Done(k)
  BY <1>2, DoneContinues, FreeSound
<1>3. CASE task[k].op = "join"
  BY <1>1, <1>3 DEF Loaded, Continues, Others, Tasks
<1>4. CASE task[k].op = "leave" /\ ~Done(k)
  BY <1>1, <1>4 DEF Loaded, Continues, Others, Tasks
<1> QED BY <1>1, <1>2, <1>3, <1>4 DEF Loaded

LEMMA UpdateContinues ==
  ASSUME RoomInv, NEW k \in Slots, NEW r, Update(k, r)
  PROVE  /\ Continues(k)
         /\ \/ task'[k] = Free /\ UNCHANGED <<row, lapses>>
            \/ /\ row # NONE /\ row.id = task[k].seen.id /\ row' = r
               /\ task'[k].pc = "publish" /\ task'[k].next = ToControlState(r)
               /\ task'[k].seen = task[k].seen /\ Crossing(Slots \ {k})
<1>1. task \in [Slots -> Tasks] /\ task[k] \in Tasks
  BY DEF RoomInv, TypeOK
<1>2. CASE Done(k) /\ UNCHANGED <<row, lapses>>
  BY <1>2, DoneContinues
<1>3. CASE ~(Done(k) /\ UNCHANGED <<row, lapses>>)
  BY <1>1, <1>3 DEF Update, Continues, Others, Tasks
<1> QED BY <1>2, <1>3

LEMMA HandoverContinues ==
  ASSUME RoomInv, NEW k \in Slots, Handover(k)
  PROVE  /\ Continues(k)
         /\ \/ task'[k] = Free /\ UNCHANGED <<row, lapses>>
            \/ /\ MayHandOver(k) /\ row' = Handed(k, row)
               /\ task'[k].pc = "publish" /\ task'[k].next = Handed(k, ToControlState(task[k].seen))
               /\ task'[k].seen = task[k].seen /\ Crossing(Slots \ {k})
<1>1. task \in [Slots -> Tasks] /\ task[k] \in Tasks
  BY DEF RoomInv, TypeOK
<1>2. CASE Done(k) /\ UNCHANGED <<row, lapses>>
  BY <1>2, DoneContinues
<1>3. CASE MayHandOver(k)
  BY <1>1, <1>3 DEF Handover, Continues, Others, Tasks
<1> QED BY <1>2, <1>3 DEF Handover

LEMMA ListContinues ==
  ASSUME RoomInv, NEW k \in Slots, AutoRead(k) \/ AutoList(k)
  PROVE  /\ Continues(k) /\ task[k].op = "auto"
         /\ \/ task'[k] = Free
            \/ AutoRead(k) /\ task'[k].pc = "list" /\ task'[k].seen = row /\ row # NONE
            \/ /\ AutoList(k) /\ task'[k].pc = "write" /\ task'[k].seen = task[k].seen
               /\ task[k].by \notin Present
<1>1. task \in [Slots -> Tasks] /\ task[k] \in Tasks /\ task[k].op = "auto"
  BY DEF RoomInv, TypeOK, AutoRead, AutoList
<1>2. CASE Done(k)
  BY <1>1, <1>2, DoneContinues
<1>3. CASE AutoRead(k) /\ ~Done(k)
  BY <1>1, <1>3 DEF AutoRead, Continues, Others, Tasks
<1>4. CASE AutoList(k) /\ ~Done(k)
  <2>1. PICK n \in NextHosts(task[k]) : task' = [task EXCEPT ![k].pc = "write", ![k].target = n]
    BY <1>4 DEF AutoList
  <2>2. task[k].by \notin Present
    BY <1>4 DEF AutoList
  <2> QED BY <1>1, <1>4, <2>1, <2>2 DEF Continues, Others, Tasks
<1> QED BY <1>2, <1>3, <1>4

LEMMA RowReadContinues ==
  ASSUME RoomInv, NEW k \in Slots, ReadRow(k)
  PROVE  /\ Continues(k)
         /\ \/ task'[k] = Free
            \/ task'[k].pc = "fill" /\ task'[k].seen = row
<1>1. task \in [Slots -> Tasks] /\ task[k] \in Tasks
  BY DEF RoomInv, TypeOK
<1>2. CASE Done(k)
  BY <1>2, DoneContinues
<1>3. CASE ~Done(k)
  BY <1>1, <1>3 DEF ReadRow, Continues, Others, Tasks
<1> QED BY <1>2, <1>3

\* A new handler takes a free slot; a copy it begins with is the row.
Begins(k, ops) ==
    /\ Others(k) /\ task[k] = Free
    /\ task'[k].op \in ops

LEMMA Beginnings ==
  ASSUME RoomInv, NEW k \in Slots
  PROVE  /\ \A s \in Sockets : Join(k, s) =>
              Begins(k, {"join"}) /\ task'[k].sock = s /\ task'[k].seen = row /\ task'[k].pc = "get"
         /\ \A s \in Sockets : Disconnect(k, s) =>
              Begins(k, {"leave"}) /\ task'[k].sock = s /\ task'[k].seen = NONE /\ task'[k].pc = "remove"
         /\ \A s \in Sockets : Event(k, s) =>
              Begins(k, {"event"}) /\ task'[k].seen = NONE /\ task'[k].pc = "row"
         /\ \A i \in Instances, u \in Users : StartTransfer(k, i, u) =>
              Begins(k, {"auto"}) /\ task'[k].by = u /\ task'[k].seen = NONE /\ task'[k].pc = "read"
         /\ \A op, u, i, v : HostRequest(k, op, u, i, v) =>
              /\ Begins(k, {op}) /\ task'[k].by = u /\ task'[k].seen = row
              /\ task'[k].pc = "write" /\ task'[k].target = v
         /\ \A u \in Users, i \in Instances : CreateRoom(k, u, i) =>
              Begins(k, {"create"}) /\ task'[k].seen = row' /\ task'[k].pc = "clear"
<1>1. task \in [Slots -> Tasks]
  BY DEF RoomInv, TypeOK
<1>2. ASSUME NEW t, task' = [task EXCEPT ![k] = t], task[k] = Free
      PROVE  task'[k] = t /\ Begins(k, {t.op})
  BY <1>1, <1>2 DEF Begins, Others
<1>3. ASSUME NEW s \in Sockets, Join(k, s)
      PROVE  Begins(k, {"join"}) /\ task'[k].sock = s /\ task'[k].seen = row /\ task'[k].pc = "get"
  <2> DEFINE t == [Free EXCEPT !.op = "join", !.pc = "get", !.by = UserOf(s),
                               !.at = InstanceOf(s), !.sock = s, !.seen = row]
  <2>1. task'[k] = t /\ Begins(k, {t.op})
    BY <1>2, <1>3 DEF Join
  <2> QED BY <2>1 DEF Free
<1>4. ASSUME NEW s \in Sockets, Disconnect(k, s)
      PROVE  Begins(k, {"leave"}) /\ task'[k].sock = s /\ task'[k].seen = NONE
             /\ task'[k].pc = "remove"
  BY <1>2, <1>4 DEF Disconnect, Free
<1>5. ASSUME NEW s \in Sockets, Event(k, s)
      PROVE  Begins(k, {"event"}) /\ task'[k].seen = NONE /\ task'[k].pc = "row"
  BY <1>2, <1>5 DEF Event, Start, Free
<1>6. ASSUME NEW i \in Instances, NEW u \in Users, StartTransfer(k, i, u)
      PROVE  Begins(k, {"auto"}) /\ task'[k].by = u /\ task'[k].seen = NONE /\ task'[k].pc = "read"
  BY <1>2, <1>6 DEF StartTransfer, Start, Free
<1>7. ASSUME NEW op, NEW u, NEW i, NEW v, HostRequest(k, op, u, i, v)
      PROVE  /\ Begins(k, {op}) /\ task'[k].by = u /\ task'[k].seen = row
             /\ task'[k].pc = "write" /\ task'[k].target = v
  <2> DEFINE t == [Free EXCEPT !.op = op, !.pc = "write", !.by = u, !.at = i, !.target = v, !.seen = row]
  <2>1. task'[k] = t /\ Begins(k, {t.op})
    BY <1>2, <1>7 DEF HostRequest
  <2> QED BY <2>1 DEF Free
<1>8. ASSUME NEW u \in Users, NEW i \in Instances, CreateRoom(k, u, i)
      PROVE  Begins(k, {"create"}) /\ task'[k].seen = row' /\ task'[k].pc = "clear"
  BY <1>2, <1>8 DEF CreateRoom, Free
<1> QED BY <1>3, <1>4, <1>5, <1>6, <1>7, <1>8

LEMMA CrashEnds ==
  ASSUME NEW i \in Instances, Crash(i), NEW k \in Slots
  PROVE  task'[k] = (IF task[k].at = i THEN Free ELSE task[k])
BY DEF Crash

LEMMA HandlerContinues ==
  ASSUME RoomInv, NEW k \in Slots, Handler(k)
  PROVE  Continues(k) /\ UNCHANGED <<conn, stray>>
<1>1. CASE Get(k)
  BY <1>1, LoadedContinues, GotoContinues DEF Get, At, history
<1>2. CASE ReadRow(k)
  BY <1>2, RowReadContinues DEF ReadRow, history
<1>3. CASE Fill(k)
  BY <1>3, LoadedContinues DEF Fill, At, history
<1>4. CASE JoinPresent(k)
  BY <1>4, DoneContinues DEF JoinPresent
<1>5. CASE Leave(k)
  BY <1>5, GotoContinues DEF Leave
<1>6. CASE TimerRuns(k)
  BY <1>6, DoneContinues DEF TimerRuns, history
<1>7. CASE Schedule(k)
  BY <1>7, DoneContinues DEF Schedule, history
<1>8. CASE AutoRead(k) \/ AutoList(k)
  BY <1>8, ListContinues DEF AutoRead, AutoList, history
<1>9. CASE Handover(k)
  BY <1>9, HandoverContinues DEF Handover
<1>10. CASE Write(k)
  BY <1>10, UpdateContinues DEF Write, Update
<1>11. CASE Publish(k)
  BY <1>11, DoneContinues DEF Publish, history
<1>12. CASE DeleteRow(k)
  BY <1>12, DoneContinues, GotoContinues DEF DeleteRow
<1>13. CASE ClearRoomState(k)
  BY <1>13, DoneContinues DEF ClearRoomState
<1> QED BY <1>1, <1>2, <1>3, <1>4, <1>5, <1>6, <1>7, <1>8, <1>9, <1>10, <1>11, <1>12, <1>13
        DEF Handler

\* Every step is one of these.
LEMMA Steps ==
  ASSUME [Next]_vars
  PROVE  \/ \E k \in Slots : Handler(k)
         \/ \E k \in Slots, s \in Sockets : Join(k, s) \/ Disconnect(k, s) \/ Event(k, s)
         \/ \E k \in Slots, op \in {"settings", "addCo", "removeCo", "transfer", "delete"},
               u \in Users, i \in Instances, v \in Users \cup {NONE} :
              /\ HostRequest(k, op, u, i, v)
              /\ op = "addCo" =>
                   v # u /\ v \notin row.coHostIds /\ Cardinality(row.coHostIds) < MAX_CO_HOSTS
         \/ \E k \in Slots, u \in Users, i \in Instances : CreateRoom(k, u, i)
         \/ \E k \in Slots, i \in Instances : Timer(k, i)
         \/ \E k \in Slots : Fail(k)
         \/ \E u \in Users : Enter(u) \/ RemoveMember(u)
         \/ AdminDelete
         \/ \E i \in Instances : Crash(i)
         \/ UNCHANGED vars
<1>1. ASSUME NEW k \in Slots, Rest(k)
      PROVE  \/ \E op \in {"settings", "addCo", "removeCo", "transfer", "delete"},
                   u \in Users, i \in Instances, v \in Users \cup {NONE} :
                  /\ HostRequest(k, op, u, i, v)
                  /\ op = "addCo" =>
                       v # u /\ v \notin row.coHostIds /\ Cardinality(row.coHostIds) < MAX_CO_HOSTS
             \/ \E u \in Users, i \in Instances : CreateRoom(k, u, i)
  <2> PICK u \in Users, i \in Instances :
        \/ UpdateSettings(k, u, i)
        \/ \E v \in Users : AddCoHost(k, u, i, v) \/ RemoveCoHost(k, u, i, v) \/ TransferHost(k, u, i, v)
        \/ DeleteRoom(k, u, i)
        \/ CreateRoom(k, u, i)
    BY <1>1 DEF Rest
  <2>1. UpdateSettings(k, u, i) => HostRequest(k, "settings", u, i, NONE)
    BY DEF UpdateSettings
  <2>2. DeleteRoom(k, u, i) => HostRequest(k, "delete", u, i, NONE)
    BY DEF DeleteRoom
  <2>3. \A v \in Users :
          /\ AddCoHost(k, u, i, v) =>
               /\ HostRequest(k, "addCo", u, i, v)
               /\ v # u /\ v \notin row.coHostIds /\ Cardinality(row.coHostIds) < MAX_CO_HOSTS
          /\ RemoveCoHost(k, u, i, v) => HostRequest(k, "removeCo", u, i, v)
          /\ TransferHost(k, u, i, v) => HostRequest(k, "transfer", u, i, v)
    BY DEF AddCoHost, RemoveCoHost, TransferHost
  <2> QED BY <2>1, <2>2, <2>3, Zenon
<1> QED BY <1>1 DEF Next, Socket

LEMMA TimerBegins ==
  ASSUME NEW k \in Slots, NEW i \in Instances, Timer(k, i), RoomInv
  PROVE  \E u \in Users : StartTransfer(k, i, u)
<1>1. timer[i] \in Users \cup {NONE}
  BY DEF RoomInv, TypeOK
<1> QED BY <1>1 DEF Timer, Fire, FireOrphan

-----------------------------------------------------------------------------
(* Presence.                                                               *)

LEMMA StepJoins ==
  ASSUME RoomInv, JoinsConnected, [Next]_vars
  PROVE  JoinsConnected'
<1> USE DEF JoinsConnected
<1>0. conn \in [Sockets -> {"new", "in", "gone"}]
      /\ \A j \in Slots : task[j].op = "join" => task[j].sock \in Sockets
  BY Stations DEF RoomInv, TypeOK, Knows
<1>1. ASSUME NEW k \in Slots, Handler(k)
      PROVE  JoinsConnected'
  BY <1>1, HandlerContinues, FreeSound DEF Continues, Others
<1>2. ASSUME NEW k \in Slots, NEW s \in Sockets, Join(k, s)
      PROVE  JoinsConnected'
  <2>1. conn' = [conn EXCEPT ![s] = "in"] /\ stray' = stray
    BY <1>2 DEF Join, history
  <2> QED BY <1>0, <1>2, <2>1, Beginnings DEF Begins, Others
<1>3. ASSUME NEW k \in Slots, NEW s \in Sockets, Disconnect(k, s)
      PROVE  JoinsConnected'
  <2>1. /\ conn' = [conn EXCEPT ![s] = "gone"] /\ stray \subseteq stray'
        /\ (\E j \in Slots : task[j].op = "join" /\ task[j].sock = s) => s \in stray'
    BY <1>3 DEF Disconnect
  <2>2. \A j \in Slots : task'[j].op = "join" => j # k /\ task'[j] = task[j]
    BY <1>3, Beginnings DEF Begins, Others
  <2> QED BY <1>0, <2>1, <2>2
<1>4. ASSUME NEW k \in Slots, Begins(k, {"event", "auto", "create", "settings", "addCo", "removeCo",
                                         "transfer", "delete"}), UNCHANGED <<conn, stray>>
      PROVE  JoinsConnected'
  BY <1>4 DEF Begins, Others
<1>5. ASSUME NEW k \in Slots, NEW s \in Sockets, Event(k, s)
      PROVE  JoinsConnected'
  BY <1>4, <1>5, Beginnings DEF Begins, Event, history
<1>6. ASSUME NEW k \in Slots, NEW op \in {"settings", "addCo", "removeCo", "transfer", "delete"},
             NEW u \in Users, NEW i \in Instances, NEW v, HostRequest(k, op, u, i, v)
      PROVE  JoinsConnected'
  <2>1. Begins(k, {op})
    BY <1>6, Beginnings, Zenon
  <2>2. UNCHANGED <<conn, stray>>
    BY <1>6 DEF HostRequest, history
  <2> QED BY <1>4, <2>1, <2>2 DEF Begins
<1>7. ASSUME NEW k \in Slots, NEW u \in Users, NEW i \in Instances, CreateRoom(k, u, i)
      PROVE  JoinsConnected'
  BY <1>4, <1>7, Beginnings DEF Begins, CreateRoom
<1>8. ASSUME NEW k \in Slots, NEW i \in Instances, Timer(k, i)
      PROVE  JoinsConnected'
  <2> PICK u \in Users : StartTransfer(k, i, u)
    BY <1>8, TimerBegins
  <2> QED BY <1>4, Beginnings DEF Begins, StartTransfer
<1>9. ASSUME NEW k \in Slots, Fail(k)
      PROVE  JoinsConnected'
  <2>1. stray \subseteq stray' /\ conn' = conn
    BY <1>9 DEF Fail, Abandoned
  <2>2. \A j \in Slots : task'[j].op = "join" => task'[j] = task[j]
    BY <1>9, DoneContinues, FreeSound DEF Fail, Continues, Others
  <2> QED BY <2>1, <2>2
<1>10. ASSUME NEW i \in Instances, Crash(i)
       PROVE  JoinsConnected'
  <2>1. /\ stray \subseteq stray'
        /\ \A s \in Sockets : conn'[s] = conn[s] \/ s \in stray'
    BY <1>10 DEF Crash, Abandoned
  <2>2. \A j \in Slots : task'[j].op = "join" => task'[j] = task[j]
    BY <1>10, CrashEnds, FreeSound
  <2> QED BY <1>0, <2>1, <2>2
<1>11. CASE (\E u \in Users : Enter(u) \/ RemoveMember(u)) \/ AdminDelete \/ UNCHANGED vars
  BY <1>11 DEF Enter, RemoveMember, AdminDelete, vars, history
<1> QED BY <1>1, <1>2, <1>3, <1>5, <1>6, <1>7, <1>8, <1>9, <1>10, <1>11, Steps

\* A listed socket whose connection is gone has somebody to remove it, or nobody.
LEMMA StepListed ==
  ASSUME RoomInv, JoinsConnected, ListedAreConnected, [Next]_vars
  PROVE  ListedAreConnected'
<1> DEFINE Removed(s) == s \in stray \/ \E j \in Slots : task[j].sock = s /\ task[j].pc = "remove"
<1>0. /\ conn \in [Sockets -> {"new", "in", "gone"}] /\ presence \in SUBSET Sockets
      /\ \A s \in presence : conn[s] = "gone" => Removed(s)
      /\ ListedAreConnected' <=> \A s \in presence' : conn'[s] = "gone" => Removed(s)'
  BY DEF RoomInv, TypeOK, ListedAreConnected
<1>1. ASSUME NEW k \in Slots, Others(k), task[k].pc # "remove", stray \subseteq stray',
             presence' \in SUBSET presence,
             \A s \in Sockets : conn'[s] = "gone" => conn[s] = "gone"
      PROVE  ListedAreConnected'
  <2> SUFFICES ASSUME NEW s \in presence', conn'[s] = "gone"
               PROVE  Removed(s)'
    BY <1>0
  <2>1. Removed(s)
    BY <1>0, <1>1
  <2> QED BY <1>1, <2>1 DEF Others
<1>2. ASSUME NEW k \in Slots, Handler(k)
      PROVE  ListedAreConnected'
  <2>1. Others(k) /\ UNCHANGED <<conn, stray>>
    BY <1>2, HandlerContinues DEF Continues
  <2>2. CASE JoinPresent(k)
    <3>1. presence' = presence \cup {task[k].sock} /\ task[k].pc = "present"
      BY <2>2 DEF JoinPresent, SetPresence, At
    <3>2. conn[task[k].sock] = "in" \/ task[k].sock \in stray
      BY <3>1, Stations DEF JoinsConnected
    <3> SUFFICES ASSUME NEW s \in presence', conn'[s] = "gone"
                 PROVE  Removed(s)'
      BY <1>0
    <3>3. Removed(s)
      BY <1>0, <2>1, <3>1, <3>2
    <3> QED BY <2>1, <3>1, <3>3 DEF Others
  <2>3. CASE Leave(k)
    <3>1. presence' = presence \ {task[k].sock}
      BY <2>3 DEF Leave, SetPresence
    <3> SUFFICES ASSUME NEW s \in presence', conn'[s] = "gone"
                 PROVE  Removed(s)'
      BY <1>0
    <3>2. Removed(s) /\ s # task[k].sock
      BY <1>0, <2>1, <3>1
    <3> QED BY <2>1, <3>2 DEF Others
  <2>4. CASE ClearRoomState(k)
    BY <1>0, <2>4 DEF ClearRoomState, SetPresence
  <2>5. CASE ~JoinPresent(k) /\ ~Leave(k) /\ ~ClearRoomState(k)
    <3>1. presence' = presence
      BY <1>2, <2>5 DEF Handler, Get, ReadRow, Fill, TimerRuns, Schedule, AutoRead, AutoList,
           Handover, Write, Update, Publish, DeleteRow, keys
    <3>2. task[k].pc # "remove"
      BY <1>2, <2>5 DEF Handler, Get, ReadRow, Fill, TimerRuns, Schedule, AutoRead, AutoList,
           Handover, Write, Update, Publish, DeleteRow, At
    <3> QED BY <1>1, <2>1, <3>1, <3>2
  <2> QED BY <2>2, <2>3, <2>4, <2>5
<1>3. ASSUME NEW k \in Slots, Others(k), task[k] = Free, UNCHANGED <<presence, conn>>,
             stray \subseteq stray'
      PROVE  ListedAreConnected'
  BY <1>1, <1>3, FreeSound
<1>4. ASSUME NEW k \in Slots, NEW s \in Sockets, Join(k, s)
      PROVE  ListedAreConnected'
  <2>1. conn' = [conn EXCEPT ![s] = "in"] /\ UNCHANGED <<presence, stray>>
    BY <1>4 DEF Join, keys, history
  <2>2. Others(k) /\ task[k] = Free
    BY <1>4, Beginnings DEF Begins
  <2> QED BY <1>0, <1>1, <2>1, <2>2, FreeSound
<1>5. ASSUME NEW k \in Slots, NEW s \in Sockets, Disconnect(k, s)
      PROVE  ListedAreConnected'
  <2>1. conn' = [conn EXCEPT ![s] = "gone"] /\ presence' = presence /\ stray \subseteq stray'
    BY <1>5 DEF Disconnect, keys
  <2>2. Others(k) /\ task[k] = Free /\ task'[k].sock = s /\ task'[k].pc = "remove"
    BY <1>5, Beginnings DEF Begins
  <2> SUFFICES ASSUME NEW x \in presence', conn'[x] = "gone", x # s
               PROVE  Removed(x)'
    BY <1>0, <2>2
  <2>3. Removed(x)
    BY <1>0, <2>1
  <2> QED BY <2>1, <2>2, <2>3, FreeSound DEF Others
<1>6. ASSUME NEW k \in Slots, NEW s \in Sockets, Event(k, s)
      PROVE  ListedAreConnected'
  BY <1>3, <1>6, Beginnings DEF Begins, Event, keys, history
<1>7. ASSUME NEW k \in Slots, NEW op, NEW u, NEW i, NEW v, HostRequest(k, op, u, i, v)
      PROVE  ListedAreConnected'
  <2>1. Begins(k, {op})
    BY <1>7, Beginnings, Zenon
  <2>2. UNCHANGED <<presence, conn, stray>>
    BY <1>7 DEF HostRequest, keys, history
  <2> QED BY <1>3, <2>1, <2>2 DEF Begins
<1>8. ASSUME NEW k \in Slots, NEW u \in Users, NEW i \in Instances, CreateRoom(k, u, i)
      PROVE  ListedAreConnected'
  BY <1>3, <1>8, Beginnings DEF Begins, CreateRoom, keys
<1>9. ASSUME NEW k \in Slots, NEW i \in Instances, Timer(k, i)
      PROVE  ListedAreConnected'
  <2> PICK u \in Users : StartTransfer(k, i, u)
    BY <1>9, TimerBegins
  <2> QED BY <1>3, Beginnings DEF Begins, StartTransfer, keys
<1>10. ASSUME NEW k \in Slots, Fail(k)
       PROVE  ListedAreConnected'
  <2>1. /\ Others(k) /\ UNCHANGED <<presence, conn>> /\ stray \subseteq stray'
        /\ task[k].pc = "remove" => task[k].sock \in stray'
    BY <1>10, DoneContinues DEF Fail, Abandoned, keys, Continues
  <2> SUFFICES ASSUME NEW s \in presence', conn'[s] = "gone"
               PROVE  Removed(s)'
    BY <1>0
  <2>2. Removed(s)
    BY <1>0, <2>1
  <2> QED BY <2>1, <2>2 DEF Others
<1>11. ASSUME NEW i \in Instances, Crash(i)
       PROVE  ListedAreConnected'
  <2>1. /\ presence' = presence /\ stray \subseteq stray'
        /\ \A s \in Sockets : conn'[s] = conn[s] \/ s \in stray'
        /\ \A j \in Slots : task[j].at = i /\ task[j].pc = "remove" => task[j].sock \in stray'
    BY <1>11 DEF Crash, Abandoned, keys
  <2>2. \A j \in Slots : task[j].at # i => task'[j] = task[j]
    BY <1>11, CrashEnds
  <2> SUFFICES ASSUME NEW s \in presence', conn'[s] = "gone", s \notin stray'
               PROVE  Removed(s)'
    BY <1>0
  <2>3. Removed(s) /\ s \notin stray
    BY <1>0, <2>1
  <2> QED BY <2>1, <2>2, <2>3
<1>12. CASE (\E u \in Users : Enter(u) \/ RemoveMember(u)) \/ AdminDelete \/ UNCHANGED vars
  <2>1. UNCHANGED <<presence, conn, task, stray>>
    BY <1>12 DEF Enter, RemoveMember, AdminDelete, vars, keys, history
  <2> QED BY <2>1 DEF ListedAreConnected
<1> QED BY <1>2, <1>4, <1>5, <1>6, <1>7, <1>8, <1>9, <1>10, <1>11, <1>12, Steps

\* A socket in the presence list is connected, about to be removed, or one of
\* those whose removal a race, a failure or a crash prevented.
THEOREM PresenceHolds == Spec => []ListedAreConnected
<1>1. Init => RoomInv /\ JoinsConnected /\ ListedAreConnected
  BY InitTypes, FreeSound DEF Init, JoinsConnected, ListedAreConnected
<1>2. RoomInv /\ JoinsConnected /\ ListedAreConnected /\ [Next]_vars
        => RoomInv' /\ JoinsConnected' /\ ListedAreConnected'
  BY StepTypes, StepJoins, StepListed
<1> QED BY <1>1, <1>2, PTL DEF Spec

-----------------------------------------------------------------------------
(* Transfers.                                                              *)

\* A change of presence drops those whose host it leaves unlisted.
LEMMA SteadyPresence ==
  ASSUME RoomInv, SteadyListed, NEW k \in Slots, Continues(k), task[k].op # "auto",
         NEW s, SetPresence(s)
  PROVE  SteadyListed'
<1>1. \A j \in steady' : j \in steady /\ task[j].by \in Present'
  BY DEF SetPresence, Present
<1>2. \A j \in steady' : task'[j].op = "auto" => task'[j] = task[j]
  <2> TAKE j \in steady'
  <2> HAVE task'[j].op = "auto"
  <2>1. j \in Slots
    BY <1>1 DEF RoomInv, TypeOK
  <2>2. j # k
    BY FreeSound DEF Continues
  <2> QED BY <2>1, <2>2 DEF Continues, Others
<1> QED BY <1>1, <1>2 DEF SteadyListed

\* Without one, a handler that is no transfer changes nothing.
LEMMA SteadyKept ==
  ASSUME RoomInv, SteadyListed, NEW k \in Slots, Others(k), UNCHANGED <<presence, steady>>,
         task'[k].op = "auto" => /\ task[k].op = "auto" /\ task'[k].by = task[k].by
                                 /\ task'[k].pc \in {"read", "list"} \/ k \notin steady
  PROVE  SteadyListed'
BY DEF SteadyListed, Others, Present, RoomInv, TypeOK

LEMMA StepSteady ==
  ASSUME RoomInv, SteadyListed, [Next]_vars
  PROVE  SteadyListed'
<1>0. /\ steady \subseteq Slots
      /\ \A k \in steady : task[k].op = "auto" => task[k].by \in Present /\ task[k].pc \in {"read", "list"}
  BY DEF RoomInv, TypeOK, SteadyListed
<1>1. ASSUME NEW k \in Slots, Handler(k)
      PROVE  SteadyListed'
  <2>1. Continues(k)
    BY <1>1, HandlerContinues
  <2>2. CASE JoinPresent(k)
    <3>1. task[k].op # "auto"
      BY <2>2, Stations DEF JoinPresent, At
    <3> QED BY <2>1, <2>2, <3>1, SteadyPresence DEF JoinPresent
  <2>3. CASE Leave(k)
    <3>1. task[k].op # "auto"
      BY <2>3, Stations DEF Leave, At
    <3> QED BY <2>1, <2>3, <3>1, SteadyPresence DEF Leave
  <2>4. CASE ClearRoomState(k)
    <3>1. task[k].op # "auto"
      BY <2>4, Stations DEF ClearRoomState, At
    <3> QED BY <2>1, <2>4, <3>1, SteadyPresence DEF ClearRoomState
  <2>5. CASE AutoRead(k) \/ AutoList(k)
    <3>1. UNCHANGED <<presence, steady>>
      BY <2>5 DEF AutoRead, AutoList, keys, history
    <3>2. task'[k].op = "auto" => /\ task[k].op = "auto" /\ task'[k].by = task[k].by
                                  /\ task'[k].pc \in {"read", "list"} \/ k \notin steady
      BY <1>0, <2>1, <2>5, ListContinues, FreeSound DEF Continues
    <3> QED BY <2>1, <3>1, <3>2, SteadyKept DEF Continues
  <2>6. CASE Handover(k) \/ Write(k) \/ Publish(k) \/ DeleteRow(k)
    <3>1. UNCHANGED <<presence, steady>> /\ task[k].pc \in {"write", "publish"}
      BY <2>6 DEF Handover, Write, Update, Publish, DeleteRow, keys, history, At
    <3>2. task[k].op = "auto" => k \notin steady
      BY <1>0, <3>1
    <3> QED BY <2>1, <3>1, <3>2, SteadyKept, FreeSound DEF Continues
  <2>7. CASE Get(k) \/ ReadRow(k) \/ Fill(k) \/ TimerRuns(k) \/ Schedule(k)
    <3>1. UNCHANGED <<presence, steady>>
      BY <2>7 DEF Get, ReadRow, Fill, TimerRuns, Schedule, keys, history
    <3>2. task[k].op # "auto"
      BY <2>7, Stations DEF Get, ReadRow, Fill, TimerRuns, Schedule, At
    <3> QED BY <2>1, <3>1, <3>2, SteadyKept, FreeSound DEF Continues
  <2> QED BY <1>1, <2>2, <2>3, <2>4, <2>5, <2>6, <2>7 DEF Handler
<1>2. ASSUME NEW k \in Slots, NEW s \in Sockets, Join(k, s) \/ Disconnect(k, s) \/ Event(k, s)
      PROVE  SteadyListed'
  <2>1. UNCHANGED <<presence, steady>>
    BY <1>2 DEF Join, Disconnect, Event, keys, history
  <2>2. Others(k) /\ task'[k].op # "auto"
    BY <1>2, Beginnings DEF Begins
  <2> QED BY <2>1, <2>2, SteadyKept
<1>3. ASSUME NEW k \in Slots, NEW op \in {"settings", "addCo", "removeCo", "transfer", "delete"},
             NEW u, NEW i, NEW v, HostRequest(k, op, u, i, v)
      PROVE  SteadyListed'
  <2>1. UNCHANGED <<presence, steady>>
    BY <1>3 DEF HostRequest, keys, history
  <2>2. Begins(k, {op})
    BY <1>3, Beginnings, Zenon
  <2> QED BY <2>1, <2>2, SteadyKept DEF Begins
<1>4. ASSUME NEW k \in Slots, NEW u \in Users, NEW i \in Instances, CreateRoom(k, u, i)
      PROVE  SteadyListed'
  <2>1. UNCHANGED <<presence, steady>>
    BY <1>4 DEF CreateRoom, keys
  <2>2. Others(k) /\ task'[k].op # "auto"
    BY <1>4, Beginnings DEF Begins
  <2> QED BY <2>1, <2>2, SteadyKept
<1>5. ASSUME NEW k \in Slots, NEW i \in Instances, Timer(k, i)
      PROVE  SteadyListed'
  <2> PICK u \in Users : StartTransfer(k, i, u)
    BY <1>5, TimerBegins
  <2>1. Others(k) /\ task'[k].by = u /\ task'[k].pc = "read"
    BY Beginnings DEF Begins
  <2>2. /\ presence' = presence
        /\ IF u \in Present THEN steady' = steady \cup {k} ELSE steady' = steady \ {k}
    BY DEF StartTransfer, keys
  <2>3. \A j \in steady' : j = k => u \in Present
    BY <2>2
  <2>4. \A j \in steady' : j # k => j \in steady /\ j \in Slots
    BY <1>0, <2>2
  <2> QED BY <1>0, <2>1, <2>2, <2>3, <2>4 DEF SteadyListed, Others, Present
<1>6. ASSUME NEW k \in Slots, Fail(k)
      PROVE  SteadyListed'
  <2>1. UNCHANGED <<presence, steady>>
    BY <1>6 DEF Fail, keys
  <2> QED BY <1>6, <2>1, DoneContinues, SteadyKept, FreeSound DEF Fail, Continues
<1>7. ASSUME NEW i \in Instances, Crash(i)
      PROVE  SteadyListed'
  <2>1. UNCHANGED <<presence, steady>>
    BY <1>7 DEF Crash, keys
  <2>2. \A j \in Slots : task'[j].op = "auto" => task'[j] = task[j]
    BY <1>7, CrashEnds, FreeSound
  <2> QED BY <1>0, <2>1, <2>2 DEF SteadyListed, Present
<1>8. CASE (\E u \in Users : Enter(u) \/ RemoveMember(u)) \/ AdminDelete \/ UNCHANGED vars
  <2>1. UNCHANGED <<presence, steady, task>>
    BY <1>8 DEF Enter, RemoveMember, AdminDelete, vars, keys, history
  <2> QED BY <2>1 DEF SteadyListed, Present
<1> QED BY <1>1, <1>2, <1>3, <1>4, <1>5, <1>6, <1>7, <1>8, Steps

\* Only a handler at its write goes on to publish.
LEMMA WritersPublish ==
  ASSUME RoomInv, [Next]_vars, NEW k \in Slots, task'[k].pc = "publish", task[k].pc # "publish"
  PROVE  task[k].pc = "write" /\ Handler(k)
<1>1. ASSUME NEW j \in Slots, Handler(j)
      PROVE  task[k].pc = "write" /\ Handler(k)
  <2>1. j = k
    BY <1>1, HandlerContinues DEF Continues, Others
  <2>2. CASE Get(k) \/ Fill(k)
    BY <2>2, LoadedContinues, GotoContinues DEF Get, Fill, At
  <2>3. CASE ReadRow(k) \/ AutoRead(k) \/ AutoList(k)
    BY <2>3, RowReadContinues, ListContinues, FreeSound
  <2>4. CASE JoinPresent(k) \/ Leave(k) \/ TimerRuns(k) \/ Schedule(k) \/ Publish(k)
             \/ ClearRoomState(k)
    BY <2>4, DoneContinues, GotoContinues, FreeSound
       DEF JoinPresent, Leave, TimerRuns, Schedule, Publish, ClearRoomState
  <2>5. CASE Handover(k) \/ Write(k) \/ DeleteRow(k)
    BY <1>1, <2>1, <2>5 DEF Handover, Write, DeleteRow, At
  <2> QED BY <1>1, <2>1, <2>2, <2>3, <2>4, <2>5 DEF Handler
<1>2. ASSUME NEW j \in Slots, Others(j), task'[j].pc # "publish"
      PROVE  FALSE
  BY <1>2 DEF Others
<1>3. ASSUME NEW j \in Slots, NEW s \in Sockets, Join(j, s) \/ Disconnect(j, s) \/ Event(j, s)
      PROVE  FALSE
  BY <1>2, <1>3, Beginnings DEF Begins
<1>4. ASSUME NEW j \in Slots, NEW op, NEW u, NEW i, NEW v, HostRequest(j, op, u, i, v)
      PROVE  FALSE
  <2>1. Begins(j, {op}) /\ task'[j].pc = "write"
    BY <1>4, Beginnings, Zenon
  <2> QED BY <1>2, <2>1 DEF Begins
<1>5. ASSUME NEW j \in Slots, NEW u \in Users, NEW i \in Instances, CreateRoom(j, u, i)
      PROVE  FALSE
  BY <1>2, <1>5, Beginnings DEF Begins
<1>6. ASSUME NEW j \in Slots, NEW i \in Instances, Timer(j, i)
      PROVE  FALSE
  BY <1>2, <1>6, TimerBegins, Beginnings DEF Begins
<1>7. ASSUME NEW j \in Slots, Fail(j)
      PROVE  FALSE
  BY <1>2, <1>7, DoneContinues, FreeSound DEF Fail, Continues
<1>8. ASSUME NEW i \in Instances, Crash(i)
      PROVE  FALSE
  BY <1>8, CrashEnds, FreeSound
<1>9. CASE (\E u \in Users : Enter(u) \/ RemoveMember(u)) \/ AdminDelete \/ UNCHANGED vars
  BY <1>9 DEF Enter, RemoveMember, AdminDelete, vars
<1> QED BY <1>1, <1>3, <1>4, <1>5, <1>6, <1>7, <1>8, <1>9, Steps

\* The grace timer, on whatever instance it fires, never takes the room from a
\* host who has been listed ever since.
THEOREM PresentHostKept == Spec => PresentHostKeeps
<1>1. Init => RoomInv /\ SteadyListed
  BY InitTypes DEF Init, SteadyListed
<1>2. RoomInv /\ SteadyListed /\ [Next]_vars => RoomInv' /\ SteadyListed'
  BY StepTypes, StepSteady
<1>3. RoomInv /\ SteadyListed /\ [Next]_vars
        => [\A k \in steady : task[k].op = "auto" => task'[k].pc # "publish"]_vars
  <2> SUFFICES ASSUME RoomInv, SteadyListed, [Next]_vars,
                      NEW k \in steady, task[k].op = "auto", task'[k].pc = "publish"
               PROVE  FALSE
    OBVIOUS
  <2>1. task[k].pc \in {"read", "list"} /\ k \in Slots
    BY DEF SteadyListed, RoomInv, TypeOK
  <2> QED BY <2>1, WritersPublish
<1> QED BY <1>1, <1>2, <1>3, PTL DEF Spec, PresentHostKeeps

\* The row changes by a write of a handler, by the administrator's delete, or
\* when the code is used again.
Written(k) ==
    /\ task[k].pc = "write" /\ Others(k) /\ Crossing(Slots \ {k}) /\ control' = control
    /\ row # NONE /\ row.id = task[k].seen.id
    /\ \/ /\ task'[k].pc = "clear" /\ row' = NONE
       \/ /\ task'[k].pc = "publish"
          /\ \/ MayHandOver(k) /\ task[k].op \in {"auto", "transfer"} /\ row' = Handed(k, row)
                /\ task'[k].next = Handed(k, ToControlState(task[k].seen))
             \/ /\ task'[k].next = ToControlState(row')
                /\ \/ \E mode \in Modes : row' = [row EXCEPT !.controlMode = mode]
                   \/ task[k].op = "addCo" /\ row' = [row EXCEPT !.coHostIds =
                                                        task[k].seen.coHostIds \cup {task[k].target}]
                   \/ task[k].op = "removeCo" /\ row' = [row EXCEPT !.coHostIds =
                                                           task[k].seen.coHostIds \ {task[k].target}]

LEMMA RowSteps ==
  ASSUME RoomInv, [Next]_vars
  PROVE  \/ row' = row /\ lapses \subseteq lapses'
         \/ \E k \in Slots : Written(k)
         \/ AdminDelete
         \/ \E k \in Slots, u \in Users, i \in Instances : CreateRoom(k, u, i)
<1>1. ASSUME NEW k \in Slots, Handler(k)
      PROVE  (row' = row /\ lapses \subseteq lapses') \/ Written(k)
  <2>1. Continues(k)
    BY <1>1, HandlerContinues
  <2>2. CASE Handover(k)
    BY <2>1, <2>2, HandoverContinues DEF Handover, Written, Continues, At, keys, MayHandOver
  <2>3. CASE Write(k)
    <3>1. ASSUME NEW r, Update(k, r), ~(row' = row /\ lapses \subseteq lapses'),
                 \/ \E mode \in Modes : r = [row EXCEPT !.controlMode = mode]
                 \/ task[k].op = "addCo" /\ r = [row EXCEPT !.coHostIds =
                                                   task[k].seen.coHostIds \cup {task[k].target}]
                 \/ task[k].op = "removeCo" /\ r = [row EXCEPT !.coHostIds =
                                                      task[k].seen.coHostIds \ {task[k].target}]
          PROVE  Written(k)
      <4>1. /\ row # NONE /\ row.id = task[k].seen.id /\ row' = r
            /\ task'[k].pc = "publish" /\ task'[k].next = ToControlState(r)
            /\ Crossing(Slots \ {k})
        BY <3>1, UpdateContinues
      <4>2. control' = control /\ task[k].pc = "write"
        BY <2>3, <3>1 DEF Update, keys, Write, At
      <4> QED BY <2>1, <3>1, <4>1, <4>2 DEF Written, Continues
    <3> QED BY <2>3, <3>1 DEF Write
  <2>4. CASE DeleteRow(k)
    <3>1. CASE row' = row /\ lapses' = lapses
      BY <3>1
    <3>2. CASE ~(row' = row /\ lapses' = lapses)
      <4>1. Goto(k, "clear")
        BY <2>4, <3>2 DEF DeleteRow
      <4> QED BY <2>1, <2>4, <3>2, <4>1, GotoContinues DEF DeleteRow, Written, Continues, At, keys
    <3> QED BY <3>1, <3>2
  <2>5. CASE ~Handover(k) /\ ~Write(k) /\ ~DeleteRow(k)
    BY <1>1, <2>5 DEF Handler, Get, ReadRow, Fill, JoinPresent, Leave, TimerRuns, Schedule,
         AutoRead, AutoList, Publish, ClearRoomState, history
  <2> QED BY <2>2, <2>3, <2>4, <2>5
<1>2. ASSUME NEW k \in Slots, NEW s \in Sockets, Join(k, s) \/ Disconnect(k, s) \/ Event(k, s)
      PROVE  row' = row /\ lapses' = lapses
  BY <1>2 DEF Join, Disconnect, Event, history
<1>3. ASSUME NEW k \in Slots, NEW op, NEW u, NEW i, NEW v, HostRequest(k, op, u, i, v)
      PROVE  row' = row /\ lapses' = lapses
  BY <1>3 DEF HostRequest, history
<1>4. ASSUME NEW k \in Slots, NEW i \in Instances, Timer(k, i)
      PROVE  row' = row /\ lapses' = lapses
  BY <1>4, TimerBegins DEF StartTransfer
<1>5. CASE (\E k \in Slots : Fail(k)) \/ \E i \in Instances : Crash(i)
  BY <1>5 DEF Fail, Crash, Abandoned
<1>6. CASE (\E u \in Users : Enter(u) \/ RemoveMember(u)) \/ UNCHANGED vars
  BY <1>6 DEF Enter, RemoveMember, vars, history
<1> QED BY <1>1, <1>2, <1>3, <1>4, <1>5, <1>6, Steps

\* A room changes hands only by a transfer decided against its present host:
\* of two at once, by hand or by the timers of two instances, one wins.
THEOREM HandedOnce == Spec => HandedOverOnce
<1>1. RoomInv /\ [Next]_vars =>
        [row # NONE /\ row' # NONE /\ row.id = row'.id /\ row.hostId # row'.hostId
           => \E k \in Slots : task[k].pc = "write" /\ task[k].by = row.hostId
                               /\ task[k].target = row'.hostId]_vars
  <2> SUFFICES ASSUME RoomInv, [Next]_vars, row # NONE, row' # NONE, row.hostId # row'.hostId
               PROVE  \E k \in Slots : task[k].pc = "write" /\ task[k].by = row.hostId
                                       /\ task[k].target = row'.hostId
    OBVIOUS
  <2>1. row \in Rows
    BY DEF RoomInv, TypeOK
  <2>2. PICK k \in Slots : Written(k)
    BY RowSteps DEF AdminDelete, CreateRoom
  <2>3. MayHandOver(k) /\ row' = Handed(k, row)
    BY <2>1, <2>2 DEF Written, Rows
  <2>4. row'.hostId = task[k].target
    BY <2>1, <2>3 DEF Handed, Rows
  <2> QED BY <2>2, <2>3, <2>4 DEF Written, MayHandOver
<1> QED BY <1>1, InitTypes, StepTypes, PTL DEF Spec, HandedOverOnce

-----------------------------------------------------------------------------
(* Copies of the row.                                                      *)

\* A handler drops its copy, takes one of the row, or keeps the one it has.
LEMMA CopySteps ==
  ASSUME RoomInv, [Next]_vars, NEW j \in Slots
  PROVE  \/ task'[j].seen = NONE /\ task'[j].pc # "publish"
         \/ task'[j].seen = row /\ task'[j].pc \notin {"publish", "clear"}
         \/ task'[j].pc = "clear"
         \/ /\ task'[j].seen = task[j].seen /\ task'[j].next = task[j].next
            /\ \/ task'[j].pc = task[j].pc
               \/ task[j].pc \notin {"publish", "clear"} /\ task'[j].pc # "publish"
         \/ \E k \in Slots : Written(k)
<1>1. ASSUME NEW k \in Slots, Others(k), j # k
      PROVE  task'[j] = task[j]
  BY <1>1 DEF Others
<1>2. ASSUME Handler(j)
      PROVE  \/ task'[j].seen = NONE /\ task'[j].pc # "publish"
             \/ task'[j].seen = row /\ task'[j].pc \notin {"publish", "clear"}
             \/ task'[j].pc = "clear"
             \/ /\ task'[j].seen = task[j].seen /\ task'[j].next = task[j].next
                /\ task[j].pc \notin {"publish", "clear"} /\ task'[j].pc # "publish"
             \/ \E k \in Slots : Written(k)
  <2>1. CASE Get(j) \/ Fill(j)
    BY <2>1, LoadedContinues, GotoContinues DEF Get, Fill, At
  <2>2. CASE ReadRow(j)
    BY <2>2, RowReadContinues, FreeSound
  <2>3. CASE AutoRead(j) \/ AutoList(j)
    <3>1. task'[j].next = task[j].next \/ task'[j] = Free \/ AutoRead(j)
      <4>1. task[j] \in Tasks /\ task \in [Slots -> Tasks]
        BY DEF RoomInv, TypeOK
      <4>2. CASE Done(j)
        BY <4>2, DoneContinues
      <4>3. CASE ~Done(j) /\ AutoList(j)
        <5>1. PICK n \in NextHosts(task[j]) : task' = [task EXCEPT ![j].pc = "write", ![j].target = n]
          BY <4>3 DEF AutoList
        <5> QED BY <4>1, <5>1 DEF Tasks
      <4> QED BY <2>3, <4>2, <4>3
    <3>2. CASE task'[j] = Free
      BY <3>2, FreeSound
    <3>3. CASE AutoRead(j) /\ task'[j] # Free
      <4>1. task[j].pc = "read"
        BY <3>3 DEF AutoRead, At
      <4>2. ~AutoList(j)
        BY <4>1 DEF AutoList, At
      <4> QED BY <3>3, <4>2, ListContinues
    <3>4. CASE AutoList(j) /\ task'[j] # Free
      <4>1. task[j].pc = "list"
        BY <3>4 DEF AutoList, At
      <4>2. ~AutoRead(j)
        BY <4>1 DEF AutoRead, At
      <4> QED BY <3>1, <3>4, <4>1, <4>2, ListContinues
    <3> QED BY <2>3, <3>2, <3>3, <3>4
  <2>4. CASE Leave(j)
    BY <2>4, GotoContinues DEF Leave, At
  <2>5. CASE JoinPresent(j) \/ TimerRuns(j) \/ Schedule(j) \/ Publish(j) \/ ClearRoomState(j)
    BY <2>5, DoneContinues, FreeSound DEF JoinPresent, TimerRuns, Schedule, Publish, ClearRoomState
  <2>6. CASE DeleteRow(j)
    BY <2>6, DoneContinues, GotoContinues, FreeSound DEF DeleteRow
  <2>7. CASE Handover(j)
    <3>1. CASE task'[j] = Free
      BY <3>1, FreeSound
    <3>2. CASE task'[j] # Free
      BY <2>7, <3>2, HandoverContinues DEF Handover, Written, Continues, At, keys, MayHandOver
    <3> QED BY <3>1, <3>2
  <2>8. CASE Write(j)
    <3>1. ASSUME NEW r, Update(j, r), task'[j] # Free,
                 \/ \E mode \in Modes : r = [row EXCEPT !.controlMode = mode]
                 \/ task[j].op = "addCo" /\ r = [row EXCEPT !.coHostIds =
                                                   task[j].seen.coHostIds \cup {task[j].target}]
                 \/ task[j].op = "removeCo" /\ r = [row EXCEPT !.coHostIds =
                                                      task[j].seen.coHostIds \ {task[j].target}]
          PROVE  Written(j)
      <4>1. /\ row # NONE /\ row.id = task[j].seen.id /\ row' = r
            /\ task'[j].pc = "publish" /\ task'[j].next = ToControlState(r)
            /\ Crossing(Slots \ {j}) /\ Continues(j)
        BY <3>1, UpdateContinues
      <4>2. control' = control /\ task[j].pc = "write"
        BY <2>8, <3>1 DEF Update, keys, Write, At
      <4> QED BY <3>1, <4>1, <4>2 DEF Written, Continues
    <3>2. task'[j] = Free \/ Written(j)
      BY <2>8, <3>1 DEF Write
    <3> QED BY <3>2, FreeSound
  <2> QED BY <1>2, <2>1, <2>2, <2>3, <2>4, <2>5, <2>6, <2>7, <2>8 DEF Handler
<1>3. ASSUME NEW k \in Slots, Handler(k), j # k
      PROVE  task'[j] = task[j]
  BY <1>3, HandlerContinues DEF Continues, Others
<1>4. ASSUME NEW k \in Slots, NEW s \in Sockets, Join(k, s) \/ Disconnect(k, s) \/ Event(k, s)
      PROVE  \/ task'[j] = task[j]
             \/ task'[j].seen \in {NONE, row} /\ task'[j].pc \notin {"publish", "clear"}
  BY <1>4, Beginnings DEF Begins, Others
<1>5. ASSUME NEW k \in Slots, NEW op, NEW u, NEW i, NEW v, HostRequest(k, op, u, i, v)
      PROVE  \/ task'[j] = task[j]
             \/ task'[j].seen = row /\ task'[j].pc \notin {"publish", "clear"}
  <2>1. Begins(k, {op}) /\ task'[k].seen = row /\ task'[k].pc = "write"
    BY <1>5, Beginnings, Zenon
  <2> QED BY <2>1 DEF Begins, Others
<1>6. ASSUME NEW k \in Slots, NEW u \in Users, NEW i \in Instances, CreateRoom(k, u, i)
      PROVE  task'[j] = task[j] \/ task'[j].pc = "clear"
  BY <1>6, Beginnings DEF Begins, Others
<1>7. ASSUME NEW k \in Slots, NEW i \in Instances, Timer(k, i)
      PROVE  \/ task'[j] = task[j]
             \/ task'[j].seen = NONE /\ task'[j].pc # "publish"
  BY <1>7, TimerBegins, Beginnings DEF Begins, Others
<1>8. ASSUME NEW k \in Slots, Fail(k)
      PROVE  task'[j] = task[j] \/ task'[j] = Free
  BY <1>8, DoneContinues DEF Fail, Continues, Others
<1>9. ASSUME NEW i \in Instances, Crash(i)
      PROVE  task'[j] = task[j] \/ task'[j] = Free
  BY <1>9, CrashEnds
<1>10. CASE (\E u \in Users : Enter(u) \/ RemoveMember(u)) \/ AdminDelete \/ UNCHANGED vars
  <2>1. task'[j] = task[j]
    BY <1>10 DEF Enter, RemoveMember, AdminDelete, vars
  <2> QED BY <2>1
<1> QED BY <1>2, <1>3, <1>4, <1>5, <1>6, <1>7, <1>8, <1>9, <1>10, Steps, FreeSound

\* A change of the row that crosses nobody leaves no other copy behind.
LEMMA NobodyCrossed ==
  ASSUME RoomInv, NEW ks \in SUBSET Slots, Crossing(ks), "crossed" \notin lapses'
  PROVE  /\ lapses' = lapses
         /\ \A j \in ks : task[j].seen = NONE /\ task[j].pc # "publish"
<1>1. Holders(ks) = {} /\ lapses' = lapses
  BY DEF Crossing
<1>2. \A j \in ks : task[j].seen = NONE /\ task[j].next = NONE
  BY <1>1 DEF Holders
<1> QED BY <1>1, <1>2 DEF RoomInv, TypeOK

\* A transfer changes row and cache in the same way.
LEMMA HandedBoth ==
  ASSUME NEW k \in Slots, NEW r \in Rows
  PROVE  ToControlState(Handed(k, r)) = Handed(k, ToControlState(r))
<1> DEFINE left == task[k].seen.coHostIds \ {task[k].target}
<1>1. /\ Handed(k, r).hostId = task[k].target /\ Handed(k, r).coHostIds = left
      /\ Handed(k, r).controlMode = r.controlMode
  BY DEF Handed, Rows
<1>2. ToControlState(Handed(k, r)) =
        [hostId |-> task[k].target, coHostIds |-> left, controlMode |-> r.controlMode]
  BY <1>1 DEF ToControlState
<1>3. Handed(k, ToControlState(r)) =
        [hostId |-> task[k].target, coHostIds |-> left, controlMode |-> r.controlMode]
  <2> DEFINE Only(h, cs) == [hostId : {h}, coHostIds : {cs}, controlMode : {r.controlMode}]
             c == ToControlState(r)
  <2>1. c \in Only(r.hostId, r.coHostIds)
    BY DEF ToControlState
  <2>2. Handed(k, c) = [c EXCEPT !.hostId = task[k].target, !.coHostIds = left]
    BY DEF Handed
  <2> HIDE DEF c
  <2>3. [c EXCEPT !.hostId = task[k].target, !.coHostIds = left] \in Only(task[k].target, left)
    BY <2>1
  <2>4. Handed(k, c) = [hostId |-> task[k].target, coHostIds |-> left, controlMode |-> r.controlMode]
    BY <2>2, <2>3
  <2> QED BY <2>4 DEF c
<1> QED BY <1>2, <1>3

LEMMA StepCopies ==
  ASSUME RoomInv, CopiesCurrent, [Next]_vars
  PROVE  CopiesCurrent'
<1> SUFFICES ASSUME "crossed" \notin lapses', NEW j \in Slots
             PROVE  /\ task'[j].seen # NONE /\ task'[j].pc \notin {"publish", "clear"}
                         => task'[j].seen = row'
                    /\ task'[j].pc = "publish" => row' # NONE /\ task'[j].next = ToControlState(row')
  BY DEF CopiesCurrent
<1>1. ASSUME NEW k \in Slots, Written(k)
      PROVE  /\ task'[j].seen # NONE /\ task'[j].pc \notin {"publish", "clear"}
                  => task'[j].seen = row'
             /\ task'[j].pc = "publish" => row' # NONE /\ task'[j].next = ToControlState(row')
  <2>1. lapses' = lapses /\ \A i \in Slots \ {k} : task[i].seen = NONE /\ task[i].pc # "publish"
    BY <1>1, NobodyCrossed DEF Written
  <2>2. CASE j # k
    BY <1>1, <2>1, <2>2 DEF Written, Others
  <2>3. CASE j = k /\ task'[k].pc = "clear"
    BY <2>3
  <2>4. CASE j = k /\ task'[k].pc # "clear"
    <3>1. task'[k].pc = "publish" /\ row \in Rows /\ task[k].seen = row
      BY <1>1, <2>1, <2>4 DEF Written, CopiesCurrent, RoomInv, TypeOK
    <3>2. task'[k].next = ToControlState(row')
      <4>1. CASE row' = Handed(k, row) /\ task'[k].next = Handed(k, ToControlState(task[k].seen))
        BY <3>1, <4>1, HandedBoth
      <4> QED BY <1>1, <3>1, <4>1 DEF Written
    <3>3. RoomInv'
      BY StepTypes
    <3>4. row' # NONE
      <4>1. task[k].pc = "write" /\ row # NONE
        BY <1>1 DEF Written
      <4>2. task[k].seen.coHostIds \cup {task[k].target} \in SUBSET Users
            \/ task[k].op \notin {"addCo", "removeCo"}
        BY <3>1, <4>1, Stations DEF Knows, Rows
      <4>3. task[k].op \in {"auto", "transfer"} => task[k].target \in Users
        BY <4>1, Stations DEF Knows
      <4>4. row' \in Rows
        <5>1. \/ task[k].op \in {"auto", "transfer"} /\ row' = Handed(k, row)
              \/ \E mode \in Modes : row' = [row EXCEPT !.controlMode = mode]
              \/ task[k].op \in {"addCo", "removeCo"}
                 /\ \E us \in {task[k].seen.coHostIds \cup {task[k].target},
                               task[k].seen.coHostIds \ {task[k].target}} :
                      row' = [row EXCEPT !.coHostIds = us]
          BY <1>1, <3>1 DEF Written
        <5>2. task[k].op \in {"addCo", "removeCo"} =>
                task[k].seen.coHostIds \ {task[k].target} \in SUBSET Users
          BY <4>2
        <5> QED BY <4>1, <4>2, <4>3, <5>1, <5>2, RowTyped
      <4> QED BY <4>4, NullAssumption
    <3> QED BY <2>4, <3>1, <3>2, <3>4
  <2> QED BY <2>2, <2>3, <2>4
<1>2. CASE AdminDelete
  <2>1. lapses' = lapses /\ task' = task /\ \A i \in Slots : task[i].seen = NONE /\ task[i].pc # "publish"
    BY <1>2, NobodyCrossed DEF AdminDelete
  <2> QED BY <2>1
<1>3. ASSUME NEW k \in Slots, NEW u \in Users, NEW i \in Instances, CreateRoom(k, u, i)
      PROVE  /\ task'[j].seen # NONE /\ task'[j].pc \notin {"publish", "clear"}
                  => task'[j].seen = row'
             /\ task'[j].pc = "publish" => row' # NONE /\ task'[j].next = ToControlState(row')
  <2>1. \A x \in Slots \ {k} : task[x].seen = NONE /\ task[x].pc # "publish"
    BY <1>3, NobodyCrossed DEF CreateRoom
  <2>2. Others(k) /\ task'[k].pc = "clear"
    BY <1>3, Beginnings DEF Begins
  <2> QED BY <2>1, <2>2 DEF Others
<1>4. CASE row' = row /\ lapses \subseteq lapses' /\ ~\E k \in Slots : Written(k)
  <2>1. /\ task[j].seen # NONE /\ task[j].pc \notin {"publish", "clear"} => task[j].seen = row
        /\ task[j].pc = "publish" => row # NONE /\ task[j].next = ToControlState(row)
    BY <1>4 DEF CopiesCurrent
  <2> QED BY <1>4, <2>1, CopySteps
<1> QED BY <1>1, <1>2, <1>3, <1>4, RowSteps

\* What can change the control key, or take a handler away that will.
LEMMA ControlSteps ==
  ASSUME RoomInv, [Next]_vars
  PROVE  \/ \E k \in Slots : Fill(k) \/ Publish(k) \/ ClearRoomState(k)
         \/ "unpublished" \in lapses'
         \/ /\ control' = control
            /\ \A j \in Slots : task[j].pc \in {"publish", "clear"} => task'[j].pc = task[j].pc
<1> DEFINE Storing(j) == task[j].pc \in {"publish", "clear"}
<1>1. ASSUME NEW k \in Slots, Others(k), ~Storing(k), control' = control
      PROVE  \A j \in Slots : Storing(j) => task'[j].pc = task[j].pc
  BY <1>1 DEF Others
<1>2. ASSUME NEW k \in Slots, Handler(k), ~Fill(k), ~Publish(k), ~ClearRoomState(k)
      PROVE  control' = control /\ \A j \in Slots : Storing(j) => task'[j].pc = task[j].pc
  <2>1. control' = control
    BY <1>2 DEF Handler, Get, ReadRow, JoinPresent, Leave, TimerRuns, Schedule, AutoRead, AutoList,
         Handover, Write, Update, DeleteRow, keys
  <2>2. ~Storing(k)
    BY <1>2 DEF Handler, Get, ReadRow, JoinPresent, Leave, TimerRuns, Schedule, AutoRead, AutoList,
         Handover, Write, DeleteRow, At
  <2> QED BY <1>1, <1>2, <2>1, <2>2, HandlerContinues DEF Continues
<1>3. ASSUME NEW k \in Slots, Others(k), task[k] = Free, control' = control
      PROVE  control' = control /\ \A j \in Slots : Storing(j) => task'[j].pc = task[j].pc
  BY <1>1, <1>3, FreeSound
<1>4. ASSUME NEW k \in Slots, NEW s \in Sockets, Join(k, s) \/ Disconnect(k, s) \/ Event(k, s)
      PROVE  control' = control /\ \A j \in Slots : Storing(j) => task'[j].pc = task[j].pc
  <2>1. control' = control
    BY <1>4 DEF Join, Disconnect, Event, keys
  <2> QED BY <1>3, <1>4, <2>1, Beginnings DEF Begins
<1>5. ASSUME NEW k \in Slots, NEW op, NEW u, NEW i, NEW v, HostRequest(k, op, u, i, v)
      PROVE  control' = control /\ \A j \in Slots : Storing(j) => task'[j].pc = task[j].pc
  <2>1. Begins(k, {op})
    BY <1>5, Beginnings, Zenon
  <2>2. control' = control
    BY <1>5 DEF HostRequest, keys
  <2> QED BY <1>3, <2>1, <2>2 DEF Begins
<1>6. ASSUME NEW k \in Slots, NEW u \in Users, NEW i \in Instances, CreateRoom(k, u, i)
      PROVE  control' = control /\ \A j \in Slots : Storing(j) => task'[j].pc = task[j].pc
  BY <1>3, <1>6, Beginnings DEF Begins, CreateRoom, keys
<1>7. ASSUME NEW k \in Slots, NEW i \in Instances, Timer(k, i)
      PROVE  control' = control /\ \A j \in Slots : Storing(j) => task'[j].pc = task[j].pc
  <2> PICK u \in Users : StartTransfer(k, i, u)
    BY <1>7, TimerBegins
  <2> QED BY <1>3, Beginnings DEF Begins, StartTransfer, keys
<1>8. ASSUME NEW k \in Slots, Fail(k), "unpublished" \notin lapses'
      PROVE  control' = control /\ \A j \in Slots : Storing(j) => task'[j].pc = task[j].pc
  <2>1. ~Storing(k) /\ control' = control
    BY <1>8 DEF Fail, Abandoned, keys
  <2> QED BY <1>1, <1>8, <2>1, DoneContinues DEF Fail, Continues
<1>9. ASSUME NEW i \in Instances, Crash(i), "unpublished" \notin lapses'
      PROVE  control' = control /\ \A j \in Slots : Storing(j) => task'[j].pc = task[j].pc
  <2>1. control' = control /\ \A j \in Slots : Storing(j) => task[j].at # i
    BY <1>9 DEF Crash, Abandoned, keys
  <2> QED BY <1>9, <2>1, CrashEnds
<1>10. CASE (\E u \in Users : Enter(u) \/ RemoveMember(u)) \/ AdminDelete \/ UNCHANGED vars
  BY <1>10 DEF Enter, RemoveMember, AdminDelete, vars, keys
<1> QED BY <1>2, <1>4, <1>5, <1>6, <1>7, <1>8, <1>9, <1>10, Steps

LEMMA StepControl ==
  ASSUME RoomInv, CopiesCurrent, ControlCurrent, [Next]_vars
  PROVE  ControlCurrent'
<1> SUFFICES ASSUME lapses' = {}, row' # NONE,
                    ~\E k \in Slots : task'[k].pc \in {"publish", "clear"}
             PROVE  control' \in {NONE, ToControlState(row')}
  BY DEF ControlCurrent
<1>1. row' = row /\ lapses = {}
  <2>1. ~\E k \in Slots : Written(k)
    BY DEF Written
  <2>2. ~\E k \in Slots, u \in Users, i \in Instances : CreateRoom(k, u, i)
    BY Beginnings
  <2>3. ~AdminDelete
    BY DEF AdminDelete
  <2> QED BY <2>1, <2>2, <2>3, RowSteps
<1>2. \A k \in Slots : /\ task[k].pc = "fill" => task[k].seen = row
                       /\ task[k].pc = "publish" => task[k].next = ToControlState(row)
  BY <1>1 DEF CopiesCurrent, RoomInv, TypeOK
<1>3. ASSUME NEW k \in Slots, Fill(k) \/ Publish(k) \/ ClearRoomState(k)
      PROVE  control' \in {NONE, ToControlState(row)}
  BY <1>2, <1>3 DEF Fill, Publish, ClearRoomState, At
<1>4. CASE /\ control' = control
           /\ \A j \in Slots : task[j].pc \in {"publish", "clear"} => task'[j].pc = task[j].pc
  <2>1. ~\E k \in Slots : task[k].pc \in {"publish", "clear"}
    BY <1>4
  <2> QED BY <1>1, <1>4, <2>1 DEF ControlCurrent
<1> QED BY <1>1, <1>3, <1>4, ControlSteps

\* The cached control every permission check reads is empty or equal to the row
\* once its writers are done, unless requests crossed or a publish failed; a code
\* used again inherits nothing.
THEOREM ControlKeptCurrent == Spec => []ControlFollowsRow
<1>1. Init => RoomInv /\ CopiesCurrent /\ ControlCurrent
  BY InitTypes, FreeSound DEF Init, CopiesCurrent, ControlCurrent
<1>2. RoomInv /\ CopiesCurrent /\ ControlCurrent /\ [Next]_vars
        => RoomInv' /\ CopiesCurrent' /\ ControlCurrent'
  BY StepTypes, StepCopies, StepControl
<1>3. ControlCurrent => ControlFollowsRow
  BY DEF ControlCurrent, ControlFollowsRow
<1> QED BY <1>1, <1>2, <1>3, PTL DEF Spec

-----------------------------------------------------------------------------
(* Co-hosts.                                                               *)

Few(us) == Cardinality(us) <= MAX_CO_HOSTS

\* The row and the copies that will be written back respect the limit, and the
\* copy of one who adds a co-host leaves room for him; he is not the host.
CoHostsKept ==
    /\ row # NONE => Few(row.coHostIds)
    /\ "crossed" \notin lapses /\ row # NONE => row.hostId \notin row.coHostIds
    /\ \A k \in Slots :
         /\ task[k].seen # NONE /\ task[k].pc \notin {"publish", "clear"} => Few(task[k].seen.coHostIds)
         /\ task[k].op = "addCo" /\ task[k].pc = "write" =>
              /\ Cardinality(task[k].seen.coHostIds) < MAX_CO_HOSTS
              /\ task[k].target # task[k].seen.hostId

LEMMA FewLemma ==
  ASSUME NEW us \in SUBSET Users
  PROVE  /\ Cardinality(us) \in Nat
         /\ \A v : Few(us) => Few(us \ {v})
         /\ \A v : Cardinality(us) < MAX_CO_HOSTS => Few(us \cup {v})
         /\ Few({})
<1>1. IsFiniteSet(us) /\ Cardinality(us) \in Nat
  BY UsersAssumption, FS_Subset, FS_CardinalityType
<1>2. ASSUME NEW v, Few(us)
      PROVE  Few(us \ {v})
  <2>1. Cardinality(us \ {v}) <= Cardinality(us) /\ Cardinality(us \ {v}) \in Nat
    BY <1>1, FS_Subset, FS_CardinalityType
  <2> QED BY <1>1, <1>2, <2>1, LimitsAssumption DEF Few
<1>3. ASSUME NEW v, Cardinality(us) < MAX_CO_HOSTS
      PROVE  Few(us \cup {v})
  <2>1. Cardinality(us \cup {v}) \in {Cardinality(us), Cardinality(us) + 1}
    BY <1>1, FS_AddElement
  <2> QED BY <1>1, <1>3, <2>1, LimitsAssumption DEF Few
<1>4. Few({})
  BY FS_EmptySet, LimitsAssumption DEF Few
<1> QED BY <1>1, <1>2, <1>3, <1>4

\* A handler about to add a co-host was there before, or tested the limit now.
LEMMA AddingSteps ==
  ASSUME RoomInv, [Next]_vars, NEW j \in Slots, task'[j].op = "addCo", task'[j].pc = "write"
  PROVE  \/ task'[j] = task[j]
         \/ /\ row # NONE /\ task'[j].seen = row /\ task'[j].target # row.hostId
            /\ Cardinality(row.coHostIds) < MAX_CO_HOSTS
<1>1. ASSUME NEW k \in Slots, Handler(k)
      PROVE  task'[j] = task[j]
  <2>1. CASE j # k
    BY <1>1, <2>1, HandlerContinues DEF Continues, Others
  <2>2. CASE j = k
    <3>1. task[k].op = "addCo" /\ task[k].pc \in {"write", "publish"}
      BY <1>1, <2>2, HandlerContinues, Stations, FreeSound DEF Continues, Stage
    <3>2. CASE Write(k)
      BY <2>2, <3>2, UpdateContinues, FreeSound DEF Write
    <3>3. CASE Publish(k)
      BY <2>2, <3>3, DoneContinues, FreeSound DEF Publish
    <3>4. ~Write(k) /\ ~Publish(k) => FALSE
      BY <1>1, <3>1 DEF Handler, Get, ReadRow, Fill, JoinPresent, Leave, TimerRuns, Schedule,
           AutoRead, AutoList, Handover, DeleteRow, ClearRoomState, At
    <3> QED BY <3>2, <3>3, <3>4
  <2> QED BY <2>1, <2>2
<1>2. ASSUME NEW k \in Slots, NEW s \in Sockets, Join(k, s) \/ Disconnect(k, s) \/ Event(k, s)
      PROVE  task'[j] = task[j]
  BY <1>2, Beginnings DEF Begins, Others
<1>3. ASSUME NEW k \in Slots, NEW op, NEW u, NEW i, NEW v, HostRequest(k, op, u, i, v),
             op = "addCo" => v # u /\ v \notin row.coHostIds /\ Cardinality(row.coHostIds) < MAX_CO_HOSTS
      PROVE  \/ task'[j] = task[j]
             \/ /\ row # NONE /\ task'[j].seen = row /\ task'[j].target # row.hostId
                /\ Cardinality(row.coHostIds) < MAX_CO_HOSTS
  <2>1. /\ Begins(k, {op}) /\ task'[k].by = u /\ task'[k].seen = row
        /\ task'[k].pc = "write" /\ task'[k].target = v
    BY <1>3, Beginnings, Zenon
  <2>2. row # NONE /\ row.hostId = u
    BY <1>3 DEF HostRequest
  <2> QED BY <1>3, <2>1, <2>2 DEF Begins, Others
<1>4. ASSUME NEW k \in Slots, NEW u \in Users, NEW i \in Instances, CreateRoom(k, u, i)
      PROVE  task'[j] = task[j]
  BY <1>4, Beginnings DEF Begins, Others
<1>5. ASSUME NEW k \in Slots, NEW i \in Instances, Timer(k, i)
      PROVE  task'[j] = task[j]
  BY <1>5, TimerBegins, Beginnings DEF Begins, Others
<1>6. ASSUME NEW k \in Slots, Fail(k)
      PROVE  task'[j] = task[j]
  BY <1>6, DoneContinues, FreeSound DEF Fail, Continues, Others
<1>7. ASSUME NEW i \in Instances, Crash(i)
      PROVE  task'[j] = task[j]
  BY <1>7, CrashEnds, FreeSound
<1>8. CASE (\E u \in Users : Enter(u) \/ RemoveMember(u)) \/ AdminDelete \/ UNCHANGED vars
  BY <1>8 DEF Enter, RemoveMember, AdminDelete, vars
<1> QED BY <1>1, <1>2, <1>3, <1>4, <1>5, <1>6, <1>7, <1>8, Steps

\* What a write makes of the co-hosts.
LEMMA WrittenCoHosts ==
  ASSUME RoomInv, CopiesCurrent, CoHostsKept, NEW k \in Slots, Written(k), row' # NONE
  PROVE  /\ Few(row'.coHostIds)
         /\ "crossed" \notin lapses' => row'.hostId \notin row'.coHostIds
<1>1. row \in Rows /\ row # NONE /\ task[k].seen \in Rows /\ task[k].pc = "write"
      /\ task[k].seen # NONE
  BY RowTyped, HandlerSound DEF Written, Sound
<1>2. task[k].seen.coHostIds \in SUBSET Users /\ Few(task[k].seen.coHostIds) /\ Few(row.coHostIds)
  BY <1>1 DEF CoHostsKept, Rows
<1>3. "crossed" \notin lapses' => task[k].seen = row /\ row.hostId \notin row.coHostIds
  BY <1>1, NobodyCrossed DEF Written, CopiesCurrent, CoHostsKept
<1>4. CASE row' = Handed(k, row)
  <2>1. row'.hostId = task[k].target /\ row'.coHostIds = task[k].seen.coHostIds \ {task[k].target}
    BY <1>1, <1>4 DEF Handed, Rows
  <2> QED BY <1>2, <2>1, FewLemma
<1>5. ASSUME NEW mode \in Modes, row' = [row EXCEPT !.controlMode = mode]
      PROVE  /\ Few(row'.coHostIds)
             /\ "crossed" \notin lapses' => row'.hostId \notin row'.coHostIds
  BY <1>1, <1>2, <1>3, <1>5 DEF Rows
<1>6. CASE task[k].op = "addCo" /\ row' = [row EXCEPT !.coHostIds =
                                             task[k].seen.coHostIds \cup {task[k].target}]
  <2>1. row'.hostId = row.hostId /\ row'.coHostIds = task[k].seen.coHostIds \cup {task[k].target}
    BY <1>1, <1>6 DEF Rows
  <2>2. Cardinality(task[k].seen.coHostIds) < MAX_CO_HOSTS /\ task[k].target # task[k].seen.hostId
    BY <1>1, <1>6 DEF CoHostsKept
  <2> QED BY <1>2, <1>3, <2>1, <2>2, FewLemma
<1>7. CASE task[k].op = "removeCo" /\ row' = [row EXCEPT !.coHostIds =
                                                task[k].seen.coHostIds \ {task[k].target}]
  <2>1. row'.hostId = row.hostId /\ row'.coHostIds = task[k].seen.coHostIds \ {task[k].target}
    BY <1>1, <1>7 DEF Rows
  <2> QED BY <1>2, <1>3, <2>1, FewLemma
<1> QED BY <1>4, <1>5, <1>6, <1>7 DEF Written

LEMMA StepCoHosts ==
  ASSUME RoomInv, CopiesCurrent, CoHostsKept, [Next]_vars
  PROVE  CoHostsKept'
<1>1. row' # NONE => /\ Few(row'.coHostIds)
                     /\ "crossed" \notin lapses' => row'.hostId \notin row'.coHostIds
  <2>1. CASE row' = row /\ lapses \subseteq lapses'
    BY <2>1 DEF CoHostsKept
  <2>2. ASSUME NEW k \in Slots, NEW u \in Users, NEW i \in Instances, CreateRoom(k, u, i)
        PROVE  row'.coHostIds = {}
    BY <2>2 DEF CreateRoom, NewRow
  <2>3. Few({})
    BY FewLemma
  <2> QED BY <2>1, <2>2, <2>3, RowSteps, WrittenCoHosts DEF AdminDelete
<1>2. ASSUME NEW j \in Slots, task'[j].seen # NONE, task'[j].pc \notin {"publish", "clear"}
      PROVE  Few(task'[j].seen.coHostIds)
  <2>1. (row # NONE => Few(row.coHostIds))
        /\ (task[j].seen # NONE /\ task[j].pc \notin {"publish", "clear"} => Few(task[j].seen.coHostIds))
    BY DEF CoHostsKept
  <2>2. ASSUME NEW k \in Slots, Written(k)
        PROVE  task'[j] = task[j]
    BY <1>2, <2>2 DEF Written, Others
  <2> QED BY <1>2, <2>1, <2>2, CopySteps
<1>3. ASSUME NEW j \in Slots, task'[j].op = "addCo", task'[j].pc = "write"
      PROVE  /\ Cardinality(task'[j].seen.coHostIds) < MAX_CO_HOSTS
             /\ task'[j].target # task'[j].seen.hostId
  BY <1>3, AddingSteps DEF CoHostsKept
<1> QED BY <1>1, <1>2, <1>3 DEF CoHostsKept, Few

\* At most MAX_CO_HOSTS co-hosts, however many requests read, extend and write
\* the list at once; and the host is not among them unless requests crossed.
THEOREM CoHostsBounded == Spec => []CoHostsInBounds
<1>1. Init => RoomInv /\ CopiesCurrent /\ CoHostsKept
  <2> SUFFICES ASSUME Init
               PROVE  RoomInv /\ CopiesCurrent /\ CoHostsKept
    OBVIOUS
  <2>1. row.coHostIds = {}
    BY DEF Init, NewRow
  <2>2. Few({})
    BY FewLemma
  <2>3. \A k \in Slots : task[k] = Free
    BY DEF Init
  <2>4. CopiesCurrent /\ CoHostsKept
    BY <2>1, <2>2, <2>3, FreeSound DEF CopiesCurrent, CoHostsKept
  <2> QED BY <2>4, InitTypes
<1>2. RoomInv /\ CopiesCurrent /\ CoHostsKept /\ [Next]_vars
        => RoomInv' /\ CopiesCurrent' /\ CoHostsKept'
  BY StepTypes, StepCopies, StepCoHosts
<1>3. CoHostsKept => CoHostsInBounds
  BY DEF CoHostsKept, CoHostsInBounds, Few
<1> QED BY <1>1, <1>2, <1>3, PTL DEF Spec

===============================================================================
