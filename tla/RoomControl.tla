----------------------------- MODULE RoomControl -----------------------------
(***************************************************************************)
(* Who hosts one watch-party room and who is in it: join and disconnect,   *)
(* the grace timer and the automatic transfer of watch-party.gateway.ts,   *)
(* settings, co-hosts, transfer, create and delete of                      *)
(* watch-party.service.ts, the presence and control keys of                *)
(* watch-party.store.ts (Redis mode).                                      *)
(*                                                                         *)
(* The row is the truth; the control key caches part of it for every       *)
(* instance.  Handlers of sockets, of REST requests and of timers run at   *)
(* the same time and meet at every await.  One step of a handler is the    *)
(* code between two answers together with the statement it then sends.     *)
(*                                                                         *)
(* waitForBuffering changes exactly like controlMode and is not repeated.  *)
(* Two reads in a row of which the second can only refuse are one step.    *)
(* The client's clock orders presence (joinedAt), so "longest in the room" *)
(* is any of those present.  There is no clock: an armed timer fires any   *)
(* time later.  A connection joins once; coming back is a new connection.  *)
(***************************************************************************)
EXTENDS Naturals, FiniteSets

CONSTANTS
    Users,
    Instances,     \* server instances
    Tabs,          \* connections of a user to an instance
    Slots,         \* slots for handlers in progress
    Operations,    \* what happens in an instance of this model besides joins
    MAX_CO_HOSTS,
    MaxInputs,     \* bound on joins, requests and faults together
    MaxRooms,      \* bound on rooms that use the code, one after another
    NONE           \* null

ASSUME LimitsAssumption ==
    MAX_CO_HOSTS \in Nat /\ MaxInputs \in Nat /\ MaxRooms \in Nat \ {0}
ASSUME UsersAssumption == IsFiniteSet(Users) /\ NONE \notin Users
ASSUME OperationsAssumption ==
    Operations \subseteq {"settings", "addCo", "removeCo", "transfer", "event",
                          "members", "delete", "adminDelete", "create", "fault"}

Sockets == Users \X Instances \X Tabs
UserOf(s) == s[1]
InstanceOf(s) == s[2]
Modes == {"host", "everyone"}

\* RoomControlState and the columns of the row that matter here.
Controls == [hostId : Users, coHostIds : SUBSET Users, controlMode : Modes]
Rows == [id : 1..MaxRooms, hostId : Users, coHostIds : SUBSET Users,
         controlMode : Modes, isPrivate : BOOLEAN]
ASSUME NullAssumption == NONE \notin Rows \cup Controls

VARIABLES
    row,       \* the watch_rooms row of the code, or NONE
    members,   \* room_members of that room
    control,   \* Redis control key, or NONE
    presence,  \* Redis presence hash: the sockets in it
    conn,      \* what became of each connection
    timer,     \* hostTransferTimers: the host an instance has a timer for
    orphan,    \* timers whose entry in that map was overwritten or deleted
    task,      \* the handler in each slot
    inputs,    \* joins, requests and faults so far
    rooms,     \* rooms that used the code so far
    lapses,    \* history: why the control key may have fallen behind the row
    stray,     \* history: sockets whose presence nobody will remove
    steady     \* history: transfers whose host has been present all along

keys == <<control, presence>>
timers == <<timer, orphan>>
bounds == <<inputs, rooms>>
history == <<lapses, stray, steady>>
vars == <<row, members, keys, conn, timers, task, bounds, history>>

Free == [op |-> "none", pc |-> "free", by |-> NONE, at |-> NONE, sock |-> NONE,
         target |-> NONE, seen |-> NONE, next |-> NONE]

\* A new room: what createRoom stores of its input.
NewRow(id, u, mode, private) ==
    [id |-> id, hostId |-> u, coHostIds |-> {}, controlMode |-> mode, isPrivate |-> private]

ToControlState(r) ==
    [hostId |-> r.hostId, coHostIds |-> r.coHostIds, controlMode |-> r.controlMode]

Present == {UserOf(s) : s \in presence}

Init ==
    /\ \E u \in Users, private \in BOOLEAN : row = NewRow(1, u, "host", private)
    /\ members = Users
    /\ control = NONE
    /\ presence = {}
    /\ conn = [s \in Sockets |-> "new"]
    /\ timer = [i \in Instances |-> NONE]
    /\ orphan = {}
    /\ task = [k \in Slots |-> Free]
    /\ inputs = 0
    /\ rooms = 1
    /\ lapses = {}
    /\ stray = {}
    /\ steady = {}

-----------------------------------------------------------------------------
(* Handlers.                                                               *)

Input == inputs < MaxInputs /\ inputs' = inputs + 1

Start(k, op, pc, by, at) ==
    /\ task[k] = Free
    /\ task' = [task EXCEPT ![k] = [Free EXCEPT !.op = op, !.pc = pc, !.by = by, !.at = at]]
At(k, pc) == task[k].pc = pc
Goto(k, pc) == task' = [task EXCEPT ![k].pc = pc]
Done(k) == task' = [task EXCEPT ![k] = Free]

\* A change of the row passes by the handlers that hold a copy of it, or of a
\* part of it.
Holders(ks) == {j \in ks : task[j].seen # NONE \/ task[j].next # NONE}
Crossing(others) ==
    lapses' = IF Holders(others) = {} THEN lapses ELSE lapses \cup {"crossed"}

\* setPresence, removePresence and clearRoom.
SetPresence(s) ==
    /\ presence' = s
    /\ steady' = {k \in steady : task[k].by \in {UserOf(x) : x \in s}}

-----------------------------------------------------------------------------
(* loadControl: cache-aside, from a row read before or now.                *)

\* What follows loadControl in join, in leaveRoom and in a playback command.
Loaded(k, c) ==
    LET t == task[k] IN
    CASE t.op = "join" ->
           /\ task' = [task EXCEPT ![k].pc = "present", ![k].seen = NONE]
           /\ timer' = IF c.hostId = t.by THEN [timer EXCEPT ![t.at] = NONE] ELSE timer
      [] t.op = "leave" ->
           /\ IF c.hostId = t.by
              THEN task' = [task EXCEPT ![k].pc = "list", ![k].seen = NONE]
              ELSE Done(k)
           /\ UNCHANGED timer
      [] t.op = "event" -> Done(k) /\ UNCHANGED timer

Get(k) ==
    /\ At(k, "get")
    /\ task[k].op = "leave" => timer[task[k].at] = NONE
    /\ IF control # NONE THEN Loaded(k, control)
       ELSE Goto(k, IF task[k].seen = NONE THEN "row" ELSE "fill") /\ UNCHANGED timer
    /\ UNCHANGED <<row, members, keys, conn, orphan, bounds, history>>

ReadRow(k) ==
    /\ At(k, "row")
    /\ IF row = NONE THEN Done(k)
       ELSE task' = [task EXCEPT ![k].pc = "fill", ![k].seen = row]
    /\ UNCHANGED <<row, members, keys, conn, timers, bounds, history>>

\* Variant: the whole row is cached.
FillWithRow(k) ==
    /\ At(k, "fill")
    /\ control' = task[k].seen
    /\ Loaded(k, task[k].seen)
    /\ UNCHANGED <<row, members, presence, conn, orphan, bounds, history>>

Fill(k) ==
    /\ At(k, "fill")
    /\ control' = ToControlState(task[k].seen)
    /\ Loaded(k, ToControlState(task[k].seen))
    /\ UNCHANGED <<row, members, presence, conn, orphan, bounds, history>>

-----------------------------------------------------------------------------
(* Sockets: join and disconnect.                                           *)

\* handleJoin up to its first await on Redis: the row, membership of a private
\* room, and the socket is in the room.
Join(k, s) ==
    /\ conn[s] = "new"
    /\ Input
    /\ row # NONE
    /\ row.isPrivate => UserOf(s) = row.hostId \/ UserOf(s) \in members
    /\ conn' = [conn EXCEPT ![s] = "in"]
    /\ task[k] = Free
    /\ task' = [task EXCEPT ![k] = [Free EXCEPT !.op = "join", !.pc = "get", !.by = UserOf(s),
                                    !.at = InstanceOf(s), !.sock = s, !.seen = row]]
    /\ UNCHANGED <<row, members, keys, timers, rooms, history>>

JoinPresent(k) ==
    /\ At(k, "present")
    /\ SetPresence(presence \cup {task[k].sock})
    /\ Done(k)
    /\ UNCHANGED <<row, members, control, conn, timers, bounds, lapses, stray>>

\* A disconnect that overtakes the join of its socket removes nothing: the
\* join still adds the entry afterwards.
Disconnect(k, s) ==
    /\ conn[s] = "in"
    /\ conn' = [conn EXCEPT ![s] = "gone"]
    /\ task[k] = Free
    /\ task' = [task EXCEPT ![k] = [Free EXCEPT !.op = "leave", !.pc = "remove",
                                    !.by = UserOf(s), !.at = InstanceOf(s), !.sock = s]]
    /\ stray' = IF \E j \in Slots : task[j].op = "join" /\ task[j].sock = s
                THEN stray \cup {s} ELSE stray
    /\ UNCHANGED <<row, members, keys, timers, bounds, lapses, steady>>

\* Variant: leaveRoom tells the others and forgets the store.
LeaveSilently(k) ==
    /\ At(k, "remove")
    /\ Goto(k, "get")
    /\ UNCHANGED <<row, members, keys, conn, timers, bounds, history>>

Leave(k) ==
    /\ At(k, "remove")
    /\ SetPresence(presence \ {task[k].sock})
    /\ Goto(k, "get")
    /\ UNCHANGED <<row, members, control, conn, timers, bounds, lapses, stray>>

\* scheduleHostTransfer: a timer runs already, whoever it is for.
TimerRuns(k) ==
    /\ At(k, "get") /\ task[k].op = "leave"
    /\ timer[task[k].at] # NONE
    /\ Done(k)
    /\ UNCHANGED <<row, members, keys, conn, timers, bounds, history>>

\* The host is gone unless another tab is listed.  A timer armed meanwhile by
\* another tab's disconnect loses its entry in the map.
Schedule(k) ==
    LET t == task[k] IN
    /\ At(k, "list") /\ t.op = "leave"
    /\ IF t.by \in Present THEN UNCHANGED timers
       ELSE /\ timer' = [timer EXCEPT ![t.at] = t.by]
            /\ orphan' = IF timer[t.at] = NONE THEN orphan
                         ELSE orphan \cup {<<t.at, timer[t.at]>>}
    /\ Done(k)
    /\ UNCHANGED <<row, members, keys, conn, bounds, history>>

-----------------------------------------------------------------------------
(* The automatic transfer.                                                 *)

StartTransfer(k, i, u) ==
    /\ Start(k, "auto", "read", u, i)
    /\ timer' = [timer EXCEPT ![i] = NONE]
    /\ steady' = IF u \in Present THEN steady \cup {k} ELSE steady \ {k}
    /\ UNCHANGED <<row, members, keys, conn, bounds, lapses, stray>>

Fire(k, i) ==
    /\ timer[i] # NONE
    /\ StartTransfer(k, i, timer[i])
    /\ UNCHANGED orphan

\* An overwritten timer fires too, and deletes the entry of its successor.
FireOrphan(k, i, u) ==
    /\ <<i, u>> \in orphan
    /\ StartTransfer(k, i, u)
    /\ orphan' = (orphan \ {<<i, u>>})
                   \cup (IF timer[i] = NONE THEN {} ELSE {<<i, timer[i]>>})

AutoRead(k) ==
    /\ At(k, "read") /\ task[k].op = "auto"
    /\ IF row = NONE \/ (row # NONE /\ row.hostId # task[k].by) THEN Done(k)
       ELSE task' = [task EXCEPT ![k].pc = "list", ![k].seen = row]
    /\ UNCHANGED <<row, members, keys, conn, timers, bounds, history>>

\* Co-hosts first, then whoever has been in the room longest.
NextHosts(t) ==
    LET candidates == Present \ {t.by} IN
    IF candidates \cap t.seen.coHostIds # {} THEN candidates \cap t.seen.coHostIds
    ELSE candidates

\* Variant: the list is only asked for candidates.
AutoListUnchecked(k) ==
    /\ At(k, "list") /\ task[k].op = "auto"
    /\ IF Present \ {task[k].by} = {} THEN Done(k)
       ELSE \E n \in NextHosts(task[k]) :
              task' = [task EXCEPT ![k].pc = "write", ![k].target = n]
    /\ UNCHANGED <<row, members, keys, conn, timers, bounds, history>>

AutoList(k) ==
    /\ At(k, "list") /\ task[k].op = "auto"
    /\ IF task[k].by \in Present \/ Present \ {task[k].by} = {} THEN Done(k)
       ELSE \E n \in NextHosts(task[k]) :
              task' = [task EXCEPT ![k].pc = "write", ![k].target = n]
    /\ UNCHANGED <<row, members, keys, conn, timers, bounds, history>>

\* The settings published with a transfer are those read before the update.
Handed(k, r) == [r EXCEPT !.hostId = task[k].target,
                          !.coHostIds = task[k].seen.coHostIds \ {task[k].target}]

\* Variant: the update names the room only.
StillHost(k) == row # NONE /\ row.id = task[k].seen.id

\* updateMany on the room and the host the transfer was decided against.
MayHandOver(k) == row # NONE /\ row.id = task[k].seen.id /\ row.hostId = task[k].by

Handover(k) ==
    /\ At(k, "write") /\ task[k].op \in {"auto", "transfer"}
    /\ IF MayHandOver(k)
       THEN /\ row' = Handed(k, row)
            /\ task' = [task EXCEPT ![k].pc = "publish",
                                    ![k].next = Handed(k, ToControlState(task[k].seen))]
            /\ Crossing(Slots \ {k})
       ELSE Done(k) /\ UNCHANGED <<row, lapses>>
    /\ UNCHANGED <<members, keys, conn, timers, bounds, stray, steady>>

-----------------------------------------------------------------------------
(* REST: settings, co-hosts, transfer.                                     *)

Request(op) == op \in Operations /\ Input

\* requireHostRoom and, where a target is named, requireMember.
HostRequest(k, op, u, i, target) ==
    /\ Request(op)
    /\ row # NONE /\ row.hostId = u
    /\ task[k] = Free
    /\ task' = [task EXCEPT ![k] = [Free EXCEPT !.op = op, !.pc = "write", !.by = u,
                                    !.at = i, !.target = target, !.seen = row]]
    /\ UNCHANGED <<row, members, keys, conn, timers, rooms, history>>

UpdateSettings(k, u, i) == HostRequest(k, "settings", u, i, NONE)

\* Variant: the limit is tested one too late.
AddCoHostOverLimit(k, u, i, v) ==
    /\ v # u /\ v \in members
    /\ row # NONE /\ v \notin row.coHostIds /\ Cardinality(row.coHostIds) <= MAX_CO_HOSTS
    /\ HostRequest(k, "addCo", u, i, v)

AddCoHost(k, u, i, v) ==
    /\ v # u /\ v \in members
    /\ row # NONE /\ v \notin row.coHostIds /\ Cardinality(row.coHostIds) < MAX_CO_HOSTS
    /\ HostRequest(k, "addCo", u, i, v)

RemoveCoHost(k, u, i, v) ==
    /\ row # NONE /\ v \in row.coHostIds
    /\ HostRequest(k, "removeCo", u, i, v)

TransferHost(k, u, i, v) ==
    /\ v # u /\ v \in members
    /\ HostRequest(k, "transfer", u, i, v)

\* rooms.update: other columns keep what they hold now, coHostIds is replaced
\* by the list made from the row read before.  A missing row throws.
Update(k, r) ==
    /\ IF row # NONE /\ row.id = task[k].seen.id
       THEN /\ row' = r
            /\ task' = [task EXCEPT ![k].pc = "publish", ![k].next = ToControlState(r)]
            /\ Crossing(Slots \ {k})
       ELSE Done(k) /\ UNCHANGED <<row, lapses>>
    /\ UNCHANGED <<members, keys, conn, timers, bounds, stray, steady>>

Write(k) ==
    LET t == task[k] IN
    /\ At(k, "write")
    /\ \/ t.op = "settings" /\ \E mode \in Modes : Update(k, [row EXCEPT !.controlMode = mode])
       \/ t.op = "addCo" /\ Update(k, [row EXCEPT !.coHostIds = t.seen.coHostIds \cup {t.target}])
       \/ t.op = "removeCo" /\ Update(k, [row EXCEPT !.coHostIds = t.seen.coHostIds \ {t.target}])

Publish(k) ==
    /\ At(k, "publish")
    /\ control' = task[k].next
    /\ Done(k)
    /\ UNCHANGED <<row, members, presence, conn, timers, bounds, history>>

\* A playback command of a member of the room starts with loadControl.
Event(k, s) ==
    /\ Request("event")
    /\ conn[s] = "in"
    /\ control = NONE
    /\ Start(k, "event", "row", UserOf(s), InstanceOf(s))
    /\ UNCHANGED <<row, members, keys, conn, timers, rooms, history>>

-----------------------------------------------------------------------------
(* Life cycle of the room and its members.                                 *)

\* joinAsGuest: the insert of a second request of the same user fails on the
\* unique key; a wrong PIN of a private room is a request that never happens.
Enter(u) ==
    /\ Request("members")
    /\ row # NONE /\ u \notin members
    /\ members' = members \cup {u}
    /\ UNCHANGED <<row, keys, conn, timers, task, rooms, history>>

RemoveMember(u) ==
    /\ Request("members")
    /\ u \in members
    /\ members' = members \ {u}
    /\ UNCHANGED <<row, keys, conn, timers, task, rooms, history>>

DeleteRoom(k, u, i) == HostRequest(k, "delete", u, i, NONE)

\* The members go with the row (onDelete: Cascade).
DeleteRow(k) ==
    /\ At(k, "write") /\ task[k].op = "delete"
    /\ IF row # NONE /\ row.id = task[k].seen.id
       THEN /\ row' = NONE
            /\ members' = {}
            /\ Goto(k, "clear")
            /\ Crossing(Slots \ {k})
       ELSE Done(k) /\ UNCHANGED <<row, members, lapses>>
    /\ UNCHANGED <<keys, conn, timers, bounds, stray, steady>>

\* An administrator deletes the row and nothing else.
AdminDelete ==
    /\ Request("adminDelete")
    /\ row # NONE
    /\ row' = NONE
    /\ members' = {}
    /\ Crossing(Slots)
    /\ UNCHANGED <<keys, conn, timers, task, rooms, stray, steady>>

\* The code is unique: it is free again once the earlier room is gone.
CreateRoom(k, u, i) ==
    /\ Request("create")
    /\ row = NONE /\ rooms < MaxRooms
    /\ rooms' = rooms + 1
    /\ \E mode \in Modes : row' = NewRow(rooms', u, mode, FALSE)
    /\ task[k] = Free
    /\ task' = [task EXCEPT ![k] = [Free EXCEPT !.op = "create", !.pc = "clear",
                                    !.by = u, !.at = i, !.seen = row']]
    /\ Crossing(Slots \ {k})
    /\ UNCHANGED <<members, keys, conn, timers, stray, steady>>

\* Variant: a reused code inherits what is cached.
ClearNothing(k) ==
    /\ At(k, "clear")
    /\ Done(k)
    /\ UNCHANGED <<row, members, keys, conn, timers, bounds, history>>

\* clearRoomState: the timer of this instance, then every key of the room.
ClearRoomState(k) ==
    /\ At(k, "clear")
    /\ timer' = [timer EXCEPT ![task[k].at] = NONE]
    /\ control' = NONE
    /\ SetPresence({})
    /\ Done(k)
    /\ UNCHANGED <<row, members, conn, orphan, bounds, lapses, stray>>

-----------------------------------------------------------------------------
(* Failures.                                                               *)

\* What handlers that end early leave undone.
Abandoned(ks, sockets) ==
    /\ lapses' = IF \E k \in ks : task[k].pc \in {"publish", "clear"}
                 THEN lapses \cup {"unpublished"} ELSE lapses
    /\ stray' = stray \cup sockets \cup {task[k].sock : k \in {j \in ks : task[j].pc = "remove"}}

\* Redis or the database rejects: the handler ends there.
Fail(k) ==
    /\ task[k] # Free
    /\ Request("fault")
    /\ Abandoned({k}, {})
    /\ Done(k)
    /\ UNCHANGED <<row, members, keys, conn, timers, rooms, steady>>

\* An instance dies: its sockets, timers and handlers with it.  Nothing removes
\* their presence, the hash has no expiry.
Crash(i) ==
    LET dead == {k \in Slots : task[k].at = i}
        lost == {s \in Sockets : InstanceOf(s) = i /\ conn[s] = "in"} IN
    /\ Request("fault")
    /\ Abandoned(dead, lost)
    /\ conn' = [s \in Sockets |-> IF s \in lost THEN "gone" ELSE conn[s]]
    /\ task' = [k \in Slots |-> IF k \in dead THEN Free ELSE task[k]]
    /\ timer' = [timer EXCEPT ![i] = NONE]
    /\ orphan' = {o \in orphan : o[1] # i}
    /\ UNCHANGED <<row, members, keys, rooms, steady>>

-----------------------------------------------------------------------------
Handler(k) ==
    \/ Get(k) \/ ReadRow(k) \/ Fill(k)
    \/ JoinPresent(k) \/ Leave(k) \/ TimerRuns(k) \/ Schedule(k)
    \/ AutoRead(k) \/ AutoList(k) \/ Handover(k)
    \/ Write(k) \/ Publish(k)
    \/ DeleteRow(k) \/ ClearRoomState(k)

Socket(k) == \E s \in Sockets : Join(k, s) \/ Disconnect(k, s) \/ Event(k, s)

Rest(k) ==
    \E u \in Users, i \in Instances :
        \/ UpdateSettings(k, u, i)
        \/ \E v \in Users : AddCoHost(k, u, i, v) \/ RemoveCoHost(k, u, i, v)
                            \/ TransferHost(k, u, i, v)
        \/ DeleteRoom(k, u, i)
        \/ CreateRoom(k, u, i)

Timer(k, i) == Fire(k, i) \/ \E u \in Users : FireOrphan(k, i, u)

Next ==
    \/ \E k \in Slots :
         \/ Handler(k)
         \/ Socket(k)
         \/ Rest(k)
         \/ \E i \in Instances : Timer(k, i)
         \/ Fail(k)
    \/ \E u \in Users : Enter(u) \/ RemoveMember(u)
    \/ AdminDelete
    \/ \E i \in Instances : Crash(i)

\* Promises settle and timers fire; sockets, people and faults are never forced.
Fairness ==
    /\ \A k \in Slots : WF_vars(Handler(k))
    /\ \A i \in Instances : WF_vars(\E k \in Slots : Timer(k, i))

Spec == Init /\ [][Next]_vars /\ Fairness

-----------------------------------------------------------------------------
(* Properties.                                                             *)

Pcs == {"free", "get", "row", "fill", "present", "remove", "list", "read", "write",
        "publish", "clear"}
Ops == {"none", "join", "leave", "auto"} \cup Operations
Tasks == [op : Ops, pc : Pcs, by : Users \cup {NONE}, at : Instances \cup {NONE},
          sock : Sockets \cup {NONE}, target : Users \cup {NONE},
          seen : Rows \cup {NONE}, next : Controls \cup {NONE}]

\* Types; a handler about to write holds the row it decided on, one about to
\* publish holds what it publishes.
TypeOK ==
    /\ row \in Rows \cup {NONE}
    /\ members \in SUBSET Users
    /\ control \in Controls \cup {NONE}
    /\ presence \in SUBSET Sockets
    /\ conn \in [Sockets -> {"new", "in", "gone"}]
    /\ timer \in [Instances -> Users \cup {NONE}]
    /\ orphan \in SUBSET (Instances \X Users)
    /\ task \in [Slots -> Tasks]
    /\ inputs \in 0..MaxInputs /\ rooms \in 1..MaxRooms
    /\ lapses \subseteq {"crossed", "unpublished"}
    /\ stray \in SUBSET Sockets /\ steady \in SUBSET Slots
    /\ \A k \in Slots :
         /\ task[k].pc \in {"fill", "write"} => task[k].seen # NONE
         /\ task[k].pc = "publish" => task[k].next # NONE

\* PLATFORM.md: at most 5 co-hosts.  The list is read, extended and written back
\* in steps of several requests; they may lose each other's change but together
\* never exceed the limit.  Unless requests crossed, the host is not on the list
\* as well: becoming host, by hand or automatically, takes the user off it.
CoHostsInBounds ==
    row # NONE =>
        /\ Cardinality(row.coHostIds) <= MAX_CO_HOSTS
        /\ "crossed" \notin lapses => row.hostId \notin row.coHostIds

\* Once the handlers that store it are done, the control key, on which every
\* permission check rests, is empty or equals the row, also for a code used a
\* second time ("A reused code must not inherit the previous room's cached
\* state").  The exceptions are the two histories: requests that crossed, and a
\* publish that failed.
ControlFollowsRow ==
    row # NONE /\ control # NONE /\ lapses = {}
      /\ (\A k \in Slots : task[k].pc \notin {"fill", "publish", "clear"})
    => control = ToControlState(row)

\* Whoever is listed is connected or about to be removed.  An entry stays for
\* good only if its disconnect overtook its join, failed or never ran.
ListedAreConnected ==
    \A s \in presence :
        conn[s] = "gone" => \/ s \in stray
                           \/ \E k \in Slots : task[k].sock = s /\ task[k].pc = "remove"

\* A room changes hands only by a transfer decided against its present host:
\* of two transfers at once, by hand or by timers of two instances, one wins.
HandedOverOnce ==
    [][row # NONE /\ row' # NONE /\ row.id = row'.id /\ row.hostId # row'.hostId
       => \E k \in Slots : task[k].pc = "write" /\ task[k].by = row.hostId
                           /\ task[k].target = row'.hostId]_vars

\* WATCH_PARTY_FE.md: a host who came back keeps the room.  A timer that fires,
\* also on an instance where nothing cancelled it, takes nothing from a host
\* who has been listed ever since.
PresentHostKeeps ==
    [][\A k \in steady : task[k].op = "auto" => task'[k].pc # "publish"]_vars

\* PLATFORM.md: the room of a host gone for more than 30 seconds passes to a
\* co-host who is online, or else to whoever came first.
HostMissing(u) == /\ row # NONE /\ row.hostId = u /\ u \notin Present
                  /\ \E s \in presence : conn[s] = "in"
HostMovesOn ==
    \A u \in Users :
        [](row # NONE /\ row.hostId = u /\ u \in Present => []<>~HostMissing(u))

=============================================================================
